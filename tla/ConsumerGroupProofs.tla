------------------------ MODULE ConsumerGroupProofs ------------------------
(***************************************************************************)
(* Proofs about ConsumerGroup, for a topic of any length and members that  *)
(* come and go: its types, that the group skips no record, and that its    *)
(* offset is never moved back.  Whatever implements it inherits them.      *)
(***************************************************************************)
EXTENDS ConsumerGroup, TLAPS

\* The group is never ahead of its member.
MemberLeads ==
  position # NoOffset /\ committed # NoOffset => committed <= position

\* The inductive invariant.
IInv == TypeOK /\ MemberLeads /\ SkipsNothing

\* An empty topic and a group that has not begun satisfy it.
LEMMA InitInv ==
  ASSUME NoOffsetAssumption PROVE Init => IInv
  BY DEF NoOffsetAssumption, Init, IInv, TypeOK, MemberLeads, SkipsNothing

\* What the types say in terms of the solvers' arithmetic.
LEMMA OffsetTypes ==
  ASSUME NoOffsetAssumption, TypeOK
  PROVE  /\ NoOffset \in Nat /\ end \in Nat /\ end < NoOffset
         /\ base \in Nat /\ committed \in Nat /\ position \in Nat
         /\ position # NoOffset => position <= end
         /\ committed # NoOffset => committed <= end
  BY DEF NoOffsetAssumption, TypeOK

\* Every step keeps the inductive invariant.
LEMMA NextInv ==
  ASSUME NoOffsetAssumption PROVE IInv /\ [Next]_vars => IInv'
<1> SUFFICES ASSUME IInv, [Next]_vars PROVE IInv'
  OBVIOUS
<1> USE OffsetTypes DEF IInv
<1>1. CASE Append
  <2>1. TypeOK'
    BY <1>1 DEF Append, TypeOK
  <2>2. MemberLeads' /\ SkipsNothing'
    BY <1>1 DEF Append, MemberLeads, SkipsNothing
  <2>3. QED
    BY <2>1, <2>2
<1>2. CASE Assign
  <2>1. TypeOK'
    BY <1>2 DEF Assign, TypeOK
  <2>2. MemberLeads' /\ SkipsNothing'
    BY <1>2 DEF Assign, MemberLeads, SkipsNothing
  <2>3. QED
    BY <2>1, <2>2
<1>3. CASE HandOver
  <2>1. TypeOK'
    <3>1. position + 1 \in 0 .. end /\ position + 1 \in 1 .. end
      BY <1>3 DEF HandOver
    <3>2. handed' \subseteq 1 .. end /\ position' \in 0 .. end
      BY <1>3, <3>1 DEF HandOver, TypeOK
    <3>3. UNCHANGED <<end, committed, base>>
      BY <1>3 DEF HandOver
    <3>4. QED
      BY <3>2, <3>3 DEF TypeOK
  <2>2. MemberLeads'
    BY <1>3 DEF HandOver, MemberLeads
  <2>3. ASSUME NEW o \in 1 .. end, base < o,
               \/ o <= position + 1
               \/ committed # NoOffset /\ o <= committed
        PROVE  o \in handed \cup {position + 1}
    BY <1>3, <2>3 DEF HandOver, SkipsNothing
  <2>4. SkipsNothing'
    BY <1>3, <2>3 DEF HandOver, SkipsNothing
  <2>5. QED
    BY <2>1, <2>2, <2>4
<1>4. CASE Commit \/ Close \/ Vanish
  <2>1. TypeOK'
    BY <1>4 DEF Commit, Close, Vanish, TypeOK
  <2>2. MemberLeads' /\ SkipsNothing'
    BY <1>4 DEF Commit, Close, Vanish, MemberLeads, SkipsNothing
  <2>3. QED
    BY <2>1, <2>2
<1>5. CASE UNCHANGED vars
  BY <1>5 DEF vars, TypeOK, MemberLeads, SkipsNothing
<1>6. QED
  BY <1>1, <1>2, <1>3, <1>4, <1>5 DEF Next

\* The inductive invariant holds throughout.
LEMMA Invariance ==
  ASSUME NoOffsetAssumption PROVE Spec => []IInv
  BY InitInv, NextInv, PTL DEF Spec
-----------------------------------------------------------------------------
\* Offsets stay on the topic, or are none.
THEOREM TypeCorrect ==
  ASSUME NoOffsetAssumption PROVE Spec => []TypeOK
  BY Invariance, PTL DEF IInv

\* A group is handed everything from where it began to where it is.
THEOREM SkipsNothingHolds ==
  ASSUME NoOffsetAssumption PROVE Spec => []SkipsNothing
  BY Invariance, PTL DEF IInv

\* Whoever comes and goes, the group's offset is never moved back.
THEOREM NeverRewindsHolds ==
  ASSUME NoOffsetAssumption PROVE Spec => NeverRewinds
<1>1. ASSUME IInv, [Next]_vars, committed # NoOffset
      PROVE  committed' # NoOffset /\ committed' >= committed
  BY <1>1, OffsetTypes
  DEF IInv, MemberLeads, Next, Append, Assign, HandOver, Commit, Close,
      Vanish, vars
<1>2. IInv /\ [Next]_vars =>
        [committed # NoOffset =>
           committed' # NoOffset /\ committed' >= committed]_vars
  BY <1>1
<1>3. QED
  BY <1>2, Invariance, PTL DEF Spec, NeverRewinds
=============================================================================
