--------------------------- MODULE ConsumerGroup ---------------------------
(***************************************************************************)
(* What a service that reads a topic as a consumer group promises: it is   *)
(* handed the records one after the other, comes back to where the group's *)
(* committed offset is, and commits nothing it was not handed.             *)
(* ThreatConsumer and AuditIndexer both implement it, each with its own    *)
(* ways to start, fail, stop and be killed.                                *)
(*                                                                         *)
(* One partition; a record is its offset, offsets count from 1.            *)
(***************************************************************************)
EXTENDS Naturals

CONSTANT NoOffset   \* no offset at all; bound: the topic does not get there

\* The theorems' hypothesis; both implementations have such a NoOffset.
NoOffsetAssumption == NoOffset \in Nat \ {0}

VARIABLES
  end,         \* the last record on the topic
  committed,   \* the group's committed offset, or NoOffset
  position,    \* the last record handed to the present member, or NoOffset
  base,        \* the end of the topic when the group last began anew
  handed       \* the records that were ever handed over

vars == <<end, committed, position, base, handed>>
-----------------------------------------------------------------------------
\* Every offset is on the topic, or none.
TypeOK ==
  /\ end \in 0 .. NoOffset - 1 /\ base \in 0 .. end
  /\ {committed, position} \subseteq 0 .. end \cup {NoOffset}
  /\ handed \subseteq 1 .. end

Init ==
  /\ end = 0 /\ committed = NoOffset /\ position = NoOffset /\ base = 0
  /\ handed = {}

\* A producer appends a record.
Append ==
  /\ end' = end + 1 /\ end' # NoOffset
  /\ UNCHANGED <<committed, position, base, handed>>

\* A member begins where the group is, or at the end if it is nowhere.
Assign ==
  /\ position = NoOffset
  /\ IF committed = NoOffset THEN position' = end /\ base' = end
     ELSE position' = committed /\ UNCHANGED base
  /\ UNCHANGED <<end, committed, handed>>

\* The member is handed the next record.
HandOver ==
  /\ position # NoOffset /\ position < end
  /\ position' = position + 1 /\ handed' = handed \cup {position + 1}
  /\ UNCHANGED <<end, committed, base>>

Commit ==
  /\ position # NoOffset
  /\ committed' = position
  /\ UNCHANGED <<end, position, base, handed>>

\* The member leaves in good order.
Close ==
  /\ position # NoOffset
  /\ committed' = position /\ position' = NoOffset
  /\ UNCHANGED <<end, base, handed>>

\* The member is gone.
Vanish ==
  /\ position' = NoOffset
  /\ UNCHANGED <<end, committed, base, handed>>

Next == Append \/ Assign \/ HandOver \/ Commit \/ Close \/ Vanish

Spec == Init /\ [][Next]_vars
-----------------------------------------------------------------------------
(***************************************************************************)
(* What a group may rely on                                                *)
(***************************************************************************)

\* Between where the group began and where it is, or will begin again,
\* nothing was left out.
SkipsNothing ==
  \A o \in 1 .. end :
    /\ base < o
    /\ \/ position # NoOffset /\ o <= position
       \/ committed # NoOffset /\ o <= committed
    => o \in handed

\* The committed offset is never given up, nor moved back.
NeverRewinds ==
  [][committed # NoOffset =>
       committed' # NoOffset /\ committed' >= committed]_vars
=============================================================================
