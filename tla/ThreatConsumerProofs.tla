------------------------ MODULE ThreatConsumerProofs ------------------------
(***************************************************************************)
(* Proofs about ThreatConsumer, for any number of records, setbacks and    *)
(* refused starts: its types, that an audited ban was written first, that  *)
(* the group's offset neither rewinds nor skips, that nothing but a        *)
(* setback hands a record over again, and that it reads the topic as       *)
(* ConsumerGroup describes it.                                             *)
(***************************************************************************)
EXTENDS ThreatConsumer, TLAPS

\* Offsets stay within the log.
OffsetsInLog ==
  /\ position # NoOffset => position <= Len(log)
  /\ committed # NoOffset => committed <= Len(log)
  /\ \A o \in Offsets : audited[o] > 0 => o <= Len(log)

\* What the loop knows of the record it is at.
CurrentKnown ==
  /\ pc \in {"setex", "send"} => current \in 1 .. Len(log)
  /\ pc = "setex" => Current.verdict = "BLOCK" /\ Current.client # Unknown
  /\ pc = "send" /\ Current.verdict = "BLOCK" /\ Current.client # Unknown =>
       current \in enforced

\* Everything between the group's beginning and the position was handled.
PositionWasHandled ==
  position # NoOffset =>
    /\ \A o \in Offsets : base < o /\ o <= position => handled[o] > 0
    /\ committed # NoOffset => committed <= position

\* The inductive invariant.
IInv ==
  /\ TypeOK /\ OffsetsInLog /\ CurrentKnown /\ PositionWasHandled
  /\ AuditedBlockWasEnforced /\ UnknownNeverBanned /\ CommittedWasHandled

\* Writing a ban and ageing keep the keyspace a keyspace, and ban nobody
\* but the client the ban is written for.
LEMMA BanType ==
  ASSUME NEW s \in [Clients -> Entry], NEW ip \in Clients
  PROVE  /\ SetEx(s, ip, BlocklistTtl) \in [Clients -> Entry]
         /\ Elapsed(s) \in [Clients -> Entry]
         /\ \A j \in Clients : HasKey(Elapsed(s), j) => HasKey(s, j)
         /\ \A j \in Clients : j # ip =>
              (HasKey(SetEx(s, ip, BlocklistTtl), j) => HasKey(s, j))
<1>1. \A e \in Entry : Passed(e) \in Entry /\ (Passed(e).val > 0 => e.val > 0)
  <2>1. ASSUME NEW e \in Entry
        PROVE  Passed(e) \in Entry /\ (Passed(e).val > 0 => e.val > 0)
    <3>1. CASE e.ttl = 0
      BY <3>1 DEF Passed, Entry
    <3>2. CASE e.ttl = 1
      BY <3>2, CapAssumption DEF Passed, Entry, Absent
    <3>3. CASE e.ttl > 1
      BY <3>3 DEF Passed, Entry
    <3>4. QED
      BY <3>1, <3>2, <3>3 DEF Entry
  <2>2. QED
    BY <2>1
<1>2. SetEx(s, ip, BlocklistTtl) \in [Clients -> Entry]
  BY CapAssumption, ConsumerAssumption DEF SetEx, Entry
<1>3. \A j \in Clients : j # ip => SetEx(s, ip, BlocklistTtl)[j] = s[j]
  BY DEF SetEx
<1>4. \A j \in Clients : Elapsed(s)[j] = Passed(s[j])
  BY DEF Elapsed
<1>5. Elapsed(s) \in [Clients -> Entry]
  BY <1>1 DEF Elapsed
<1>6. QED
  BY <1>1, <1>2, <1>3, <1>4, <1>5 DEF HasKey

\* The bounds are numbers, and no offset is NoOffset.
LEMMA BoundTypes ==
  /\ MaxRecords \in Nat /\ MaxSetbacks \in Nat /\ MaxRefusals \in Nat
  /\ NoOffset \in Nat /\ MaxRecords < NoOffset
  BY ConsumerAssumption DEF NoOffset

\* An empty topic and no process satisfy the inductive invariant.
LEMMA InitInv == Init => IInv
<1> SUFFICES ASSUME Init PROVE IInv
  OBVIOUS
<1>1. TypeOK
  BY CapAssumption, ConsumerAssumption, BoundTypes
  DEF Init, TypeOK, Entry, Absent, Starting, Looping, Offsets
<1>2. OffsetsInLog /\ PositionWasHandled /\ CommittedWasHandled /\ CurrentKnown
  BY DEF Init, OffsetsInLog, PositionWasHandled, CommittedWasHandled,
         CurrentKnown
<1>3. AuditedBlockWasEnforced /\ UnknownNeverBanned
  BY ConsumerAssumption
  DEF Init, AuditedBlockWasEnforced, UnknownNeverBanned, HasKey, Absent
<1>4. QED
  BY <1>1, <1>2, <1>3 DEF IInv

\* A new record lies beyond everything that was handled or audited.
LEMMA PublishInv ==
  ASSUME IInv, NEW rec \in Record, Publish(rec) PROVE IInv'
<1> USE BoundTypes DEF IInv, Offsets
<1>1. /\ Len(log') = Len(log) + 1 /\ log' \in Seq(Record)
      /\ Len(log) \in Nat /\ Len(log) + 1 <= MaxRecords
      /\ \A o \in 1 .. Len(log) : log'[o] = log[o]
  BY DEF Publish, TypeOK
<1>2. TypeOK'
  BY <1>1 DEF Publish, TypeOK, process, history
<1>3. OffsetsInLog'
  BY <1>1 DEF Publish, TypeOK, OffsetsInLog, process, history
<1>4. CurrentKnown'
  BY <1>1 DEF Publish, TypeOK, CurrentKnown, Current, process, history
<1>5. PositionWasHandled' /\ CommittedWasHandled' /\ UnknownNeverBanned'
  BY DEF Publish, PositionWasHandled, CommittedWasHandled, UnknownNeverBanned,
         process, history
<1>6. AuditedBlockWasEnforced'
  BY <1>1 DEF Publish, TypeOK, OffsetsInLog, AuditedBlockWasEnforced, process,
              history
<1>7. QED
  BY <1>2, <1>3, <1>4, <1>5, <1>6

\* Steps of starting: nothing is in flight after them.
LEMMA StartInv ==
  ASSUME IInv, Launch \/ StartConsumer \/ StartProducer \/ Retry
  PROVE  IInv'
<1>1. TypeOK'
  <2>1. TypeOK /\ MaxRefusals \in Nat
    BY BoundTypes DEF IInv
  <2>2. /\ UNCHANGED <<log, committed, blocklist, audited, handled, enforced,
                       base, setbacks>>
        /\ pc' \in Starting \cup {"poll"}
        /\ consumer' \in {consumer, "started", "fresh"}
        /\ position' = position /\ current' = current
        /\ \/ refusals' = refusals
           \/ refusals < MaxRefusals /\ refusals' = refusals + 1
    <3>1. CASE Launch
      BY <3>1 DEF Launch, Starting, history
    <3>2. CASE StartConsumer
      BY <3>2 DEF StartConsumer, Starting, history
    <3>3. CASE StartProducer
      BY <3>3 DEF StartProducer, Starting, history
    <3>4. CASE Retry
      BY <3>4 DEF Retry, Starting, history
    <3>5. QED
      BY <3>1, <3>2, <3>3, <3>4
  <2>3. refusals' \in 0 .. MaxRefusals
    BY <2>1, <2>2 DEF TypeOK
  <2>4. pc' \in {"down"} \cup Starting \cup Looping
    BY <2>2 DEF Looping
  <2>5. consumer' \in {"fresh", "started"}
    BY <2>1, <2>2 DEF TypeOK
  <2>6. QED
    BY <2>1, <2>2, <2>3, <2>4, <2>5 DEF TypeOK
<1> USE BoundTypes DEF IInv, Offsets
<1> USE DEF history, Looping, Starting
<1> USE DEF Launch, StartConsumer, StartProducer, Retry
<1>2. OffsetsInLog'
  BY DEF OffsetsInLog, TypeOK
<1>3. CurrentKnown'
  BY DEF CurrentKnown
<1>4. PositionWasHandled' /\ CommittedWasHandled'
  BY DEF PositionWasHandled, CommittedWasHandled, TypeOK
<1>5. AuditedBlockWasEnforced' /\ UnknownNeverBanned'
  BY DEF AuditedBlockWasEnforced, UnknownNeverBanned
<1>6. QED
  BY <1>1, <1>2, <1>3, <1>4, <1>5

\* What becomes of the offsets when the position is given up, the process
\* ends or both: the position is gone and was committed, or it was not.
LEMMA PositionGone ==
  ASSUME IInv, Stop \/ Crash \/ Rebalance
  PROVE  /\ position' = NoOffset
         /\ setbacks' \in 0 .. MaxSetbacks
         /\ \/ committed' = committed
            \/ position # NoOffset /\ committed' = position
  BY BoundTypes
  DEF Stop, Crash, Rebalance, GiveUpPosition, IInv, TypeOK

\* Steps that end the process or take its position away.
LEMMA LeaveInv ==
  ASSUME IInv, Stop \/ Crash \/ Rebalance PROVE IInv'
<1>1. /\ UNCHANGED <<log, blocklist, audited, handled, enforced, base,
                     refusals>>
      /\ \/ pc' = "down" /\ consumer' = "fresh" /\ current' = 0
         \/ UNCHANGED <<pc, consumer, current>>
  BY DEF Stop, Crash, Rebalance, Gone, history
<1>2. /\ TypeOK
      /\ MaxRecords \in Nat /\ NoOffset \in Nat
  BY BoundTypes DEF IInv
<1>3. TypeOK'
  <2>1. position' \in 0 .. NoOffset /\ setbacks' \in 0 .. MaxSetbacks
    BY <1>2, PositionGone
  <2>2. committed' \in 0 .. NoOffset
    BY <1>2, PositionGone DEF TypeOK
  <2>3. current' \in 0 .. MaxRecords
    BY <1>1, <1>2 DEF TypeOK
  <2>4. /\ pc' \in {"down"} \cup Starting \cup Looping
        /\ consumer' \in {"fresh", "started"}
    BY <1>1, <1>2 DEF TypeOK
  <2>5. QED
    BY <1>1, <1>2, <2>1, <2>2, <2>3, <2>4 DEF TypeOK
<1> USE BoundTypes DEF IInv, Offsets
<1>4. OffsetsInLog'
  BY <1>1, PositionGone DEF OffsetsInLog
<1>5. CurrentKnown'
  BY <1>1 DEF CurrentKnown, Current
<1>6. PositionWasHandled' /\ CommittedWasHandled'
  BY <1>1, PositionGone DEF PositionWasHandled, CommittedWasHandled
<1>7. AuditedBlockWasEnforced' /\ UnknownNeverBanned'
  BY <1>1 DEF AuditedBlockWasEnforced, UnknownNeverBanned, HasKey
<1>8. QED
  BY <1>3, <1>4, <1>5, <1>6, <1>7

\* Both move an offset only to where everything was handled, or start anew.
LEMMA OffsetInv ==
  ASSUME IInv, Assign \/ AutoCommit PROVE IInv'
<1> USE BoundTypes DEF IInv, Offsets
<1> USE DEF Assign, AutoCommit, ResetTo, history, process
<1>1. Len(log) \in Nat /\ Len(log) <= MaxRecords
  BY DEF TypeOK
<1>2. TypeOK'
  <2>1. CASE Assign
    BY <1>1, <2>1 DEF TypeOK
  <2>2. CASE AutoCommit
    BY <2>2 DEF TypeOK
  <2>3. QED
    BY <2>1, <2>2
<1>3. OffsetsInLog'
  BY <1>1 DEF OffsetsInLog, TypeOK
<1>4. CurrentKnown'
  BY <1>1 DEF CurrentKnown, Current, TypeOK
<1>5. PositionWasHandled' /\ CommittedWasHandled'
  <2>1. CASE Assign
    BY <1>1, <2>1
    DEF PositionWasHandled, CommittedWasHandled, OffsetsInLog, TypeOK
  <2>2. CASE AutoCommit
    BY <2>2 DEF PositionWasHandled, CommittedWasHandled, TypeOK
  <2>3. QED
    BY <2>1, <2>2
<1>6. AuditedBlockWasEnforced' /\ UnknownNeverBanned'
  BY DEF AuditedBlockWasEnforced, UnknownNeverBanned
<1>7. QED
  BY <1>2, <1>3, <1>4, <1>5, <1>6

\* The record handed over is the next one, and AfterScoring says what is
\* known of it.
LEMMA PollInv ==
  ASSUME IInv, Poll PROVE IInv'
<1>1. /\ Len(log) \in Nat /\ Len(log) <= MaxRecords
      /\ position \in Nat /\ position' = position + 1
      /\ position' \in 1 .. Len(log) /\ position' \in Offsets
      /\ position # NoOffset /\ position' # NoOffset
      /\ log' = log /\ current' = position'
  BY BoundTypes DEF Poll, IInv, TypeOK, Offsets
<1>2. /\ handled' \in [Offsets -> Nat]
      /\ \A o \in Offsets : handled'[o] >= handled[o]
      /\ handled'[position + 1] > 0
  <2>1. handled \in [Offsets -> Nat] /\ position + 1 \in Offsets
    BY <1>1 DEF IInv, TypeOK
  <2>2. handled' = [handled EXCEPT ![position + 1] = handled[position + 1] + 1]
    BY DEF Poll
  <2>3. QED
    BY <2>1, <2>2
<1>3. pc' \in {"poll", "setex", "send"}
  BY DEF Poll, AfterScoring
<1>4. TypeOK'
  <2>1. UNCHANGED <<log, committed, consumer, blocklist, audited, enforced,
                    base, setbacks, refusals>>
    BY DEF Poll
  <2>2. position' \in 0 .. NoOffset
    BY <1>1, BoundTypes
  <2>3. current' \in 0 .. MaxRecords
    BY <1>1, BoundTypes
  <2>4. pc' \in Looping
    BY <1>3 DEF Looping
  <2>5. QED
    BY <1>2, <2>1, <2>2, <2>3, <2>4 DEF IInv, TypeOK
<1> USE BoundTypes DEF IInv, Offsets
<1>5. OffsetsInLog'
  BY <1>1 DEF Poll, OffsetsInLog
<1>6. CurrentKnown'
  BY <1>1 DEF Poll, AfterScoring, CurrentKnown, Current
<1>7. PositionWasHandled' /\ CommittedWasHandled'
  BY <1>1, <1>2 DEF Poll, PositionWasHandled, CommittedWasHandled, TypeOK
<1>8. AuditedBlockWasEnforced' /\ UnknownNeverBanned'
  BY DEF Poll, AuditedBlockWasEnforced, UnknownNeverBanned
<1>9. QED
  BY <1>4, <1>5, <1>6, <1>7, <1>8

\* The ban is the current record's client's, who is known.
LEMMA WriteBanInv ==
  ASSUME IInv, WriteBan PROVE IInv'
<1> USE BoundTypes DEF IInv, Offsets
<1>1. /\ current \in 1 .. Len(log) /\ current \in Offsets
      /\ Current.client \in Clients /\ Current.client # Unknown
  <2>1. current \in 1 .. Len(log) /\ Current.client # Unknown
    BY DEF WriteBan, CurrentKnown
  <2>2. log \in Seq(Record) /\ Len(log) <= MaxRecords
    BY DEF TypeOK
  <2>3. log[current] \in Record /\ current \in 1 .. MaxRecords
    BY <2>1, <2>2
  <2>4. QED
    BY <2>1, <2>3 DEF Current, Record
<1>2. TypeOK'
  BY <1>1, BanType DEF WriteBan, TypeOK, Looping
<1>3. CurrentKnown'
  BY <1>1 DEF WriteBan, CurrentKnown, Current
<1>4. OffsetsInLog' /\ PositionWasHandled' /\ CommittedWasHandled'
  BY DEF WriteBan, OffsetsInLog, PositionWasHandled, CommittedWasHandled
<1>5. AuditedBlockWasEnforced'
  BY DEF WriteBan, AuditedBlockWasEnforced
<1>6. UnknownNeverBanned'
  BY <1>1, BanType, ConsumerAssumption DEF WriteBan, UnknownNeverBanned, TypeOK
<1>7. QED
  BY <1>2, <1>3, <1>4, <1>5, <1>6

\* The event of a blocked record is sent after its ban.
LEMMA SendAuditInv ==
  ASSUME IInv, SendAudit \/ Skip PROVE IInv'
<1> USE BoundTypes DEF IInv, Offsets
<1>1. current \in 1 .. Len(log) /\ current \in Offsets
  BY DEF SendAudit, Skip, CurrentKnown, TypeOK
<1>2. CASE Skip
  BY <1>2 DEF Skip, TypeOK, Looping, history, CurrentKnown, OffsetsInLog,
              PositionWasHandled, CommittedWasHandled,
              AuditedBlockWasEnforced, UnknownNeverBanned
<1>3. CASE SendAudit
  <2>1. /\ audited' \in [Offsets -> Nat]
        /\ \A o \in Offsets : o # current => audited'[o] = audited[o]
    BY <1>1, <1>3 DEF SendAudit, TypeOK
  <2>2. TypeOK'
    BY <1>3, <2>1 DEF SendAudit, TypeOK, Looping, history
  <2>3. OffsetsInLog'
    BY <1>1, <1>3, <2>1 DEF SendAudit, OffsetsInLog
  <2>4. CurrentKnown' /\ PositionWasHandled' /\ CommittedWasHandled'
    BY <1>3 DEF SendAudit, CurrentKnown, PositionWasHandled,
                CommittedWasHandled, history
  <2>5. AuditedBlockWasEnforced'
    <3>1. ASSUME NEW o \in 1 .. Len(log), audited'[o] > 0,
                 log[o].verdict = "BLOCK", log[o].client # Unknown
          PROVE  o \in enforced
      <4>1. CASE o = current
        BY <1>3, <3>1, <4>1 DEF SendAudit, CurrentKnown, Current
      <4>2. CASE o # current
        <5>1. o \in Offsets
          BY <3>1 DEF TypeOK
        <5>2. QED
          BY <3>1, <4>2, <2>1, <5>1 DEF AuditedBlockWasEnforced
      <4>3. QED
        BY <4>1, <4>2
    <3>2. QED
      BY <1>3, <3>1 DEF SendAudit, AuditedBlockWasEnforced, history
  <2>6. UnknownNeverBanned'
    BY <1>3 DEF SendAudit, UnknownNeverBanned
  <2>7. QED
    BY <2>2, <2>3, <2>4, <2>5, <2>6
<1>4. QED
  BY <1>2, <1>3

\* Time bans nobody.
LEMMA ElapseInv ==
  ASSUME IInv, Elapse PROVE IInv'
<1> USE DEF IInv
<1>1. TypeOK' /\ UnknownNeverBanned'
  BY BanType, ConsumerAssumption
  DEF Elapse, TypeOK, UnknownNeverBanned, process, history
<1>2. QED
  BY <1>1 DEF Elapse, OffsetsInLog, CurrentKnown, Current, PositionWasHandled,
              CommittedWasHandled, AuditedBlockWasEnforced, process, history

\* Every step keeps the inductive invariant.
LEMMA NextInv == IInv /\ [Next]_vars => IInv'
<1> SUFFICES ASSUME IInv, [Next]_vars PROVE IInv'
  OBVIOUS
<1>1. CASE UNCHANGED vars
  BY <1>1 DEF IInv, TypeOK, OffsetsInLog, CurrentKnown, Current,
              PositionWasHandled, CommittedWasHandled,
              AuditedBlockWasEnforced, UnknownNeverBanned, HasKey, vars,
              process, history
<1>2. QED
  BY <1>1, PublishInv, StartInv, LeaveInv, OffsetInv, PollInv, WriteBanInv,
     SendAuditInv, ElapseInv
  DEF Next, Startup, Loop

\* The inductive invariant holds throughout.
LEMMA Invariance == Spec => []IInv
  BY InitInv, NextInv, PTL DEF Spec

\* Every variable keeps its type.
THEOREM TypeCorrect == Spec => []TypeOK
  BY Invariance, PTL DEF IInv

\* The trail never reports a ban of a known client that was not written.
THEOREM AuditedBlockWasEnforcedHolds == Spec => []AuditedBlockWasEnforced
  BY Invariance, PTL DEF IInv

\* No ban is ever written for the client IP "unknown".
THEOREM UnknownNeverBannedHolds == Spec => []UnknownNeverBanned
  BY Invariance, PTL DEF IInv

\* Whatever the group committed since it began, it was handed.
THEOREM CommittedWasHandledHolds == Spec => []CommittedWasHandled
  BY Invariance, PTL DEF IInv

\* No step, restart or kill moves the group's offset back.
THEOREM CommitNeverRewindsHolds == Spec => CommitNeverRewinds
<1>1. ASSUME IInv, [Next]_vars, committed # NoOffset
      PROVE  committed' # NoOffset /\ committed' >= committed
  <2>1. committed \in Nat /\ position \in Nat /\ NoOffset \in Nat
    BY <1>1, BoundTypes DEF IInv, TypeOK
  <2>2. position # NoOffset => position >= committed
    BY <1>1, <2>1 DEF IInv, PositionWasHandled
  <2>3. committed' \in {committed, position}
        /\ (committed' # committed => position # NoOffset)
    <3>1. CASE Stop \/ Crash \/ Rebalance
      BY <1>1, <3>1, PositionGone
    <3>2. CASE ~(Stop \/ Crash \/ Rebalance)
      BY <1>1, <3>2
      DEF Next, Publish, Startup, Launch, StartConsumer, StartProducer,
          Retry, Assign, Loop, Poll, WriteBan, SendAudit, Skip,
          AutoCommit, Elapse, vars
    <3>3. QED
      BY <3>1, <3>2
  <2>4. QED
    BY <1>1, <2>1, <2>2, <2>3
<1>2. IInv /\ [Next]_vars =>
        [committed # NoOffset =>
           committed' # NoOffset /\ committed' >= committed]_vars
  BY <1>1
<1>3. QED
  BY <1>2, Invariance, PTL DEF Spec, CommitNeverRewinds
-----------------------------------------------------------------------------
(***************************************************************************)
(* How often a record is handed over.  On top of IInv this takes what the  *)
(* group may forget when a position is given up: nothing but in a setback. *)
(***************************************************************************)

\* Where the next member of the group will go on, as far as is known.
Resume == IF committed # NoOffset THEN committed ELSE base

\* How far the group has got.
Reached == IF position # NoOffset THEN position ELSE Resume

\* The group began within the log and is never before its beginning.
BaseInOrder ==
  /\ base <= Len(log)
  /\ position # NoOffset => base <= position
  /\ committed # NoOffset => base <= committed

\* Before its loop the task has moved on from nowhere, and when it is down it
\* has no position: leaving it there forgets nothing.
NothingToForget ==
  /\ pc \notin Looping => position \in {NoOffset, Resume}
  /\ pc = "down" => position = NoOffset

\* A record was handed over once for every setback, but for one more time if
\* the group has got so far.
HandledSoOften ==
  \A o \in Offsets :
    /\ o > Reached => handled[o] <= setbacks
    /\ o <= Reached => handled[o] <= 1 + setbacks

\* The inductive invariant, relative to IInv.
HInv == BaseInOrder /\ NothingToForget /\ HandledSoOften

\* How far the group has got is an offset, and no less than it will know.
LEMMA ReachedType ==
  ASSUME IInv, HInv
  PROVE  /\ Reached \in Nat /\ Resume \in Nat /\ Resume <= Reached
         /\ base \in Nat /\ Len(log) \in Nat /\ base <= Len(log)
         /\ setbacks \in Nat /\ \A o \in Offsets : handled[o] \in Nat
  BY BoundTypes
  DEF IInv, TypeOK, HInv, BaseInOrder, PositionWasHandled, Reached, Resume

\* A step that hands nothing over keeps the count if it takes the group no
\* further back, or if it is a setback.
LEMMA NoneHandled ==
  ASSUME IInv, HInv, UNCHANGED handled, Reached' \in Nat,
         \/ Reached' >= Reached /\ setbacks' = setbacks
         \/ setbacks' = setbacks + 1
  PROVE  HandledSoOften'
<1>1. ASSUME NEW o \in Offsets
      PROVE  /\ o > Reached' => handled[o] <= setbacks'
             /\ o <= Reached' => handled[o] <= 1 + setbacks'
  <2>1. /\ o \in Nat /\ Reached \in Nat /\ setbacks \in Nat
        /\ handled[o] \in Nat
    BY ReachedType DEF Offsets
  <2>2. /\ o > Reached => handled[o] <= setbacks
        /\ o <= Reached => handled[o] <= 1 + setbacks
    BY DEF HInv, HandledSoOften
  <2>3. QED
    BY <2>1, <2>2
<1>2. QED
  BY <1>1 DEF HandledSoOften

\* Polling hands over the one record after the position.
LEMMA PollHInv ==
  ASSUME IInv, HInv, Poll PROVE HInv'
<1> USE BoundTypes
<1>1. /\ position \in Nat /\ position + 1 \in Offsets
      /\ position # NoOffset /\ position' = position + 1
      /\ position' # NoOffset
      /\ UNCHANGED <<log, base, committed, setbacks>>
      /\ pc' \in {"poll", "setex", "send"}
  BY DEF Poll, AfterScoring, IInv, TypeOK, Offsets
<1>2. handled' = [handled EXCEPT ![position + 1] = @ + 1]
      /\ handled \in [Offsets -> Nat]
  BY DEF Poll, IInv, TypeOK
<1>3. Reached = position /\ Reached' = position + 1
  BY <1>1 DEF Reached
<1>4. HandledSoOften'
  <2>1. ASSUME NEW o \in Offsets
        PROVE  /\ o > position + 1 => handled'[o] <= setbacks
               /\ o <= position + 1 => handled'[o] <= 1 + setbacks
    <3>1. o \in Nat /\ handled[o] \in Nat /\ setbacks \in Nat
      BY ReachedType DEF Offsets
    <3>2. /\ o > position => handled[o] <= setbacks
          /\ o <= position => handled[o] <= 1 + setbacks
      BY <1>3 DEF HInv, HandledSoOften
    <3>3. handled'[o] = IF o = position + 1 THEN handled[o] + 1 ELSE handled[o]
      BY <1>1, <1>2
    <3>4. QED
      BY <1>1, <3>1, <3>2, <3>3
  <2>2. QED
    BY <1>1, <1>3, <2>1 DEF HandledSoOften
<1>5. BaseInOrder'
  BY <1>1, ReachedType DEF HInv, BaseInOrder
<1>6. NothingToForget'
  BY <1>1 DEF NothingToForget, Looping
<1>7. QED
  BY <1>4, <1>5, <1>6 DEF HInv

\* The position is given up: a setback may take the group back, anything
\* else leaves it where it has got.
LEMMA LeaveHInv ==
  ASSUME IInv, HInv, Stop \/ Crash \/ Rebalance PROVE HInv'
<1>1. /\ UNCHANGED <<log, handled, base>>
      /\ (Rebalance /\ pc' = pc) \/ pc' = "down"
  BY DEF Stop, Crash, Rebalance, Gone, history
<1>2. position' = NoOffset /\ Reached' = Resume'
  BY PositionGone DEF Reached
<1>3. BaseInOrder' /\ NothingToForget'
  <2>1. BaseInOrder'
    BY <1>1, <1>2, PositionGone DEF HInv, BaseInOrder
  <2>2. NothingToForget'
    BY <1>2 DEF NothingToForget
  <2>3. QED
    BY <2>1, <2>2
<1>4. CASE committed' = committed /\ setbacks' = setbacks + 1
  <2>1. Reached' = Resume
    BY <1>1, <1>2, <1>4 DEF Resume
  <2>2. QED
    BY <1>1, <1>3, <1>4, <2>1, ReachedType, NoneHandled DEF HInv
<1>5. CASE setbacks' = setbacks /\ Reached' = Reached
  BY <1>1, <1>3, <1>5, ReachedType, NoneHandled DEF HInv
<1>6. \/ committed' = committed /\ setbacks' = setbacks + 1
      \/ setbacks' = setbacks /\ Reached' = Reached
  <2>1. CASE Crash
    BY <2>1 DEF Crash
  <2>2. ASSUME GiveUpPosition
        PROVE  \/ committed' = committed /\ setbacks' = setbacks + 1
               \/ setbacks' = setbacks /\ Reached' = Reached
    <3>1. CASE setbacks' = setbacks + 1 /\ committed' = committed
      BY <3>1
    <3>2. CASE /\ committed' = IF position = NoOffset THEN committed
                               ELSE position
               /\ setbacks' = setbacks
      BY <1>1, <1>2, <3>2 DEF Reached, Resume
    <3>3. QED
      BY <2>2, <3>1, <3>2 DEF GiveUpPosition
  <2>3. CASE Stop /\ pc \notin Looping
    BY <1>1, <1>2, <2>3 DEF Stop, Reached, Resume, HInv, NothingToForget
  <2>4. QED
    BY <2>1, <2>2, <2>3 DEF Stop, Rebalance
<1>7. QED
  BY <1>4, <1>5, <1>6

\* A member of the group goes on where the last one was known to be, or the
\* group begins anew at the end of the log.
LEMMA AssignHInv ==
  ASSUME IInv, HInv, Assign PROVE HInv'
<1> USE BoundTypes
<1>1. /\ position = NoOffset /\ pc # "down"
      /\ UNCHANGED <<log, committed, pc, handled, setbacks>>
      /\ committed # NoOffset => position' = committed /\ base' = base
      /\ committed = NoOffset => position' = Len(log) /\ base' = Len(log)
  BY DEF Assign, ResetTo
<1>2. Len(log) \in Nat /\ Len(log) # NoOffset /\ base \in Nat
  BY DEF IInv, TypeOK
<1>3. Reached' = position' /\ position' = Resume'
  BY <1>1, <1>2 DEF Reached, Resume
<1>4. Reached = Resume /\ Resume \in Nat /\ base <= Len(log)
  BY <1>1, ReachedType DEF Reached
<1>5. Reached' \in Nat /\ Reached' >= Reached
  BY <1>1, <1>2, <1>3, <1>4 DEF Resume
<1>6. HandledSoOften'
  BY <1>1, <1>5, NoneHandled
<1>7. BaseInOrder'
  BY <1>1, <1>2 DEF HInv, BaseInOrder
<1>8. NothingToForget'
  BY <1>1, <1>3 DEF HInv, NothingToForget
<1>9. QED
  BY <1>6, <1>7, <1>8 DEF HInv

\* Committing the position makes it known.
LEMMA AutoCommitHInv ==
  ASSUME IInv, HInv, AutoCommit PROVE HInv'
<1>1. /\ position # NoOffset /\ committed' = position /\ pc # "down"
      /\ UNCHANGED <<log, pc, position, handled, base, setbacks>>
  BY DEF AutoCommit, process, history
<1>2. Reached' = Reached /\ Resume' = position
  BY <1>1 DEF Reached, Resume
<1>3. HandledSoOften'
  BY <1>1, <1>2, ReachedType, NoneHandled
<1>4. BaseInOrder' /\ NothingToForget'
  BY <1>1, <1>2 DEF HInv, BaseInOrder, NothingToForget
<1>5. QED
  BY <1>3, <1>4 DEF HInv

\* Everything else leaves the offsets alone, and a loop once entered is left
\* only at the end.
LEMMA OtherHInv ==
  ASSUME IInv, HInv,
         UNCHANGED <<committed, position, handled, base, setbacks>>,
         Len(log') \in Nat, Len(log') >= Len(log),
         pc \in Looping => pc' \in Looping,
         pc' = "down" => pc = "down"
  PROVE  HInv'
<1>1. Reached' = Reached /\ Resume' = Resume
  BY DEF Reached, Resume
<1>2. HandledSoOften'
  BY <1>1, ReachedType, NoneHandled
<1>3. BaseInOrder'
  BY ReachedType DEF HInv, BaseInOrder
<1>4. NothingToForget'
  BY <1>1 DEF HInv, NothingToForget
<1>5. QED
  BY <1>2, <1>3, <1>4 DEF HInv

\* Every step keeps it.
LEMMA NextHInv == IInv /\ HInv /\ [Next]_vars => HInv'
<1> SUFFICES ASSUME IInv, HInv, [Next]_vars PROVE HInv'
  OBVIOUS
<1>1. Len(log) \in Nat
  BY ReachedType
<1>2. ASSUME NEW rec \in Record, Publish(rec) PROVE HInv'
  <2>1. Len(log') = Len(log) + 1
    BY <1>2 DEF Publish, IInv, TypeOK
  <2>2. QED
    BY <1>1, <1>2, <2>1, OtherHInv DEF Publish, process, history
<1>3. CASE Launch \/ StartConsumer \/ StartProducer \/ Retry
  BY <1>1, <1>3, OtherHInv
  DEF Launch, StartConsumer, StartProducer, Retry, Looping, history
<1>4. CASE WriteBan \/ SendAudit \/ Skip
  BY <1>1, <1>4, OtherHInv DEF WriteBan, SendAudit, Skip, Looping, history
<1>5. CASE Elapse \/ UNCHANGED vars
  BY <1>1, <1>5, OtherHInv DEF Elapse, vars, process, history
<1>6. QED
  BY <1>2, <1>3, <1>4, <1>5, PollHInv, LeaveHInv, AssignHInv,
     AutoCommitHInv
  DEF Next, Startup, Loop

\* Nothing was handed over in the beginning.
LEMMA InitHInv == Init => HInv
<1> SUFFICES ASSUME Init PROVE HInv
  OBVIOUS
<1>1. Reached = 0 /\ Resume = 0
  BY DEF Init, Reached, Resume
<1>2. QED
  BY <1>1
  DEF Init, HInv, BaseInOrder, NothingToForget, HandledSoOften, Offsets

\* A record is handed over once, and once more at most for every setback.
THEOREM RedeliveredOnlyBySetbackHolds == Spec => []RedeliveredOnlyBySetback
<1>1. IInv /\ HInv => RedeliveredOnlyBySetback
  <2>1. ASSUME IInv, HInv, NEW o \in Offsets PROVE handled[o] <= 1 + setbacks
    <3>1. /\ o \in Nat /\ handled[o] \in Nat /\ setbacks \in Nat
          /\ Reached \in Nat
      BY <2>1, ReachedType DEF Offsets
    <3>2. QED
      BY <2>1, <3>1 DEF HInv, HandledSoOften
  <2>2. QED
    BY <2>1 DEF RedeliveredOnlyBySetback
<1>2. Spec => []HInv
  BY InitHInv, NextHInv, Invariance, PTL DEF Spec
<1>3. QED
  BY <1>1, <1>2, Invariance, PTL
-----------------------------------------------------------------------------
(***************************************************************************)
(* The consumer implements ConsumerGroup.                                  *)
(***************************************************************************)

\* What the group was handed, as the refinement mapping reads it off.
HandledSet == {o \in Offsets : handled[o] > 0}

\* Every step of the consumer is a step of the group, or none.
LEMMA StepMaps == IInv /\ [Next]_vars => [G!Next]_G!vars
<1> SUFFICES ASSUME IInv, [Next]_vars PROVE [G!Next]_G!vars
  OBVIOUS
<1> USE DEF HandledSet
<1>1. ASSUME UNCHANGED <<log, committed, position, base, handled>>
      PROVE  UNCHANGED G!vars
  BY <1>1 DEF G!vars
<1>2. ASSUME NEW rec \in Record, Publish(rec) PROVE G!Append
  <2>1. UNCHANGED <<committed, position, base, handled>>
    BY <1>2 DEF Publish, process, history
  <2>2. Len(log') = Len(log) + 1 /\ Len(log') # NoOffset
    <3>1. Len(log) \in Nat /\ Len(log') = Len(log) + 1
      BY <1>2 DEF Publish, IInv, TypeOK
    <3>2. Len(log) < MaxRecords
      BY <1>2 DEF Publish
    <3>3. QED
      BY <3>1, <3>2, BoundTypes
  <2>3. QED
    BY <2>1, <2>2 DEF G!Append
<1>3. CASE Stop \/ Crash \/ Rebalance
  <2>1. UNCHANGED <<log, base, handled>>
    BY <1>3 DEF Stop, Crash, Rebalance, Gone, history
  <2>2. G!Close \/ G!Vanish
    BY <1>3, <2>1, PositionGone DEF G!Close, G!Vanish
  <2>3. QED
    BY <2>2 DEF G!Next
<1>4. CASE Assign
  <2>1. G!Assign
    BY <1>4 DEF Assign, ResetTo, G!Assign
  <2>2. QED
    BY <2>1 DEF G!Next
<1>5. CASE AutoCommit
  <2>1. G!Commit
    BY <1>5 DEF AutoCommit, G!Commit, process, history
  <2>2. QED
    BY <2>1 DEF G!Next
<1>6. CASE Poll
  <2>1. /\ position < Len(log) /\ position' = position + 1
        /\ handled' = [handled EXCEPT ![position + 1] = @ + 1]
        /\ UNCHANGED <<log, committed, base>>
    BY <1>6 DEF Poll
  <2>2. /\ position \in Nat /\ Len(log) \in Nat /\ Len(log) <= MaxRecords
        /\ handled \in [Offsets -> Nat]
    BY BoundTypes DEF IInv, TypeOK
  <2>3. position # NoOffset /\ position + 1 \in Offsets
    BY <2>1, <2>2, BoundTypes DEF Offsets
  <2>4. \A o \in Offsets :
          handled'[o] > 0 <=> handled[o] > 0 \/ o = position + 1
    BY <2>1, <2>2, <2>3
  <2>5. {o \in Offsets : handled'[o] > 0} = HandledSet \cup {position + 1}
    BY <2>3, <2>4
  <2>6. G!HandOver
    BY <2>1, <2>3, <2>5 DEF G!HandOver
  <2>7. QED
    BY <2>6 DEF G!Next
<1>7. CASE Launch \/ StartConsumer \/ StartProducer \/ Retry
  BY <1>1, <1>7 DEF Launch, StartConsumer, StartProducer, Retry, history
<1>8. CASE WriteBan \/ SendAudit \/ Skip \/ Elapse
  BY <1>1, <1>8 DEF WriteBan, SendAudit, Skip, Elapse, process, history
<1>9. CASE UNCHANGED vars
  BY <1>1, <1>9 DEF vars, process, history
<1>10. QED
  BY <1>2, <1>3, <1>4, <1>5, <1>6, <1>7, <1>8, <1>9
  DEF Next, Startup, Loop, G!Next

\* However it is started, stopped and killed, the consumer reads the raw
\* topic as a consumer group does.
THEOREM IsConsumerGroupHolds == Spec => IsConsumerGroup
<1>1. Init => G!Init
  BY DEF Init, G!Init
<1>2. QED
  BY <1>1, StepMaps, Invariance, PTL DEF Spec, IsConsumerGroup, G!Spec
=============================================================================
