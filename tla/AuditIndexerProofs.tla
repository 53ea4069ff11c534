------------------------- MODULE AuditIndexerProofs -------------------------
(***************************************************************************)
(* Proofs about AuditIndexer, for every batch size and interval, any       *)
(* number of attempts, events and setbacks: its types, what a failure may  *)
(* cost, how often an event may be indexed, that the buffer is the tail of *)
(* what was handed over, how long an event waits in it, and that it reads  *)
(* the topic as ConsumerGroup describes it.                                *)
(***************************************************************************)
EXTENDS AuditIndexer, FiniteSetTheorems, TLAPS

\* Offsets are in order.
OffsetsOrdered ==
  /\ base <= end
  /\ position # NoOffset => base <= position /\ position <= end
  /\ committed # NoOffset => base <= committed /\ committed <= end
  /\ position # NoOffset /\ committed # NoOffset => committed <= position

\* Only a task in its loop has a buffer or a position, and it waits for an
\* event only while there is room for it.
RoomToGet ==
  /\ pc \notin Running => buffer = <<>> /\ position = NoOffset
  /\ pc = "closing" => buffer = <<>>
  /\ pc = "get" => Len(buffer) < BatchSize

\* How often event o may be indexed when the group has got to h after s
\* setbacks.
Budget(o, h, s) == IF o <= h THEN Attempts * (s + 1) ELSE Attempts * s

\* What was stored of an event and what its places in the buffer may still
\* add stay within the budget.
IndexedSoOften ==
  \A o \in Events :
    indexed[o] + Attempts * Occurrences(buffer, o)
      <= Budget(o, Handed, setbacks)

\* What is missing was dropped, a batch at most at a time.
LossKnown ==
  /\ Missing \subseteq lost
  /\ Cardinality(lost) <= BatchSize * failures

\* Without a setback a buffer was filled from a position that is still known.
TailKnown ==
  setbacks = 0 /\ buffer # <<>> => position # NoOffset \/ committed # NoOffset

\* While the task waits for an event, each one in the buffer was waited for
\* no longer than an interval.
AgeByLength ==
  /\ buffer = <<>> => age = 0
  /\ pc = "get" /\ buffer # <<>> =>
       age + Interval <= Len(buffer) * Interval + idle

\* The inductive invariant.
IInv ==
  /\ TypeOK /\ OffsetsOrdered /\ RoomToGet /\ IndexedSoOften /\ LossKnown
  /\ TailKnown /\ AgeByLength /\ BufferIsTail /\ WaitBounded
-----------------------------------------------------------------------------
\* The parameters are numbers, and no offset is NoOffset.
LEMMA BoundTypes ==
  /\ BatchSize \in Nat \ {0} /\ Interval \in Nat \ {0}
  /\ Attempts \in Nat \ {0}
  /\ MaxEvents \in Nat /\ MaxSetbacks \in Nat
  /\ NoOffset \in Nat /\ MaxEvents < NoOffset
  /\ AgeCap \in Nat
<1>1. BatchSize \in Nat \ {0} /\ Interval \in Nat \ {0}
  BY IndexerAssumption
<1>2. QED
  BY <1>1, IndexerAssumption DEF NoOffset, AgeCap

\* Multiples of a number grow with their factor.
LEMMA Multiples ==
  ASSUME NEW k \in Nat, NEW m \in Nat, NEW n \in Nat
  PROVE  /\ m * k \in Nat /\ k * m = m * k
         /\ (m + 1) * k = m * k + k
         /\ m <= n => m * k <= n * k
<1>1. m * k \in Nat /\ (m + 1) * k = m * k + k /\ k * m = m * k
  OBVIOUS
<1>2. ASSUME m <= n PROVE m * k <= n * k
  <2>1. n - m \in Nat /\ n = m + (n - m)
    BY <1>2
  <2>2. \A d \in Nat : (m + d) * k = m * k + d * k
    OBVIOUS
  <2>3. (n - m) * k \in Nat
    BY <2>1
  <2>4. QED
    BY <1>1, <2>1, <2>2, <2>3
<1>3. QED
  BY <1>1, <1>2

\* So many intervals are longer the more they are.
LEMMA Intervals ==
  ASSUME NEW m \in Nat, NEW n \in Nat
  PROVE  /\ m * Interval \in Nat
         /\ (m + 1) * Interval = m * Interval + Interval
         /\ m <= n => m * Interval <= n * Interval
  BY BoundTypes, Multiples

\* A budget is a number.
LEMMA BudgetType ==
  ASSUME NEW o, NEW h, NEW s \in Nat PROVE Budget(o, h, s) \in Nat
  BY BoundTypes, Multiples DEF Budget

\* A budget grows as the group gets on, and with every setback.
LEMMA BudgetGrows ==
  ASSUME NEW o \in Nat, NEW h \in Nat, NEW g \in Nat, NEW s \in Nat,
         NEW t \in Nat, (h <= g /\ s = t) \/ t = s + 1
  PROVE  /\ Budget(o, h, s) \in Nat /\ Budget(o, g, t) \in Nat
         /\ Budget(o, h, s) <= Budget(o, g, t)
<1>1. Attempts \in Nat
  BY BoundTypes
<1>2. /\ Attempts * s \in Nat /\ Attempts * (s + 1) \in Nat
      /\ Attempts * (s + 1) = Attempts * s + Attempts
  BY <1>1, Multiples
<1>3. /\ Attempts * t \in Nat /\ Attempts * (t + 1) \in Nat
      /\ Attempts * (t + 1) = Attempts * t + Attempts
  BY <1>1, Multiples
<1>4. CASE h <= g /\ s = t
  BY <1>1, <1>2, <1>3, <1>4 DEF Budget
<1>5. CASE t = s + 1
  <2>1. Attempts * t = Attempts * (s + 1)
    BY <1>5
  <2>2. QED
    BY <1>1, <1>2, <1>3, <2>1 DEF Budget
<1>6. QED
  BY <1>4, <1>5

\* Nothing occurs in an empty buffer; an event that joins a buffer occurs
\* once more, the others as often as before.
LEMMA OccurrencesChange ==
  /\ \A o : Occurrences(<<>>, o) = 0
  /\ \A s \in Seq(Events), e \in Events, o \in Events :
       /\ Occurrences(s, o) \in Nat
       /\ Occurrences(Append(s, e), o) =
            IF o = e THEN Occurrences(s, o) + 1 ELSE Occurrences(s, o)
<1>1. ASSUME NEW o PROVE Occurrences(<<>>, o) = 0
  <2>1. {i \in 1 .. Len(<<>>) : <<>>[i] = o} = {}
    OBVIOUS
  <2>2. QED
    BY <2>1, FS_EmptySet DEF Occurrences
<1>2. ASSUME NEW s \in Seq(Events), NEW e \in Events, NEW o \in Events
      PROVE  /\ Occurrences(s, o) \in Nat
             /\ Occurrences(Append(s, e), o) =
                  IF o = e THEN Occurrences(s, o) + 1 ELSE Occurrences(s, o)
  <2> DEFINE n == Len(s)
             t == Append(s, e)
             P == {i \in 1 .. n : s[i] = o}
             Q == {i \in 1 .. Len(t) : t[i] = o}
  <2>1. n \in Nat
    OBVIOUS
  <2>2. Len(t) = n + 1 /\ t[n + 1] = e /\ \A i \in 1 .. n : t[i] = s[i]
    OBVIOUS
  <2>3. IsFiniteSet(P) /\ n + 1 \notin P
    <3>1. IsFiniteSet(1 .. n) /\ P \in SUBSET (1 .. n)
      BY <2>1, FS_Interval
    <3>2. QED
      BY <2>1, <3>1, FS_Subset
  <2>4. Cardinality(P) \in Nat
    BY <2>3, FS_CardinalityType
  <2>5. Q = IF o = e THEN P \cup {n + 1} ELSE P
    <3>1. 1 .. Len(t) = (1 .. n) \cup {n + 1}
      BY <2>1, <2>2
    <3>2. QED
      BY <2>1, <2>2, <3>1
  <2>6. Cardinality(P \cup {n + 1}) = Cardinality(P) + 1
    BY <2>3, FS_AddElement
  <2>7. Cardinality(Q) = IF o = e THEN Cardinality(P) + 1 ELSE Cardinality(P)
    BY <2>5, <2>6
  <2>8. /\ Occurrences(s, o) = Cardinality(P)
        /\ Occurrences(t, o) = Cardinality(Q)
    BY DEF Occurrences
  <2>9. QED
    BY <2>4, <2>7, <2>8
<1>3. QED
  BY <1>1, <1>2

\* How far the group has got is an offset.
LEMMA HandedType ==
  ASSUME TypeOK, OffsetsOrdered PROVE Handed \in 0 .. end /\ base <= Handed
  BY BoundTypes DEF TypeOK, OffsetsOrdered, Handed

\* The buffer holds events, a batch at most.
LEMMA BufferedType ==
  ASSUME TypeOK
  PROVE  /\ Buffered \subseteq Events /\ IsFiniteSet(Buffered)
         /\ Cardinality(Buffered) <= BatchSize
<1>1. buffer \in Seq(Events) /\ Len(buffer) \in Nat /\ Len(buffer) <= BatchSize
  BY DEF TypeOK
<1>2. Buffered \subseteq Events
  BY <1>1 DEF Buffered
<1> DEFINE f == [i \in 1 .. Len(buffer) |-> buffer[i]]
<1>3. f \in Surjection(1 .. Len(buffer), Buffered)
  BY DEF Surjection, Buffered
<1>4. /\ IsFiniteSet(1 .. Len(buffer))
      /\ Cardinality(1 .. Len(buffer)) = Len(buffer)
  BY <1>1, FS_Interval
<1>5. /\ IsFiniteSet(Buffered)
      /\ Cardinality(Buffered) <= Cardinality(1 .. Len(buffer))
  BY <1>3, <1>4, FS_Surjection
<1>6. Cardinality(Buffered) \in Nat /\ BatchSize \in Nat
  BY <1>5, FS_CardinalityType, BoundTypes
<1>7. QED
  BY <1>1, <1>2, <1>4, <1>5, <1>6

\* Events that were dropped are finitely many.
LEMMA LostType ==
  ASSUME TypeOK PROVE IsFiniteSet(lost) /\ Cardinality(lost) \in Nat
<1>1. IsFiniteSet(Events)
  BY BoundTypes, FS_Interval DEF Events
<1>2. IsFiniteSet(lost)
  BY <1>1, FS_Subset DEF TypeOK
<1>3. QED
  BY <1>2, FS_CardinalityType

\* What a bulk call does to the events in the buffer: each of them is indexed
\* or lost now, none more often than its budget allows, and a failure drops a
\* batch at most.
LEMMA Ships ==
  ASSUME IInv, NEW copies \in BulkResults, Shipped(copies)
  PROVE  /\ indexed' \in [Events -> Nat] /\ lost' \subseteq Events
         /\ failures' \in Nat
         /\ buffer' = <<>> /\ age' = 0 /\ Buffered' = {}
         /\ \A o \in Events :
              /\ indexed[o] > 0 \/ o \in Buffered \/ o \in lost =>
                   indexed'[o] > 0 \/ o \in lost'
              /\ indexed'[o] <= Budget(o, Handed, setbacks)
         /\ Cardinality(lost') <= BatchSize * failures'
<1> USE BoundTypes DEF IInv
<1> DEFINE dropped == {o \in Buffered : copies[o] = 0}
<1>1. /\ copies \in [Buffered -> 0 .. Attempts * Len(buffer)]
      /\ \A o \in Buffered : copies[o] <= Attempts * Occurrences(buffer, o)
      /\ Len(buffer) \in Nat
  BY DEF BulkResults, TypeOK
<1>2. \A o \in Buffered : copies[o] \in Nat
  <2>1. Attempts * Len(buffer) \in Nat
    BY <1>1, Multiples
  <2>2. QED
    BY <1>1, <2>1
<1>3. /\ Buffered \subseteq Events /\ indexed \in [Events -> Nat]
      /\ lost \subseteq Events /\ failures \in Nat /\ setbacks \in Nat
      /\ buffer \in Seq(Events)
  BY BufferedType DEF TypeOK
<1>4. /\ indexed' = [o \in Events |-> IF o \in Buffered
                                      THEN indexed[o] + copies[o]
                                      ELSE indexed[o]]
      /\ lost' = lost \cup dropped
      /\ failures' = IF dropped = {} THEN failures ELSE failures + 1
      /\ buffer' = <<>> /\ age' = 0
  BY DEF Shipped
<1>5. Buffered' = {}
  BY <1>4 DEF Buffered
<1>6. ASSUME NEW o \in Events
      PROVE  /\ indexed'[o] \in Nat
             /\ indexed[o] > 0 \/ o \in Buffered \/ o \in lost =>
                  indexed'[o] > 0 \/ o \in lost'
             /\ indexed'[o] <= Budget(o, Handed, setbacks)
  <2>1. indexed[o] \in Nat
    BY <1>3
  <2>2. Occurrences(buffer, o) \in Nat
    BY <1>3, OccurrencesChange
  <2>3. Attempts * Occurrences(buffer, o) \in Nat
    BY <2>2, Multiples
  <2>4. Budget(o, Handed, setbacks) \in Nat
    BY <1>3, BudgetType
  <2>5. indexed[o] + Attempts * Occurrences(buffer, o)
          <= Budget(o, Handed, setbacks)
    BY DEF IndexedSoOften
  <2>6. CASE o \in Buffered
    <3>1. indexed'[o] = indexed[o] + copies[o] /\ copies[o] \in Nat
          /\ copies[o] <= Attempts * Occurrences(buffer, o)
      BY <1>1, <1>2, <1>4, <2>6
    <3>2. copies[o] = 0 => o \in lost'
      BY <1>4, <2>6
    <3>3. QED
      BY <2>1, <2>3, <2>4, <2>5, <3>1, <3>2
  <2>7. CASE o \notin Buffered
    <3>1. indexed'[o] = indexed[o] /\ (o \in lost => o \in lost')
      BY <1>4, <2>7
    <3>2. QED
      BY <2>1, <2>3, <2>4, <2>5, <2>7, <3>1
  <2>8. QED
    BY <2>6, <2>7
<1>7. indexed' \in [Events -> Nat]
  BY <1>4, <1>6
<1>8. Cardinality(lost') <= BatchSize * failures'
  <2>1. /\ IsFiniteSet(dropped) /\ Cardinality(dropped) \in Nat
        /\ Cardinality(dropped) <= BatchSize
    <3>1. /\ IsFiniteSet(Buffered) /\ Cardinality(Buffered) <= BatchSize
          /\ dropped \in SUBSET Buffered
      BY BufferedType
    <3>2. /\ IsFiniteSet(dropped)
          /\ Cardinality(dropped) <= Cardinality(Buffered)
      BY <3>1, FS_Subset
    <3>3. Cardinality(dropped) \in Nat /\ Cardinality(Buffered) \in Nat
      BY <3>1, <3>2, FS_CardinalityType
    <3>4. QED
      BY <3>1, <3>2, <3>3
  <2>2. /\ IsFiniteSet(lost) /\ Cardinality(lost) \in Nat
        /\ Cardinality(lost) <= BatchSize * failures
    BY LostType DEF LossKnown
  <2>3. CASE dropped = {}
    <3>1. lost' = lost /\ failures' = failures
      BY <1>4, <2>3
    <3>2. QED
      BY <2>2, <3>1
  <2>4. CASE dropped # {}
    <3>1. lost' = lost \cup dropped /\ failures' = failures + 1
      BY <1>4, <2>4
    <3>2. Cardinality(lost \cup dropped)
            = Cardinality(lost) + Cardinality(dropped)
                - Cardinality(lost \cap dropped)
      BY <2>1, <2>2, FS_Union
    <3>3. Cardinality(lost \cap dropped) \in Nat
      BY <2>2, FS_Intersection, FS_CardinalityType
    <3>4. BatchSize * (failures + 1) = BatchSize * failures + BatchSize
          /\ BatchSize * failures \in Nat
      BY <1>3, Multiples
    <3>5. Cardinality(lost \cup dropped) <= BatchSize * (failures + 1)
      <4> HIDE DEF dropped
      <4>1. QED
        BY <2>1, <2>2, <3>2, <3>3, <3>4
    <3>6. QED
      BY <3>1, <3>5
  <2>5. QED
    BY <2>3, <2>4
<1>9. lost' \subseteq Events /\ failures' \in Nat
  BY <1>3, <1>4
<1>10. QED
  BY <1>4, <1>5, <1>6, <1>7, <1>8, <1>9

\* A step that leaves buffer and index alone keeps what is known of them if
\* the group is where it was, or was set back.
LEMMA StorageKept ==
  ASSUME IInv, UNCHANGED <<buffer, storage, base>>,
         Handed' \in Nat, setbacks' \in Nat,
         \/ Handed' = Handed /\ setbacks' = setbacks
         \/ Handed' <= Handed /\ setbacks' = setbacks + 1
  PROVE  IndexedSoOften' /\ LossKnown' /\ BufferIsTail'
<1> USE BoundTypes DEF IInv, storage
<1>1. Handed \in Nat /\ setbacks \in Nat /\ Buffered' = Buffered
  BY HandedType DEF TypeOK, Buffered
<1>2. IndexedSoOften'
  <2>1. ASSUME NEW o \in Events
        PROVE  indexed[o] + Attempts * Occurrences(buffer, o)
                 <= Budget(o, Handed', setbacks')
    <3>1. /\ indexed[o] + Attempts * Occurrences(buffer, o)
               <= Budget(o, Handed, setbacks)
          /\ o \in Nat /\ indexed[o] \in Nat
      BY DEF IndexedSoOften, TypeOK, Events
    <3>2. Occurrences(buffer, o) \in Nat
      BY OccurrencesChange DEF TypeOK
    <3>3. Attempts * Occurrences(buffer, o) \in Nat
      BY <3>2, Multiples
    <3>4. /\ Budget(o, Handed, setbacks) \in Nat
          /\ Budget(o, Handed', setbacks') \in Nat
          /\ Budget(o, Handed, setbacks) <= Budget(o, Handed', setbacks')
      BY <1>1, <3>1, BudgetGrows
    <3>5. QED
      BY <3>1, <3>3, <3>4
  <2>2. QED
    BY <2>1 DEF IndexedSoOften
<1>3. LossKnown'
  <2>1. Missing' \subseteq Missing
    BY <1>1 DEF Missing, Events
  <2>2. QED
    BY <2>1 DEF LossKnown
<1>4. BufferIsTail'
  BY <1>1 DEF BufferIsTail
<1>5. QED
  BY <1>2, <1>3, <1>4

-----------------------------------------------------------------------------
\* An empty topic and no process satisfy the inductive invariant.
LEMMA InitInv == Init => IInv
<1> SUFFICES ASSUME Init PROVE IInv
  OBVIOUS
<1> USE BoundTypes DEF Init
<1>1. TypeOK
  <2>1. 0 \in 0 .. AgeCap
    OBVIOUS
  <2>2. QED
    BY <2>1 DEF TypeOK, Running, Events
<1>2. OffsetsOrdered /\ RoomToGet /\ TailKnown
  BY DEF OffsetsOrdered, RoomToGet, Running, TailKnown
<1>3. Handed = 0
  BY DEF Handed
<1>4. IndexedSoOften
  <2>1. ASSUME NEW o \in Events
        PROVE  0 + Attempts * 0 <= Budget(o, 0, 0)
    BY BudgetGrows DEF Events
  <2>2. \A o \in Events : indexed[o] = 0 /\ Occurrences(buffer, o) = 0
    BY OccurrencesChange
  <2>3. QED
    BY <1>3, <2>1, <2>2 DEF IndexedSoOften
<1>5. LossKnown
  <2>1. Missing = {}
    BY <1>3 DEF Missing, Events
  <2>2. Cardinality(lost) = 0 /\ BatchSize * failures = 0
    BY FS_EmptySet
  <2>3. QED
    BY <2>1, <2>2 DEF LossKnown
<1>6. AgeByLength /\ BufferIsTail
  BY DEF AgeByLength, BufferIsTail
<1>7. WaitBounded
  <2>1. BatchSize - 1 \in Nat
    OBVIOUS
  <2>2. QED
    BY <2>1, Intervals DEF WaitBounded
<1>8. QED
  BY <1>1, <1>2, <1>4, <1>5, <1>6, <1>7 DEF IInv

\* A new event lies beyond all that was handed over; a process that comes up
\* has handed over nothing, yet; the timer flushes what there is; a commit
\* tells the next member no more than this one knows.
LEMMA QuietInv ==
  ASSUME IInv, Publish \/ Launch \/ Start \/ Timeout \/ AutoCommit
  PROVE  IInv'
<1> USE BoundTypes DEF IInv
<1> USE DEF Publish, Launch, Start, Timeout, AutoCommit, kafka
<1>1. TypeOK'
  <2>1. CASE Publish
    BY <2>1 DEF TypeOK, storage
  <2>2. CASE Launch \/ Start
    <3>1. /\ UNCHANGED <<end, committed, position, base, setbacks>>
          /\ UNCHANGED <<buffer, age, indexed, lost, failures>>
      BY <2>2 DEF storage
    <3>2. pc' \in {"start", "get"} /\ idle' \in 0 .. Interval
      BY <2>2 DEF TypeOK
    <3>3. QED
      BY <3>1, <3>2 DEF TypeOK, Running
  <2>3. CASE Timeout
    BY <2>3 DEF TypeOK, Running, storage
  <2>4. CASE AutoCommit
    BY <2>4 DEF TypeOK, storage
  <2>5. QED
    BY <2>1, <2>2, <2>3, <2>4
<1>2. OffsetsOrdered' /\ RoomToGet' /\ TailKnown'
  BY DEF TypeOK, OffsetsOrdered, RoomToGet, Running, TailKnown
<1>3. Handed' = Handed /\ setbacks' = setbacks
      /\ UNCHANGED <<buffer, storage, base>>
  BY DEF Handed
<1>4. IndexedSoOften' /\ LossKnown' /\ BufferIsTail'
  <2>1. Handed' \in Nat /\ setbacks' \in Nat
    BY <1>3, HandedType DEF TypeOK
  <2>2. QED
    BY <1>3, <2>1, StorageKept
<1>5. AgeByLength' /\ WaitBounded'
  BY DEF AgeByLength, WaitBounded, RoomToGet, Running
<1>6. QED
  BY <1>1, <1>2, <1>4, <1>5

\* A group without an offset begins anew at the end of the topic.
LEMMA AssignInv ==
  ASSUME IInv, Assign PROVE IInv'
<1> USE BoundTypes DEF IInv, Assign
<1>1. TypeOK'
  BY DEF TypeOK, storage
<1>2. OffsetsOrdered' /\ RoomToGet' /\ TailKnown'
  BY DEF TypeOK, OffsetsOrdered, RoomToGet, TailKnown
<1>3. /\ Handed \in Nat /\ Handed' \in Nat /\ setbacks \in Nat
      /\ Handed' \in 0 .. end' /\ Handed <= Handed'
  BY <1>1, <1>2, HandedType DEF TypeOK, OffsetsOrdered, Handed
<1>4. CASE committed # NoOffset
  <2>1. Handed' = Handed /\ UNCHANGED <<buffer, storage, base, setbacks>>
    BY <1>4 DEF Handed
  <2>2. IndexedSoOften' /\ LossKnown' /\ BufferIsTail'
    BY <1>3, <2>1, StorageKept
  <2>3. AgeByLength' /\ WaitBounded'
    BY DEF AgeByLength, WaitBounded
  <2>4. QED
    BY <1>1, <1>2, <2>2, <2>3
<1>5. CASE committed = NoOffset
  <2>1. Handed' = end /\ base' = end
        /\ UNCHANGED <<end, buffer, setbacks, indexed, lost, failures>>
    BY <1>5 DEF Handed, TypeOK, storage
  <2>2. IndexedSoOften'
    <3>1. ASSUME NEW o \in Events
          PROVE  indexed[o] + Attempts * Occurrences(buffer, o)
                   <= Budget(o, Handed', setbacks)
      <4>1. /\ indexed[o] + Attempts * Occurrences(buffer, o)
                 <= Budget(o, Handed, setbacks)
            /\ o \in Nat /\ indexed[o] \in Nat
        BY DEF IndexedSoOften, TypeOK, Events
      <4>2. Occurrences(buffer, o) \in Nat
        BY OccurrencesChange DEF TypeOK
      <4>3. Attempts * Occurrences(buffer, o) \in Nat
        BY <4>2, Multiples
      <4>4. /\ Budget(o, Handed, setbacks) \in Nat
            /\ Budget(o, Handed', setbacks) \in Nat
            /\ Budget(o, Handed, setbacks) <= Budget(o, Handed', setbacks)
        BY <1>3, <4>1, BudgetGrows
      <4>5. QED
        BY <4>1, <4>3, <4>4
    <3>2. QED
      BY <2>1, <3>1 DEF IndexedSoOften
  <2>3. LossKnown'
    <3>1. Missing' = {}
      BY <2>1, <1>3 DEF Missing, Events
    <3>2. QED
      BY <2>1, <3>1 DEF LossKnown
  <2>4. BufferIsTail' /\ AgeByLength' /\ WaitBounded'
    BY <1>5, <2>1 DEF BufferIsTail, TailKnown, AgeByLength, WaitBounded
  <2>5. QED
    BY <1>1, <1>2, <2>2, <2>3, <2>4
<1>6. QED
  BY <1>4, <1>5

\* The position is given up: the next member goes on there, or further back
\* after a setback.
LEMMA GiveUpInv ==
  ASSUME IInv, GiveUpPosition, UNCHANGED <<end, buffer, idle, age, storage>>,
         \/ UNCHANGED pc
         \/ pc = "closing" /\ pc' = "down" /\ buffer = <<>>
  PROVE  IInv'
<1> USE BoundTypes DEF IInv
<1>1. /\ position' = NoOffset /\ base' = base
      /\ \/ /\ committed' = IF position = NoOffset THEN committed
                            ELSE position
            /\ setbacks' = setbacks
         \/ /\ position # NoOffset /\ setbacks' = setbacks + 1
            /\ setbacks < MaxSetbacks /\ committed' = committed
  BY DEF GiveUpPosition
<1>2. /\ Handed \in Nat /\ Handed' \in Nat
      /\ setbacks \in Nat /\ setbacks' \in 0 .. MaxSetbacks
      /\ \/ Handed' = Handed /\ setbacks' = setbacks
         \/ Handed' <= Handed /\ setbacks' = setbacks + 1
  BY <1>1, HandedType DEF TypeOK, OffsetsOrdered, Handed
<1>3. TypeOK'
  <2>1. committed' \in 0 .. NoOffset /\ position' \in 0 .. NoOffset
        /\ base' \in 0 .. MaxEvents
        /\ pc' \in {"down", "start"} \cup Running
    BY <1>1 DEF TypeOK
  <2>2. QED
    BY <1>2, <2>1 DEF TypeOK, storage
<1>4. OffsetsOrdered' /\ RoomToGet' /\ TailKnown'
  BY <1>1 DEF TypeOK, OffsetsOrdered, RoomToGet, TailKnown, Running
<1>5. IndexedSoOften' /\ LossKnown' /\ BufferIsTail'
  BY <1>1, <1>2, StorageKept
<1>6. AgeByLength' /\ WaitBounded'
  BY DEF AgeByLength, WaitBounded
<1>7. QED
  BY <1>3, <1>4, <1>5, <1>6

\* The next event joins the end of the buffer, for which there is room.
LEMMA GetOneInv ==
  ASSUME IInv, GetOne PROVE IInv'
<1> USE BoundTypes DEF IInv
<1>1. /\ position \in Nat /\ position + 1 \in Events
      /\ position # NoOffset /\ position' = position + 1
      /\ position' # NoOffset /\ position' <= end
  BY DEF GetOne, TypeOK, Events
<1>2. /\ Len(buffer) \in Nat /\ Len(buffer) + 1 <= BatchSize
      /\ Len(buffer') = Len(buffer) + 1 /\ buffer' # <<>>
      /\ buffer \in Seq(Events) /\ buffer' \in Seq(Events)
      /\ buffer' = Append(buffer, position + 1)
      /\ \A i \in 1 .. Len(buffer) : buffer'[i] = buffer[i]
      /\ buffer'[Len(buffer) + 1] = position + 1
  BY <1>1 DEF GetOne, TypeOK, RoomToGet
<1>3. Buffered' = Buffered \cup {position + 1}
  <2>1. 1 .. Len(buffer') = 1 .. Len(buffer) \cup {Len(buffer) + 1}
    BY <1>2
  <2>2. QED
    BY <1>2, <2>1 DEF Buffered
<1>4. pc' \in {"get", "flush"} /\ (pc' = "get" => Len(buffer') < BatchSize)
  BY <1>2 DEF GetOne, IsFull
<1>5. UNCHANGED <<end, committed, base, setbacks, age, indexed, lost,
                  failures>>
  BY DEF GetOne, storage
<1>6. TypeOK'
  <2>1. position' \in 0 .. NoOffset /\ idle' \in 0 .. Interval
    BY <1>1 DEF GetOne, TypeOK
  <2>2. QED
    BY <1>2, <1>4, <1>5, <2>1 DEF TypeOK, Running
<1>7. OffsetsOrdered' /\ RoomToGet' /\ TailKnown'
  BY <1>1, <1>2, <1>4
  DEF GetOne, OffsetsOrdered, RoomToGet, Running, TypeOK, TailKnown
<1>8. Handed = position /\ Handed' = position + 1
  BY <1>1 DEF Handed
<1>9. IndexedSoOften'
  <2>1. ASSUME NEW o \in Events
        PROVE  indexed[o] + Attempts * Occurrences(buffer', o)
                 <= Budget(o, position + 1, setbacks)
    <3>1. /\ o \in Nat /\ indexed[o] \in Nat /\ setbacks \in Nat
          /\ Attempts \in Nat
      BY DEF TypeOK, Events
    <3>2. /\ Occurrences(buffer, o) \in Nat
          /\ Occurrences(buffer', o) = IF o = position + 1
                                       THEN Occurrences(buffer, o) + 1
                                       ELSE Occurrences(buffer, o)
      BY <1>1, <1>2, OccurrencesChange
    <3>3. indexed[o] + Attempts * Occurrences(buffer, o)
            <= Budget(o, position, setbacks)
      BY <1>8 DEF IndexedSoOften
    <3>4. /\ Attempts * Occurrences(buffer, o) \in Nat
          /\ Attempts * (Occurrences(buffer, o) + 1)
               = Attempts * Occurrences(buffer, o) + Attempts
          /\ Attempts * setbacks \in Nat
          /\ Attempts * (setbacks + 1) = Attempts * setbacks + Attempts
      BY <3>1, <3>2, Multiples
    <3>5. CASE o = position + 1
      <4>1. /\ Budget(o, position, setbacks) = Attempts * setbacks
            /\ Budget(o, position + 1, setbacks) = Attempts * (setbacks + 1)
        BY <1>1, <3>1, <3>5 DEF Budget
      <4>2. Occurrences(buffer', o) = Occurrences(buffer, o) + 1
        BY <3>2, <3>5
      <4>3. QED
        BY <3>1, <3>3, <3>4, <4>1, <4>2
    <3>6. CASE o # position + 1
      <4>1. Budget(o, position, setbacks) = Budget(o, position + 1, setbacks)
        BY <1>1, <3>1, <3>6 DEF Budget
      <4>2. QED
        BY <3>2, <3>3, <3>6, <4>1
    <3>7. QED
      BY <3>5, <3>6
  <2>2. QED
    BY <1>5, <1>8, <2>1 DEF IndexedSoOften
<1>10. LossKnown'
  <2>1. Missing' \subseteq Missing
    <3>1. ASSUME NEW o \in Missing' PROVE o \in Missing
      BY <1>1, <1>3, <1>5, <1>8 DEF Missing, Events
    <3>2. QED
      BY <3>1
  <2>2. QED
    BY <1>5, <2>1 DEF LossKnown
<1>11. BufferIsTail'
  <2>1. ASSUME NEW i \in 1 .. Len(buffer'), setbacks = 0
        PROVE  buffer'[i] + Len(buffer') = position + 1 + i
    <3>1. CASE i \in 1 .. Len(buffer)
      <4>1. buffer # <<>> /\ buffer[i] \in Nat
        BY <3>1 DEF TypeOK, Events
      <4>2. buffer[i] + Len(buffer) = position + i
        BY <1>8, <2>1, <3>1, <4>1 DEF BufferIsTail
      <4>3. buffer'[i] = buffer[i]
        BY <1>2, <3>1
      <4>4. Len(buffer') = Len(buffer) + 1 /\ Len(buffer) \in Nat /\ i \in Nat
        BY <1>2, <3>1
      <4>5. QED
        BY <1>1, <4>1, <4>2, <4>3, <4>4
    <3>2. CASE i = Len(buffer) + 1
      BY <1>1, <1>2, <3>2
    <3>3. QED
      BY <1>2, <3>1, <3>2
  <2>2. QED
    BY <1>5, <1>8, <2>1 DEF BufferIsTail
<1>12. AgeByLength'
  <2>1. /\ age \in Nat /\ idle \in 0 .. Interval
        /\ age' = age /\ idle' = 0 /\ pc = "get"
    BY DEF GetOne, TypeOK, AgeCap
  <2>2. /\ Len(buffer) * Interval \in Nat
        /\ (Len(buffer) + 1) * Interval = Len(buffer) * Interval + Interval
    BY <1>2, Intervals
  <2>3. age <= Len(buffer) * Interval
    BY <2>1, <2>2 DEF AgeByLength
  <2>4. age' + Interval <= Len(buffer') * Interval + idle'
    BY <1>2, <2>1, <2>2, <2>3
  <2>5. QED
    BY <1>2, <2>4 DEF AgeByLength
<1>13. WaitBounded'
  BY DEF GetOne, WaitBounded
<1>14. QED
  BY <1>6, <1>7, <1>9, <1>10, <1>11, <1>12, <1>13

\* Once a bulk call has ended, been cancelled or been cut off by a kill, the
\* buffer is empty; the group is where it was, or was set back.
LEMMA ShippedInv ==
  ASSUME IInv, NEW copies \in BulkResults, Shipped(copies),
         UNCHANGED <<end, committed, base>>, idle' \in {0, idle},
         \/ /\ pc \in Running /\ pc' \in Running /\ UNCHANGED position
            /\ setbacks' = setbacks
         \/ /\ pc' = "down" /\ position' = NoOffset
            /\ setbacks' = setbacks + 1 /\ setbacks < MaxSetbacks
  PROVE  IInv'
<1> USE BoundTypes DEF IInv
<1>1. /\ indexed' \in [Events -> Nat] /\ lost' \subseteq Events
      /\ failures' \in Nat
      /\ buffer' = <<>> /\ age' = 0 /\ Buffered' = {}
      /\ \A o \in Events :
           /\ indexed[o] > 0 \/ o \in Buffered \/ o \in lost =>
                indexed'[o] > 0 \/ o \in lost'
           /\ indexed'[o] <= Budget(o, Handed, setbacks)
      /\ Cardinality(lost') <= BatchSize * failures'
  BY Ships
<1>2. TypeOK'
  <2>1. buffer' \in Seq(Events) /\ Len(buffer') <= BatchSize
    BY <1>1
  <2>2. age' \in 0 .. AgeCap /\ idle' \in 0 .. Interval
    BY <1>1 DEF TypeOK
  <2>3. setbacks' \in 0 .. MaxSetbacks
    BY DEF TypeOK
  <2>4. /\ position' \in 0 .. NoOffset
        /\ pc' \in {"down", "start"} \cup Running
    BY DEF TypeOK
  <2>5. /\ end' \in 0 .. MaxEvents /\ committed' \in 0 .. NoOffset
        /\ base' \in 0 .. MaxEvents
    BY DEF TypeOK
  <2>6. QED
    BY <1>1, <2>1, <2>2, <2>3, <2>4, <2>5 DEF TypeOK
<1>3. OffsetsOrdered' /\ RoomToGet' /\ TailKnown'
  BY <1>1 DEF OffsetsOrdered, RoomToGet, Running, TailKnown
<1>4. /\ Handed \in Nat /\ Handed' \in Nat /\ setbacks \in Nat
      /\ setbacks' \in Nat /\ Handed' <= Handed
      /\ (Handed' = Handed /\ setbacks' = setbacks)
         \/ setbacks' = setbacks + 1
  BY HandedType DEF TypeOK, OffsetsOrdered, Handed
<1>5. IndexedSoOften'
  <2>1. ASSUME NEW o \in Events
        PROVE  indexed'[o] + Attempts * Occurrences(buffer', o)
                 <= Budget(o, Handed', setbacks')
    <3>1. /\ Budget(o, Handed, setbacks) \in Nat
          /\ Budget(o, Handed', setbacks') \in Nat
          /\ Budget(o, Handed, setbacks) <= Budget(o, Handed', setbacks')
      <4>1. o \in Nat
        BY DEF Events
      <4>2. QED
        BY <1>4, <4>1, BudgetGrows
    <3>2. Occurrences(buffer', o) = 0
      BY <1>1, OccurrencesChange
    <3>3. indexed'[o] \in Nat /\ indexed'[o] <= Budget(o, Handed, setbacks)
      BY <1>1
    <3>4. Attempts * Occurrences(buffer', o) = 0
      BY <3>2
    <3>5. QED
      BY <3>1, <3>3, <3>4
  <2>2. QED
    BY <2>1 DEF IndexedSoOften
<1>6. LossKnown'
  <2>1. ASSUME NEW o \in Missing' PROVE o \in lost'
    <3>1. /\ o \in Events /\ base < o /\ o <= Handed' /\ indexed'[o] = 0
      BY DEF Missing
    <3>2. o <= Handed
      BY <1>4, <3>1 DEF Events
    <3>3. indexed[o] > 0 \/ o \in Buffered \/ o \in lost
      <4>1. indexed[o] \in Nat
        BY <3>1 DEF TypeOK
      <4>2. QED
        BY <3>1, <3>2, <4>1 DEF LossKnown, Missing
    <3>4. QED
      BY <1>1, <3>1, <3>3
  <2>2. QED
    BY <1>1, <2>1 DEF LossKnown
<1>7. AgeByLength' /\ BufferIsTail' /\ WaitBounded'
  <2>1. BatchSize - 1 \in Nat
    OBVIOUS
  <2>2. WaitBounded'
    BY <1>1, <2>1, Intervals DEF WaitBounded
  <2>3. QED
    BY <1>1, <2>2 DEF AgeByLength, BufferIsTail
<1>8. QED
  BY <1>2, <1>3, <1>5, <1>6, <1>7

\* Bulk calls in the loop and on the way out, and a kill.
LEMMA BulkInv ==
  ASSUME IInv, Flush \/ LastFlush \/ Crash PROVE IInv'
<1>1. CASE Flush
  BY <1>1, ShippedInv DEF Flush, kafka, Running
<1>2. CASE LastFlush
  BY <1>2, ShippedInv DEF LastFlush, kafka, Running
<1>3. CASE Crash
  BY <1>3, ShippedInv DEF Crash
<1>4. QED
  BY <1>1, <1>2, <1>3

\* Leaving the loop between two events keeps the buffer for the last flush.
LEMMA LeaveInv ==
  ASSUME IInv, Leave PROVE IInv'
<1> USE DEF IInv, Leave, kafka
<1>1. CASE pc = "flush"
  BY <1>1, ShippedInv DEF Running
<1>2. CASE pc = "get"
  <2>1. /\ UNCHANGED <<end, committed, position, base, setbacks, idle>>
        /\ UNCHANGED <<buffer, age, indexed, lost, failures>>
        /\ pc' = "lastFlush"
    BY <1>2 DEF storage
  <2>2. TypeOK'
    BY <2>1 DEF TypeOK, Running
  <2>3. OffsetsOrdered' /\ RoomToGet' /\ TailKnown'
    BY <2>1 DEF OffsetsOrdered, RoomToGet, Running, TailKnown
  <2>4. IndexedSoOften' /\ LossKnown' /\ BufferIsTail'
    <3>1. Handed' = Handed /\ Handed' \in Nat /\ setbacks' \in Nat
      BY <2>1, HandedType DEF Handed, TypeOK
    <3>2. QED
      BY <2>1, <3>1, StorageKept DEF storage
  <2>5. AgeByLength' /\ WaitBounded'
    BY <2>1 DEF AgeByLength, WaitBounded
  <2>6. QED
    BY <2>2, <2>3, <2>4, <2>5
<1>3. QED
  BY <1>1, <1>2

\* The timer goes off before the oldest event is older than one interval for
\* each event in the buffer, which is not full.
LEMMA TickInv ==
  ASSUME IInv, Tick PROVE IInv'
<1> USE BoundTypes DEF IInv, Tick, kafka
<1>0. IndexedSoOften' /\ LossKnown' /\ BufferIsTail'
  <2>1. /\ Handed' = Handed /\ Handed' \in Nat /\ setbacks' \in Nat
        /\ setbacks' = setbacks
    BY HandedType DEF Handed, TypeOK
  <2>2. QED
    BY <2>1, StorageKept
<1>1. /\ Len(buffer) \in Nat /\ Len(buffer) < BatchSize
      /\ age \in Nat /\ idle \in Nat /\ idle + 1 <= Interval
      /\ idle' = idle + 1
  BY DEF TypeOK, RoomToGet, AgeCap
<1>2. CASE buffer = <<>>
  <2>1. /\ age' = 0
        /\ UNCHANGED <<end, committed, position, base, setbacks, pc>>
        /\ UNCHANGED <<buffer, indexed, lost, failures>>
    BY <1>2 DEF storage
  <2>2. TypeOK'
    BY <1>1, <2>1 DEF TypeOK
  <2>3. BatchSize - 1 \in Nat
    OBVIOUS
  <2>4. AgeByLength' /\ WaitBounded'
    BY <1>2, <2>1, <2>3, Intervals DEF AgeByLength, WaitBounded
  <2>5. OffsetsOrdered' /\ RoomToGet' /\ TailKnown'
    BY <2>1 DEF OffsetsOrdered, RoomToGet, TailKnown
  <2>6. QED
    BY <1>0, <2>2, <2>4, <2>5
<1>3. CASE buffer # <<>>
  <2>1. /\ Len(buffer) * Interval \in Nat
        /\ (BatchSize - 1) * Interval \in Nat
        /\ Len(buffer) * Interval <= (BatchSize - 1) * Interval
        /\ BatchSize * Interval = (BatchSize - 1) * Interval + Interval
    <3>1. BatchSize - 1 \in Nat /\ Len(buffer) <= BatchSize - 1
          /\ (BatchSize - 1) + 1 = BatchSize
      BY <1>1
    <3>2. QED
      BY <1>1, <3>1, Intervals
  <2>2. age + Interval <= Len(buffer) * Interval + idle
    BY <1>3 DEF AgeByLength
  <2>3. age' \in {age, age + 1} /\ age' \in Nat
    BY <1>1, <1>3
  <2>4. age' <= AgeCap /\ age' <= (BatchSize - 1) * Interval
    BY <1>1, <2>1, <2>2, <2>3 DEF AgeCap
  <2>5. age' + Interval <= Len(buffer) * Interval + idle'
    BY <1>1, <2>1, <2>2, <2>3
  <2>6. TypeOK'
    BY <1>1, <2>3, <2>4 DEF TypeOK, storage
  <2>7. AgeByLength' /\ WaitBounded'
    BY <1>3, <2>4, <2>5 DEF AgeByLength, WaitBounded
  <2>8. OffsetsOrdered' /\ RoomToGet' /\ TailKnown'
    BY DEF OffsetsOrdered, RoomToGet, TailKnown
  <2>9. QED
    BY <1>0, <2>6, <2>7, <2>8
<1>4. QED
  BY <1>2, <1>3

\* Every step keeps the inductive invariant.
LEMMA NextInv == IInv /\ [Next]_vars => IInv'
<1> SUFFICES ASSUME IInv, [Next]_vars PROVE IInv'
  OBVIOUS
<1>1. CASE UNCHANGED vars
  BY <1>1 DEF IInv, TypeOK, OffsetsOrdered, RoomToGet, IndexedSoOften,
              LossKnown, TailKnown, AgeByLength, BufferIsTail, WaitBounded,
              Missing, Handed, Buffered, vars, kafka, storage
<1>2. CASE Rebalance
  BY <1>2, GiveUpInv DEF Rebalance
<1>3. CASE Close
  <2>1. buffer = <<>>
    BY <1>3 DEF IInv, Close, RoomToGet
  <2>2. QED
    BY <1>3, <2>1, GiveUpInv DEF Close
<1>4. QED
  BY <1>1, <1>2, <1>3, QuietInv, AssignInv, GetOneInv, BulkInv, LeaveInv,
     TickInv
  DEF Next, Work

\* The inductive invariant holds throughout.
LEMMA Invariance == Spec => []IInv
  BY InitInv, NextInv, PTL DEF Spec
-----------------------------------------------------------------------------
\* Every variable keeps its type; the buffer never outgrows a batch.
THEOREM TypeCorrect == Spec => []TypeOK
  BY Invariance, PTL DEF IInv

\* Every failed bulk call and every kill costs a batch at most, nothing else
\* costs an event.
THEOREM LossBoundedHolds == Spec => []LossBounded
<1>1. IInv => LossBounded
  <2>1. ASSUME IInv PROVE Cardinality(Missing) <= BatchSize * failures
    <3>1. /\ Missing \in SUBSET lost /\ IsFiniteSet(lost)
          /\ Cardinality(lost) \in Nat
          /\ Cardinality(lost) <= BatchSize * failures
      BY <2>1, LostType DEF IInv, LossKnown
    <3>2. IsFiniteSet(Missing) /\ Cardinality(Missing) <= Cardinality(lost)
      BY <3>1, FS_Subset
    <3>3. Cardinality(Missing) \in Nat
      BY <3>2, FS_CardinalityType
    <3>4. BatchSize * failures \in Nat
      BY <2>1, BoundTypes, Multiples DEF IInv, TypeOK
    <3>5. QED
      BY <3>1, <3>2, <3>3, <3>4
  <2>2. QED
    BY <2>1 DEF LossBounded
<1>2. QED
  BY <1>1, Invariance, PTL

\* An event is stored by the attempts of one bulk call, and by as many more
\* at most for every setback.
THEOREM DuplicatesBoundedHolds == Spec => []DuplicatesBounded
<1>1. IInv => DuplicatesBounded
  <2>1. ASSUME IInv, NEW o \in Events
        PROVE  indexed[o] <= Attempts * (1 + setbacks)
    <3>1. /\ o \in Nat /\ indexed[o] \in Nat /\ setbacks \in Nat
          /\ Handed \in Nat
      BY <2>1, HandedType, BoundTypes DEF IInv, TypeOK, Events
    <3>2. Occurrences(buffer, o) \in Nat
      BY <2>1, OccurrencesChange DEF IInv, TypeOK
    <3>3. /\ Attempts * Occurrences(buffer, o) \in Nat
          /\ Attempts * setbacks \in Nat
          /\ Attempts * (setbacks + 1) = Attempts * setbacks + Attempts
          /\ Attempts \in Nat /\ 1 + setbacks = setbacks + 1
      BY <3>1, <3>2, BoundTypes, Multiples
    <3>4. indexed[o] + Attempts * Occurrences(buffer, o)
            <= Budget(o, Handed, setbacks)
      BY <2>1 DEF IInv, IndexedSoOften
    <3>5. Budget(o, Handed, setbacks)
            \in {Attempts * setbacks, Attempts * (setbacks + 1)}
      BY DEF Budget
    <3>6. QED
      BY <3>1, <3>3, <3>4, <3>5
  <2>2. QED
    BY <2>1 DEF DuplicatesBounded
<1>2. QED
  BY <1>1, Invariance, PTL

\* As long as there is no setback the buffer holds the last events handed
\* over, in their order.
THEOREM BufferIsTailHolds == Spec => []BufferIsTail
  BY Invariance, PTL DEF IInv

\* No event waits longer than an interval for each event but one of a batch.
THEOREM WaitBoundedHolds == Spec => []WaitBounded
  BY Invariance, PTL DEF IInv
-----------------------------------------------------------------------------
(***************************************************************************)
(* The indexer implements ConsumerGroup, and so keeps what it promises.    *)
(***************************************************************************)

\* What the group was handed, as the refinement mapping reads it off.
Kept == {o \in Events : indexed[o] > 0} \cup Buffered \cup lost

\* Shipping a batch, well or not, moves events about among those kept.
LEMMA ShippedKept ==
  ASSUME IInv, NEW copies \in BulkResults, Shipped(copies)
  PROVE  Kept' = Kept
<1>1. Buffered' = {} /\ Buffered \subseteq Events
  BY Ships, BufferedType DEF IInv
<1> DEFINE dropped == {o \in Buffered : copies[o] = 0}
<1>2. /\ \A o \in Events :
           indexed'[o] = IF o \in Buffered THEN indexed[o] + copies[o]
                         ELSE indexed[o]
      /\ lost' = lost \cup dropped
      /\ indexed \in [Events -> Nat]
  BY DEF Shipped, IInv, TypeOK
<1>3. \A o \in Buffered : copies[o] \in Nat
  <2>1. Attempts * Len(buffer) \in Nat
    BY BoundTypes, Multiples DEF IInv, TypeOK
  <2>2. QED
    BY <2>1 DEF BulkResults
<1>4. \A o \in Events :
        indexed'[o] > 0 <=> indexed[o] > 0 \/ o \in Buffered \ dropped
  BY <1>2, <1>3
<1>5. QED
  BY <1>1, <1>2, <1>4 DEF Kept

\* Every step of the indexer is a step of the group, or none.
LEMMA StepMaps == IInv /\ [Next]_vars => [G!Next]_G!vars
<1> SUFFICES ASSUME IInv, [Next]_vars PROVE [G!Next]_G!vars
  OBVIOUS
<1>1. ASSUME UNCHANGED <<end, committed, position, base>>, Kept' = Kept
      PROVE  UNCHANGED G!vars
  BY <1>1 DEF G!vars, Kept
<1>2. ASSUME UNCHANGED <<buffer, storage>> PROVE Kept' = Kept
  BY <1>2 DEF Kept, Buffered, storage
<1>3. CASE Publish
  <2>1. end' # NoOffset
    BY <1>3, BoundTypes DEF Publish, IInv, TypeOK
  <2>2. G!Append
    BY <1>2, <1>3, <2>1 DEF Publish, G!Append, Kept, kafka
  <2>3. QED
    BY <2>2 DEF G!Next
<1>4. CASE Launch \/ Start \/ Timeout \/ Tick
  BY <1>1, <1>2, <1>4 DEF Launch, Start, Timeout, Tick, kafka
<1>5. CASE Assign
  <2>1. G!Assign
    BY <1>2, <1>5 DEF Assign, G!Assign, Kept
  <2>2. QED
    BY <2>1 DEF G!Next
<1>6. CASE AutoCommit
  <2>1. G!Commit
    BY <1>2, <1>6 DEF AutoCommit, G!Commit, Kept
  <2>2. QED
    BY <2>1 DEF G!Next
<1>7. CASE GetOne
  <2>1. /\ position \in Nat /\ end \in Nat /\ position < end
        /\ position # NoOffset /\ position + 1 \in Events
    BY <1>7, BoundTypes DEF GetOne, IInv, TypeOK, Events
  <2>2. /\ buffer' = Append(buffer, position + 1)
        /\ buffer \in Seq(Events) /\ UNCHANGED <<indexed, lost>>
    BY <1>7 DEF GetOne, IInv, TypeOK, storage
  <2>3. /\ Len(buffer) \in Nat /\ Len(buffer') = Len(buffer) + 1
        /\ \A i \in 1 .. Len(buffer) : buffer'[i] = buffer[i]
        /\ buffer'[Len(buffer) + 1] = position + 1
    BY <2>1, <2>2
  <2>4. Buffered' = Buffered \cup {position + 1}
    BY <2>3 DEF Buffered
  <2>5. Kept' = Kept \cup {position + 1}
    BY <2>2, <2>4 DEF Kept
  <2>6. G!HandOver
    BY <1>7, <2>1, <2>5 DEF GetOne, G!HandOver, Kept
  <2>7. QED
    BY <2>6 DEF G!Next
<1>8. CASE Flush \/ LastFlush \/ Leave
  <2>1. UNCHANGED <<end, committed, position, base>>
    BY <1>8 DEF Flush, LastFlush, Leave, kafka
  <2>2. Kept' = Kept
    BY <1>2, <1>8, ShippedKept DEF Flush, LastFlush, Leave
  <2>3. QED
    BY <1>1, <2>1, <2>2
<1>9. CASE Rebalance \/ Close
  <2>1. Kept' = Kept
    BY <1>2, <1>9 DEF Rebalance, Close
  <2>2. GiveUpPosition /\ end' = end
    BY <1>9 DEF Rebalance, Close
  <2>3. G!Close \/ G!Vanish
    BY <2>1, <2>2 DEF GiveUpPosition, G!Close, G!Vanish, Kept
  <2>4. QED
    BY <2>3 DEF G!Next
<1>10. CASE Crash
  <2>1. Kept' = Kept
    BY <1>10, ShippedKept DEF Crash
  <2>2. G!Vanish
    BY <1>10, <2>1 DEF Crash, G!Vanish, Kept
  <2>3. QED
    BY <2>2 DEF G!Next
<1>11. CASE UNCHANGED vars
  BY <1>1, <1>2, <1>11 DEF vars, kafka
<1>12. QED
  BY <1>3, <1>4, <1>5, <1>6, <1>7, <1>8, <1>9, <1>10, <1>11 DEF Next, Work

\* However it is started, stopped and killed, the indexer reads the audit
\* topic as a consumer group does.
THEOREM IsConsumerGroupHolds == Spec => IsConsumerGroup
<1>1. Init => G!Init
  BY DEF Init, G!Init, Buffered
<1>2. QED
  BY <1>1, StepMaps, Invariance, PTL DEF Spec, IsConsumerGroup, G!Spec

\* What is proved of a group, under the refinement mapping.
GP == INSTANCE ConsumerGroupProofs WITH handed <- Kept

\* The indexer's NoOffset is such a number.
LEMMA GroupNoOffset == GP!NoOffsetAssumption
  BY BoundTypes DEF GP!NoOffsetAssumption, NoOffset

\* It speaks of the same specification.
LEMMA SameGroup == G!Spec <=> GP!Spec
<1>1. G!Init <=> GP!Init
  BY DEF G!Init, GP!Init, Kept
<1>2. [G!Next]_G!vars <=> [GP!Next]_GP!vars
  BY DEF G!Next, GP!Next, G!Append, GP!Append, G!Assign, GP!Assign,
         G!HandOver, GP!HandOver, G!Commit, GP!Commit, G!Close, GP!Close,
         G!Vanish, GP!Vanish, G!vars, GP!vars, Kept
<1>3. QED
  BY <1>1, <1>2, PTL DEF G!Spec, GP!Spec

\* The group's offset is never moved back, so a restart is handed again only
\* what was not committed.
THEOREM NeverRewindsHolds == Spec => G!NeverRewinds
<1>1. GP!NeverRewinds => G!NeverRewinds
  BY PTL DEF G!NeverRewinds, GP!NeverRewinds, G!vars, GP!vars, Kept
<1>2. QED
  BY <1>1, IsConsumerGroupHolds, SameGroup, GroupNoOffset,
     GP!NeverRewindsHolds, PTL DEF IsConsumerGroup
=============================================================================
