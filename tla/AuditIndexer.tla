---------------------------- MODULE AuditIndexer ----------------------------
(***************************************************************************)
(* The audit indexer (indexer.py): it buffers events from api.audit.events *)
(* and ships them to Elasticsearch in bulk, when the buffer is full or     *)
(* when no event has come for a while.                                     *)
(*                                                                         *)
(* One partition; an event is its offset.  As in ThreatConsumer the client *)
(* library commits a position that counts what was handed over, so also    *)
(* what is still in the buffer, and a setback is a position that is lost   *)
(* before it was committed.  Documents get generated ids: an event that is *)
(* sent again is there twice, be it handed over again or be it that the    *)
(* Elasticsearch client retries a bulk call that was carried out.          *)
(***************************************************************************)
EXTENDS Naturals, Sequences, FiniteSets

CONSTANTS
  BatchSize,   \* FLUSH_BATCH_SIZE
  Interval,    \* FLUSH_INTERVAL_SECONDS, in units of time
  Attempts,    \* requests the client makes of a bulk call, retries included
  MaxEvents,   \* bound: events published
  MaxSetbacks  \* bound: times an uncommitted position is lost

ASSUME IndexerAssumption ==
  /\ {BatchSize, Interval, Attempts} \subseteq Nat \ {0}
  /\ {MaxEvents, MaxSetbacks} \subseteq Nat

VARIABLES
  end,         \* events on the topic
  committed,   \* the group's committed offset; NoOffset before the first
  pc,          \* what run() awaits
  position,    \* the consumer's position; NoOffset before it has one
  buffer,      \* events handed over and not yet shipped, oldest first
  idle,        \* how long wait_for has been waiting
  age,         \* how long the oldest event has waited in the buffer
  indexed,     \* documents in Elasticsearch, per event
  lost,        \* history: events dropped, by a failed bulk call or a kill
  failures,    \* history: how often that happened
  base,        \* history: the end of the topic when the group last began
  setbacks

kafka == <<committed, position, base, setbacks>>
storage == <<indexed, lost, failures>>
vars == <<end, kafka, pc, buffer, idle, age, storage>>
-----------------------------------------------------------------------------
Events == 1 .. MaxEvents
NoOffset == MaxEvents + 1

\* Bound: more than any event waits (WaitBounded); age stays there.
AgeCap == BatchSize * Interval

Buffered == {buffer[i] : i \in 1 .. Len(buffer)}

\* How often an event is in a buffer: again after a setback.
Occurrences(buf, o) == Cardinality({i \in 1 .. Len(buf) : buf[i] = o})

\* getone under wait_for; a flush inside the loop; the flush on the way out
\* and the consumer's stop() after it.
Running == {"get", "flush", "lastFlush", "closing"}

TypeOK ==
  /\ end \in 0 .. MaxEvents
  /\ committed \in 0 .. NoOffset /\ position \in 0 .. NoOffset
  /\ base \in 0 .. MaxEvents
  /\ pc \in {"down", "start"} \cup Running
  /\ buffer \in Seq(Events) /\ Len(buffer) <= BatchSize
  /\ idle \in 0 .. Interval /\ age \in 0 .. AgeCap
  /\ indexed \in [Events -> Nat]
  /\ lost \subseteq Events /\ failures \in Nat
  /\ setbacks \in 0 .. MaxSetbacks

Init ==
  /\ end = 0 /\ committed = NoOffset /\ position = NoOffset /\ base = 0
  /\ pc = "down" /\ buffer = <<>> /\ idle = 0 /\ age = 0
  /\ indexed = [o \in Events |-> 0] /\ lost = {} /\ failures = 0
  /\ setbacks = 0
-----------------------------------------------------------------------------
\* Environment: the threat engine publishes an event.
Publish ==
  /\ end < MaxEvents
  /\ end' = end + 1
  /\ UNCHANGED <<kafka, pc, buffer, idle, age, storage>>

Launch ==
  /\ pc = "down"
  /\ pc' = "start"
  /\ UNCHANGED <<end, kafka, buffer, idle, age, storage>>

\* consumer.start() succeeds; until it does it is retried every 5s.
Start ==
  /\ pc = "start"
  /\ pc' = "get" /\ idle' = 0
  /\ UNCHANGED <<end, kafka, buffer, age, storage>>

\* The partition is assigned; auto_offset_reset="latest".
Assign ==
  /\ pc \in Running /\ position = NoOffset
  /\ position' = IF committed # NoOffset THEN committed ELSE end
  /\ base' = IF committed # NoOffset THEN base ELSE end
  /\ UNCHANGED <<end, committed, setbacks, pc, buffer, idle, age, storage>>

\* enable_auto_commit
AutoCommit ==
  /\ pc \in Running /\ position # NoOffset /\ committed # position
  /\ committed' = position
  /\ UNCHANGED <<end, position, base, setbacks, pc, buffer, idle, age,
                 storage>>

\* The position is given up, committed or not.
GiveUpPosition ==
  /\ position' = NoOffset
  /\ \/ /\ committed' = IF position = NoOffset THEN committed ELSE position
        /\ UNCHANGED setbacks
     \/ /\ position # NoOffset /\ setbacks < MaxSetbacks
        /\ setbacks' = setbacks + 1
        /\ UNCHANGED committed
  /\ UNCHANGED base

\* The coordinator takes the partition away, to assign it again; nothing
\* clears the buffer.
Rebalance ==
  /\ pc \in Running /\ position # NoOffset
  /\ GiveUpPosition
  /\ UNCHANGED <<end, pc, buffer, idle, age, storage>>

\* Mutant of IsFull: the batch is compared with its size before the append.
IsFullLate(buf) == Len(buf) > BatchSize

IsFull(buf) == Len(buf) >= BatchSize

\* getone returns an event in time; a full buffer is flushed.
GetOne ==
  /\ pc = "get" /\ position < end
  /\ position' = position + 1
  /\ buffer' = Append(buffer, position + 1)
  /\ pc' = IF IsFull(buffer') THEN "flush" ELSE "get"
  /\ idle' = 0
  /\ UNCHANGED <<end, committed, base, setbacks, age, storage>>

\* Mutant of Timeout: an idle buffer waits for the batch to fill.
TimeoutNoFlush ==
  /\ pc = "get" /\ idle = Interval
  /\ idle' = 0
  /\ UNCHANGED <<end, kafka, pc, buffer, age, storage>>

\* Mutant of Timeout: the getone that is cancelled had taken an event.
TimeoutTakingEvent ==
  /\ pc = "get" /\ idle = Interval /\ position < end
  /\ position' = position + 1
  /\ pc' = "flush" /\ idle' = 0
  /\ UNCHANGED <<end, committed, base, setbacks, buffer, age, storage>>

\* asyncio.TimeoutError: an empty buffer needs no flush.
Timeout ==
  /\ pc = "get" /\ idle = Interval
  /\ pc' = IF buffer = <<>> THEN "get" ELSE "flush"
  /\ idle' = 0
  /\ UNCHANGED <<end, kafka, buffer, age, storage>>

\* What may become of the buffer's documents in a bulk call: each attempt at
\* it stores all of them, some (they are rejected one by one) or none (the
\* attempt fails; it may have been carried out all the same).
BulkResults ==
  {copies \in [Buffered -> 0 .. Attempts * Len(buffer)] :
     \A o \in Buffered : copies[o] <= Attempts * Occurrences(buffer, o)}

\* The buffer is cleared, however many copies of it were stored.
Shipped(copies) ==
  LET dropped == {o \in Buffered : copies[o] = 0} IN
    /\ indexed' = [o \in Events |-> IF o \in Buffered
                                    THEN indexed[o] + copies[o]
                                    ELSE indexed[o]]
    /\ lost' = lost \cup dropped
    /\ failures' = IF dropped = {} THEN failures ELSE failures + 1
    /\ buffer' = <<>> /\ age' = 0

\* Mutant of Flush: when some were rejected all stay for the next call.
FlushKeepingRejected ==
  /\ pc = "flush"
  /\ \E copies \in BulkResults :
       /\ indexed' = [o \in Events |-> IF o \in Buffered
                                       THEN indexed[o] + copies[o]
                                       ELSE indexed[o]]
       /\ buffer' = IF \E o \in Buffered : copies[o] = 0 THEN buffer ELSE <<>>
  /\ pc' = "get" /\ idle' = 0
  /\ UNCHANGED <<end, kafka, age, lost, failures>>

Flush ==
  /\ pc = "flush"
  /\ \E copies \in BulkResults : Shipped(copies)
  /\ pc' = "get" /\ idle' = 0
  /\ UNCHANGED <<end, kafka>>

\* Interrupted, or Kafka fails getone: run() leaves its loop.  A bulk call
\* that is under way is cancelled and its buffer cleared.
Leave ==
  /\ \/ /\ pc = "get"
        /\ UNCHANGED <<buffer, age, storage>>
     \/ /\ pc = "flush"
        /\ \E copies \in BulkResults : Shipped(copies)
  /\ pc' = "lastFlush"
  /\ UNCHANGED <<end, kafka, idle>>

\* Mutant of LastFlush: what is buffered is left behind.
LastFlushSkipped ==
  /\ pc = "lastFlush"
  /\ buffer' = <<>> /\ age' = 0
  /\ pc' = "closing"
  /\ UNCHANGED <<end, kafka, idle, storage>>

\* The finally clause: what is buffered is shipped, or dropped as anywhere.
LastFlush ==
  /\ pc = "lastFlush"
  /\ \E copies \in BulkResults : Shipped(copies)
  /\ pc' = "closing"
  /\ UNCHANGED <<end, kafka, idle>>

\* consumer.stop() commits the position, unless that fails.
Close ==
  /\ pc = "closing"
  /\ GiveUpPosition
  /\ pc' = "down"
  /\ UNCHANGED <<end, buffer, idle, age, storage>>

\* Killed, or interrupted once more while it closes: the buffer is gone, but
\* a bulk call that is under way may have been carried out.
Crash ==
  /\ pc # "down" /\ setbacks < MaxSetbacks
  /\ setbacks' = setbacks + 1
  /\ pc' = "down" /\ position' = NoOffset
  /\ \E copies \in BulkResults :
       /\ pc \notin {"flush", "lastFlush"} => copies = [o \in Buffered |-> 0]
       /\ Shipped(copies)
  /\ UNCHANGED <<end, committed, base, idle>>

\* Time passes; wait_for's timer goes off before it can pass it.
Tick ==
  /\ pc = "get" /\ idle < Interval
  /\ idle' = idle + 1
  /\ age' = IF buffer = <<>> THEN 0 ELSE IF age < AgeCap THEN age + 1 ELSE age
  /\ UNCHANGED <<end, kafka, pc, buffer, storage>>

Work == Start \/ Assign \/ GetOne \/ Timeout \/ Flush \/ LastFlush \/ Close

Next ==
  \/ Publish \/ Launch \/ Work \/ AutoCommit
  \/ Rebalance \/ Leave \/ Crash
  \/ Tick

Spec == Init /\ [][Next]_vars

\* Elasticsearch answers or fails, time passes; nobody need launch the
\* process again and no event need come.
LiveSpec ==
  /\ Spec
  /\ WF_vars(Tick) /\ WF_vars(Timeout) /\ WF_vars(Flush) /\ WF_vars(LastFlush)
-----------------------------------------------------------------------------
(***************************************************************************)
(* Properties                                                              *)
(***************************************************************************)

\* How much of the topic the group was handed, or will have been as far as
\* its next member can tell.
Handed ==
  IF position # NoOffset THEN position
  ELSE IF committed # NoOffset THEN committed ELSE base

\* Events the group has gone past that are nowhere: no restart brings them
\* back.
Missing ==
  {o \in Events : /\ base < o /\ o <= Handed
                  /\ indexed[o] = 0 /\ o \notin Buffered}

\* A failed bulk call, also the one on the way out, and a kill cost the trail
\* a batch at most, and nothing else costs it an event: no timer, no stop
\* whose last flush succeeds, no reassignment of the partition.
LossBounded == Cardinality(Missing) <= BatchSize * failures

\* An event is in the index no more often than the client may have tried to
\* store it, unless a setback brought it back: then as often again.
DuplicatesBounded ==
  \A o \in Events : indexed[o] <= Attempts * (1 + setbacks)

\* Without a setback the buffer is exactly the last events handed over, in
\* order, also across a reassignment: nothing is in two batches or overtaken
\* by a later event.
BufferIsTail ==
  setbacks = 0 /\ buffer # <<>> =>
    \A i \in 1 .. Len(buffer) : buffer[i] + Len(buffer) = Handed + i

\* The timer restarts with every event, so the interval does not bound how
\* long an event waits; the batch size does.
WaitBounded == age <= (BatchSize - 1) * Interval

\* The indexer seen as a member of a group: it keeps what it is handed in the
\* index, in the buffer or among what is known as lost.
G == INSTANCE ConsumerGroup
       WITH handed <- {o \in Events : indexed[o] > 0} \cup Buffered \cup lost

\* Whatever the indexer goes through, it reads the topic as a consumer group
\* does: it is handed one event after the other, returns to where the group
\* is, and commits only what it was handed.
IsConsumerGroup == G!Spec

\* No event stays in the buffer, also when no other event follows.
BufferDrains == buffer # <<>> ~> buffer = <<>>
=============================================================================
