--------------------------- MODULE ThreatConsumer ---------------------------
(***************************************************************************)
(* The threat engine's background consumer (kafka_consumer.py): it reads   *)
(* api.requests.raw, scores each record, bans the client of a blocked one  *)
(* in Redis and publishes the outcome on api.audit.events.                 *)
(*                                                                         *)
(* One partition: nothing in the loop relates records of different ones.   *)
(* A record's offset is its index in log.  The group's committed offset    *)
(* and the client library's position count the records before them; the    *)
(* library commits its position now and then, and the position already     *)
(* counts the record that is being processed.  A setback is a position     *)
(* that is lost before it was committed: by a kill, by a commit that fails *)
(* when the consumer is closed or its partition is reassigned, or by a     *)
(* process that ends before the cancelled task is done closing.            *)
(***************************************************************************)
EXTENDS Redis, Sequences

CONSTANTS
  Clients,
  Unknown,        \* the client IP "unknown"
  BlocklistTtl,   \* BLOCKLIST_TTL_SECONDS
  MaxRecords,     \* bound: records published
  MaxSetbacks,    \* bound: times an uncommitted position is lost
  MaxRefusals     \* bound: start() calls Kafka refuses

ASSUME ConsumerAssumption ==
  /\ Unknown \in Clients
  /\ BlocklistTtl \in Nat \ {0}
  /\ {MaxRecords, MaxSetbacks, MaxRefusals} \subseteq Nat

VARIABLES
  log,        \* the raw topic
  committed,  \* the group's committed offset; NoOffset before the first commit
  pc,         \* where the task is
  consumer,   \* this process's AIOKafkaConsumer: "fresh", or "started" once
  position,   \* the consumer's position; NoOffset while it has none
  current,    \* the record the loop was last handed; 0 before the first
  blocklist,  \* keyspace blocklist:<ip>
  audited,    \* audit events on api.audit.events, per offset
  handled,    \* history: times each record was handed to the loop
  enforced,   \* history: offsets whose ban was written
  base,       \* history: the end of log when the group last began anew
  setbacks, refusals

process == <<pc, consumer, position, current>>
history == <<handled, enforced, base>>
vars == <<log, committed, process, blocklist, audited, history, setbacks,
          refusals>>
-----------------------------------------------------------------------------
\* A signal RequestSignal rejects (a negative session age) is "INVALID".
Record == [client : Clients, verdict : {"ALLOW", "BLOCK", "INVALID"}]
Offsets == 1 .. MaxRecords
NoOffset == MaxRecords + 1

Starting == {"startConsumer", "startProducer", "retry"}
Looping == {"poll", "setex", "send"}

TypeOK ==
  /\ log \in Seq(Record) /\ Len(log) <= MaxRecords
  /\ committed \in 0 .. NoOffset
  /\ pc \in {"down"} \cup Starting \cup Looping
  /\ consumer \in {"fresh", "started"}
  /\ position \in 0 .. NoOffset /\ current \in 0 .. MaxRecords
  /\ blocklist \in [Clients -> Entry]
  /\ audited \in [Offsets -> Nat]
  /\ handled \in [Offsets -> Nat]
  /\ enforced \subseteq Offsets /\ base \in 0 .. MaxRecords
  /\ setbacks \in 0 .. MaxSetbacks /\ refusals \in 0 .. MaxRefusals

Init ==
  /\ log = <<>> /\ committed = NoOffset
  /\ pc = "down" /\ consumer = "fresh" /\ position = NoOffset /\ current = 0
  /\ blocklist = [ip \in Clients |-> Absent]
  /\ audited = [o \in Offsets |-> 0]
  /\ handled = [o \in Offsets |-> 0] /\ enforced = {} /\ base = 0
  /\ setbacks = 0 /\ refusals = 0

Current == log[current]
-----------------------------------------------------------------------------
\* Environment: the gateway publishes a record.
Publish(rec) ==
  /\ Len(log) < MaxRecords
  /\ log' = Append(log, rec)
  /\ UNCHANGED <<committed, process, blocklist, audited, history, setbacks,
                 refusals>>

\* lifespan: the task is created, with clients of its own.
Launch ==
  /\ pc = "down"
  /\ pc' = "startConsumer"
  /\ UNCHANGED <<log, committed, consumer, position, current, blocklist,
                 audited, history, setbacks, refusals>>

\* consumer.start(): a consumer that was started before refuses.
StartConsumer ==
  /\ pc = "startConsumer"
  /\ \/ /\ consumer = "fresh"
        /\ pc' = "startProducer" /\ consumer' = "started"
        /\ UNCHANGED refusals
     \/ /\ consumer = "started"
        /\ pc' = "retry"
        /\ UNCHANGED <<consumer, refusals>>
     \/ /\ consumer = "fresh" /\ refusals < MaxRefusals
        /\ pc' = "retry" /\ refusals' = refusals + 1
        /\ UNCHANGED consumer
  /\ UNCHANGED <<log, committed, position, current, blocklist, audited,
                 history, setbacks>>

\* producer.start()
StartProducer ==
  /\ pc = "startProducer"
  /\ \/ /\ pc' = "poll"
        /\ UNCHANGED refusals
     \/ /\ refusals < MaxRefusals
        /\ pc' = "retry" /\ refusals' = refusals + 1
  /\ UNCHANGED <<log, committed, consumer, position, current, blocklist,
                 audited, history, setbacks>>

\* asyncio.sleep(5) is over.
Retry ==
  /\ pc = "retry"
  /\ pc' = "startConsumer"
  /\ UNCHANGED <<log, committed, consumer, position, current, blocklist,
                 audited, history, setbacks, refusals>>

\* Where a newly assigned partition is read from (auto_offset_reset="latest").
ResetTo == IF committed # NoOffset THEN committed ELSE Len(log)

\* The group coordinator assigns the partition, some time after start() and
\* after a rebalance.
Assign ==
  /\ consumer = "started" /\ pc # "down" /\ position = NoOffset
  /\ position' = ResetTo
  /\ base' = IF committed # NoOffset THEN base ELSE Len(log)
  /\ UNCHANGED <<log, committed, pc, consumer, current, blocklist, audited,
                 handled, enforced, setbacks, refusals>>

\* The position is given up, committed or not.
GiveUpPosition ==
  /\ position' = NoOffset
  /\ \/ /\ committed' = IF position = NoOffset THEN committed ELSE position
        /\ UNCHANGED setbacks
     \/ /\ position # NoOffset /\ setbacks < MaxSetbacks
        /\ setbacks' = setbacks + 1
        /\ UNCHANGED committed

\* The coordinator takes the partition away, to assign it again; the record
\* in process is gone on with.
Rebalance ==
  /\ pc # "down" /\ position # NoOffset
  /\ GiveUpPosition
  /\ UNCHANGED <<log, pc, consumer, current, blocklist, audited, history,
                 refusals>>

\* Mutant of AutoCommit: the end of the partition is committed.
AutoCommitLogEnd ==
  /\ consumer = "started" /\ pc # "down"
  /\ position # NoOffset /\ committed # position
  /\ committed' = Len(log)
  /\ UNCHANGED <<log, process, blocklist, audited, history, setbacks,
                 refusals>>

\* enable_auto_commit
AutoCommit ==
  /\ consumer = "started" /\ pc # "down"
  /\ position # NoOffset /\ committed # position
  /\ committed' = position
  /\ UNCHANGED <<log, process, blocklist, audited, history, setbacks,
                 refusals>>

\* Mutant of AfterScoring: the event goes out, the ban is left to the gateway.
AfterScoringSendOnly(rec) == IF rec.verdict = "INVALID" THEN "poll" ELSE "send"

\* What the loop awaits next: an exception skips the record.
AfterScoring(rec) ==
  IF rec.verdict = "INVALID" THEN "poll"
  ELSE IF rec.verdict = "BLOCK" /\ rec.client # Unknown THEN "setex"
  ELSE "send"

\* Mutant of Poll: a record that fails is read again.
PollAgain ==
  /\ pc = "poll" /\ position < Len(log)
  /\ LET rec == log[position + 1] IN
       /\ position' =
            IF rec.verdict = "INVALID" THEN position ELSE position + 1
       /\ handled' = [handled EXCEPT ![position + 1] =
                        IF rec.verdict = "INVALID" THEN @ ELSE @ + 1]
       /\ pc' = AfterScoring(rec) /\ current' = position + 1
  /\ UNCHANGED <<log, committed, consumer, blocklist, audited, enforced, base,
                 setbacks, refusals>>

\* The next record is handed over, validated and scored.
Poll ==
  /\ pc = "poll" /\ position < Len(log)
  /\ position' = position + 1 /\ current' = position + 1
  /\ handled' = [handled EXCEPT ![position + 1] = @ + 1]
  /\ pc' = AfterScoring(log[position + 1])
  /\ UNCHANGED <<log, committed, consumer, blocklist, audited, enforced,
                 base, setbacks, refusals>>

\* SETEX is done; its answer may still be lost, which skips the rest.
WriteBan ==
  /\ pc = "setex"
  /\ blocklist' = SetEx(blocklist, Current.client, BlocklistTtl)
  /\ enforced' = enforced \cup {current}
  /\ pc' \in {"send", "poll"}
  /\ UNCHANGED <<log, committed, consumer, position, current, audited,
                 handled, base, setbacks, refusals>>

\* send_and_wait: the event is there once, or twice after a retry inside the
\* producer, which is not idempotent.
SendAudit ==
  /\ pc = "send"
  /\ \E copies \in 1 .. 2 :
       audited' = [audited EXCEPT ![current] = @ + copies]
  /\ pc' = "poll"
  /\ UNCHANGED <<log, committed, consumer, position, current, blocklist,
                 history, setbacks, refusals>>

\* Redis or Kafka fails the call: the record is skipped.
Skip ==
  /\ pc \in {"setex", "send"}
  /\ pc' = "poll"
  /\ UNCHANGED <<log, committed, consumer, position, current, blocklist,
                 audited, history, setbacks, refusals>>

\* The process is over; the next one has clients of its own.
Gone ==
  /\ pc # "down"
  /\ pc' = "down" /\ consumer' = "fresh" /\ current' = 0
  /\ UNCHANGED <<log, blocklist, audited, history, refusals>>

\* Mutant of Stop: the consumer is not closed.
StopWithoutCommit ==
  /\ Gone
  /\ position' = NoOffset
  /\ UNCHANGED <<committed, setbacks>>

\* The task is cancelled, or its loop dies.  Inside the loop its finally clause
\* closes the consumer, which commits its position, unless that fails or the
\* process does not wait for it.
Stop ==
  /\ Gone
  /\ IF pc \in Looping THEN GiveUpPosition
     ELSE position' = NoOffset /\ UNCHANGED <<committed, setbacks>>

\* The process is killed.
Crash ==
  /\ Gone /\ setbacks < MaxSetbacks
  /\ setbacks' = setbacks + 1 /\ position' = NoOffset
  /\ UNCHANGED committed

Elapse ==
  /\ blocklist' = Elapsed(blocklist)
  /\ UNCHANGED <<log, committed, process, audited, history, setbacks,
                 refusals>>

Startup == Launch \/ StartConsumer \/ StartProducer \/ Retry \/ Assign
Loop == Poll \/ WriteBan \/ SendAudit \/ Skip

Next ==
  \/ \E rec \in Record : Publish(rec)
  \/ Startup \/ Loop \/ AutoCommit
  \/ Rebalance \/ Stop \/ Crash
  \/ Elapse

Spec == Init /\ [][Next]_vars

\* The process is launched again whenever it is down and gets on with what
\* it has to do; neither Kafka nor Redis hangs for ever.
Fairness ==
  /\ WF_vars(Launch) /\ WF_vars(StartConsumer) /\ WF_vars(StartProducer)
  /\ WF_vars(Retry) /\ WF_vars(Assign) /\ WF_vars(Loop)

FairSpec == Spec /\ Fairness

\* Nobody stops the process, its group is left in peace; it is killed
\* MaxSetbacks times at most, and Kafka refuses MaxRefusals starts.
Undisturbed ==
  \/ \E rec \in Record : Publish(rec)
  \/ Startup \/ Loop \/ AutoCommit \/ Crash

LiveSpec == Init /\ [][Undisturbed]_vars /\ Fairness
-----------------------------------------------------------------------------
(***************************************************************************)
(* Properties                                                              *)
(***************************************************************************)

\* The audit trail never reports a ban of a known client that was not
\* written: SETEX comes before the event, and its failure drops the event.
AuditedBlockWasEnforced ==
  \A o \in 1 .. Len(log) :
    audited[o] > 0 /\ log[o].verdict = "BLOCK" /\ log[o].client # Unknown =>
      o \in enforced

\* Nobody is banned under the name "unknown", which many clients may share.
UnknownNeverBanned == ~HasKey(blocklist, Unknown)

\* A record is handed over again at most once for every setback: as long as
\* commits succeed and nothing is killed, neither stops nor rebalances nor
\* the auto-commits between them bring one back.
RedeliveredOnlyBySetback == \A o \in Offsets : handled[o] <= 1 + setbacks

\* Wherever it is killed and restarted, the group skips no record it has not
\* seen once it has an offset: all it committed it was handed.
CommittedWasHandled ==
  committed # NoOffset =>
    \A o \in Offsets : base < o /\ o <= committed => handled[o] > 0

\* The consumer seen as a member of a group.
G == INSTANCE ConsumerGroup
       WITH end <- Len(log), handed <- {o \in Offsets : handled[o] > 0}

\* Whatever the service goes through, it reads the topic as a consumer group
\* does: it is handed one record after the other, returns to where the group
\* is, and commits only what it was handed.
IsConsumerGroup == G!Spec

\* The group's offset never moves back, whatever is restarted.
CommitNeverRewinds ==
  [][committed # NoOffset =>
       committed' # NoOffset /\ committed' >= committed]_vars

\* start() was called on a consumer that is already started (RetryConnects).
Stuck == pc = "retry" /\ consumer = "started"

\* A record that cannot be processed holds nobody up: once the process is no
\* longer stopped nor its partition reassigned, whatever is published after
\* the group began is handled, unless a setback before the first commit makes
\* it begin again further on or the task is stuck before its loop.
NobodyHeldUp ==
  <>[][~Stop /\ ~Rebalance]_vars =>
    \A o \in Offsets :
      position # NoOffset /\ base < o /\ o <= Len(log) ~>
        handled[o] > 0 \/ base >= o \/ Stuck
-----------------------------------------------------------------------------
(***************************************************************************)
(* What a log message says; the run shows where the code does otherwise.   *)
(***************************************************************************)

\* "Kafka not ready ... Retrying in 5s": once Kafka is ready the task gets to
\* its loop.
RetryConnects == pc \in Starting ~> pc \in Looping
=============================================================================
