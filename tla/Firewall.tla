------------------------------ MODULE Firewall ------------------------------
(***************************************************************************)
(* The demonstration the README leads through, end to end: scripts on one  *)
(* host send requests, the gateway answers them and bans the host, the     *)
(* threat engine's consumer (ThreatConsumer) scores what was published and *)
(* bans it, too, the indexer (AuditIndexer) ships the outcome, and         *)
(* query_audit_trail.py looks for it.                                      *)
(*                                                                         *)
(* The scripts are sequential: one request is under way at a time.  The    *)
(* gateway is reduced to what concerns the ban and the telemetry.  A       *)
(* verdict is ALLOW, BLOCK or, for a signal the engine does not accept,    *)
(* INVALID; CHALLENGE is left out (it is answered like ALLOW and found     *)
(* like BLOCK).  The stack stays up and its consumer groups are left in    *)
(* peace: kills and reassignments are the components' own runs'.           *)
(***************************************************************************)
EXTENDS Redis, Sequences, FiniteSets

LOCAL INSTANCE FiniteSetsExt   \* MapThenSumSet

CONSTANTS
  Plan,           \* the requests the scripts send, in order
  Host, Unknown,  \* the scripts' address; the client IP "unknown"
  QuerySize,      \* "size" of the query
  BlocklistTtl,   \* firewall.blocklist-ttl-seconds, the gateway's
  ConsumerTtl, MaxRecords,                    \* ThreatConsumer's
  BatchSize, Interval, Attempts, MaxEvents    \* AuditIndexer's

VARIABLES
  turn,       \* the request under way, or to be sent next
  step,       \* what it waits for; "ready" before it is sent
  outcome,    \* how each request was answered
  verdict,    \* what the engine makes of each request's signal
  sinceBan,   \* history: time since the gateway last wrote a ban
  log, committed, pc, consumer, position, current, blocklist, audited,
  handled, enforced, base, setbacks, refusals,            \* ThreatConsumer's
  dropped,    \* history: records whose processing a failed call ended
  auditLog,   \* api.audit.events: the raw offset each event is about
  end,        \* its length
  iCommitted, iPc, iPosition, buffer, idle, age, indexed, lost, failures,
  iBase, iSetbacks                                        \* AuditIndexer's

C == INSTANCE ThreatConsumer
       WITH Clients <- {Host, Unknown}, BlocklistTtl <- ConsumerTtl,
            MaxSetbacks <- 0, MaxRefusals <- 0

I == INSTANCE AuditIndexer
       WITH committed <- iCommitted, pc <- iPc,
            position <- iPosition, base <- iBase, setbacks <- iSetbacks,
            MaxSetbacks <- 0

door == <<turn, step, outcome, verdict, sinceBan>>
engine == <<log, committed, pc, consumer, position, current, audited, handled,
            enforced, base, setbacks, refusals, dropped>>
indexer == <<iCommitted, iPc, iPosition, buffer, idle, age, indexed, lost,
             failures, iBase, iSetbacks>>
trail == <<auditLog, end>>
vars == <<door, blocklist, engine, trail, indexer>>
-----------------------------------------------------------------------------
Request == [script : {"stuffing", "abuse", "load"},
            path : {"login", "checkout", "orders"},
            credentials : BOOLEAN, tokenValid : BOOLEAN]

Login(script, good) ==
  [script |-> script, path |-> "login", credentials |-> good,
   tokenValid |-> FALSE]

\* simulate_credential_stuffing.py: logins under the credentials of its
\* lists; one pair of them is good.
Stuffing(n, hit) == [i \in 1 .. n |-> Login("stuffing", i = hit)]

\* simulate_business_logic_abuse.py: n orders, normal and then tampered ones.
Abuse(n, token) ==
  [i \in 1 .. n |-> [script |-> "abuse", path |-> "checkout",
                     credentials |-> FALSE, tokenValid |-> token]]

\* locustfile.py: orders under a placeholder for a token, and good logins.
BrowseOrders == [script |-> "load", path |-> "orders",
                 credentials |-> FALSE, tokenValid |-> FALSE]
LoadTest == <<BrowseOrders, Login("load", TRUE)>>

Turns == 1 .. Len(Plan)
Verdicts == {"ALLOW", "BLOCK", "INVALID"}

\* The gateway asks for a token everywhere but at the login.
Authorized(q) == q.path = "login" \/ q.tokenValid

ASSUME FirewallAssumption ==
  /\ Plan \in Seq(Request) /\ Host # Unknown
  /\ {BlocklistTtl, ConsumerTtl} \subseteq Nat \ {0}
  /\ QuerySize \in Nat \ {0}
  /\ MaxRecords = Cardinality({i \in Turns : Authorized(Plan[i])})
  /\ MaxEvents = 2 * MaxRecords

\* Only a token can make a signal INVALID, by its time of issue.
VerdictsOf(q) == IF q.tokenValid THEN Verdicts ELSE Verdicts \ {"INVALID"}

\* What a ban lasts at least: both write it, each with its own TTL.
ShorterTtl == IF BlocklistTtl <= ConsumerTtl THEN BlocklistTtl ELSE ConsumerTtl

\* The stack is up before the scripts are run, nothing has been sent yet.
Init ==
  /\ turn = 1 /\ step = "ready"
  /\ outcome = [i \in Turns |-> "none"]
  /\ verdict = [i \in Turns |-> "none"]
  /\ sinceBan = ShorterTtl
  /\ log = <<>> /\ committed = C!NoOffset /\ position = 0 /\ base = 0
  /\ pc = "poll" /\ consumer = "started" /\ current = 0
  /\ blocklist = [ip \in {Host, Unknown} |-> Absent]
  /\ audited = [o \in C!Offsets |-> 0]
  /\ handled = [o \in C!Offsets |-> 0] /\ enforced = {}
  /\ setbacks = 0 /\ refusals = 0 /\ dropped = {}
  /\ auditLog = <<>> /\ end = 0
  /\ iCommitted = I!NoOffset /\ iPosition = 0 /\ iBase = 0
  /\ iPc = "get" /\ buffer = <<>> /\ idle = 0 /\ age = 0
  /\ indexed = [e \in I!Events |-> 0] /\ lost = {} /\ failures = 0
  /\ iSetbacks = 0
-----------------------------------------------------------------------------
(***************************************************************************)
(* The scripts and the gateway.                                            *)
(***************************************************************************)

\* The request under way is answered by o, and the script sends its next.
AnsweredBy(o) ==
  /\ outcome' = [outcome EXCEPT ![turn] = o]
  /\ turn' = turn + 1 /\ step' = "ready"

\* The requests of this script that are still to come.
Rest(i) == {j \in i + 1 .. Len(Plan) : Plan[j].script = Plan[i].script}

\* attempt, send_batch, browse_orders: a request is sent.
Send ==
  /\ turn \in Turns /\ step = "ready"
  /\ \/ /\ Authorized(Plan[turn])
        /\ step' = "door"
        /\ UNCHANGED <<turn, outcome>>
     \/ /\ ~Authorized(Plan[turn])
        /\ AnsweredBy("unauthorized")
  /\ UNCHANGED <<verdict, sinceBan, blocklist, engine, trail, indexer>>

\* EXISTS blocklist:<ip>
AtTheDoor ==
  /\ step = "door"
  /\ \/ /\ HasKey(blocklist, Host)
        /\ AnsweredBy("refused")
     \/ /\ ~HasKey(blocklist, Host)
        /\ step' = "publish"
        /\ UNCHANGED <<turn, outcome>>
  /\ UNCHANGED <<verdict, sinceBan, blocklist, engine, trail, indexer>>

\* The counters' answers are in: the signal, of which the engine will make
\* v, is published; the topic may not keep it.
Publish(v, kept) ==
  /\ step = "publish"
  /\ step' = "score" /\ verdict' = [verdict EXCEPT ![turn] = v]
  /\ IF kept THEN C!Publish([client |-> Host, verdict |-> v])
     ELSE UNCHANGED <<blocklist, log, committed, pc, consumer, position,
                      current, audited, handled, enforced, base, setbacks,
                      refusals>>
  /\ UNCHANGED <<turn, outcome, sinceBan, dropped, trail, indexer>>

\* What the gateway makes of the score: mutant, blocked unless allowed.
AfterScoreFailClosed(decision) ==
  IF decision = "ALLOW" THEN "forward" ELSE "ban"

AfterScore(decision) == IF decision = "BLOCK" THEN "ban" ELSE "forward"

\* /score answers in time with what the consumer will say, too, or there is
\* no answer, not even to a signal that is not accepted: the client fails
\* open.  A request that is not escalated goes the same way.
Score ==
  /\ step = "score"
  /\ \E decision \in {verdict[turn], "UNSCORED"} \ {"INVALID"} :
       step' = AfterScore(decision)
  /\ UNCHANGED <<turn, outcome, verdict, sinceBan, blocklist, engine, trail,
                 indexer>>

\* auth-service: one pair of credentials is good; any other gets a 401.
LoginAnswer(q) == IF q.credentials THEN "accepted" ELSE "rejected"

\* order-service: any order is accepted, at a checkout, too.
OrderAnswer == "accepted"

\* The routes to the two services.
Forward ==
  /\ step = "forward"
  /\ AnsweredBy(IF Plan[turn].path = "login" THEN LoginAnswer(Plan[turn])
                ELSE OrderAnswer)
  /\ UNCHANGED <<verdict, sinceBan, blocklist, engine, trail, indexer>>

\* Mutant of Ban: the ban is written on the side, its failure not noticed.
BanOnTheSide ==
  /\ step = "ban"
  /\ blocklist' \in {blocklist, SetEx(blocklist, Host, BlocklistTtl)}
  /\ step' = "deny" /\ sinceBan' = 0
  /\ UNCHANGED <<turn, outcome, verdict, engine, trail, indexer>>

Ban ==
  /\ step = "ban"
  /\ blocklist' = SetEx(blocklist, Host, BlocklistTtl)
  /\ step' = "deny" /\ sinceBan' = 0
  /\ UNCHANGED <<turn, outcome, verdict, engine, trail, indexer>>

Deny ==
  /\ step = "deny"
  /\ AnsweredBy("blocked")
  /\ UNCHANGED <<verdict, sinceBan, blocklist, engine, trail, indexer>>

\* A Redis call fails, or its answer is lost: the gateway answers 500.
Error ==
  /\ step \in {"door", "publish", "ban", "deny"}
  /\ AnsweredBy("error")
  /\ UNCHANGED <<verdict, sinceBan, blocklist, engine, trail, indexer>>

\* httpx gives up.  attempt() and locust go on; nothing in send_batch catches
\* the exception, which ends the script.
ClientTimeout ==
  /\ step # "ready"
  /\ \/ /\ Plan[turn].script # "abuse"
        /\ AnsweredBy("timeout")
     \/ /\ Plan[turn].script = "abuse"
        /\ outcome' = [i \in Turns |-> IF i = turn THEN "timeout"
                                       ELSE IF i \in Rest(turn) THEN "unsent"
                                       ELSE outcome[i]]
        /\ turn' = turn + Cardinality(Rest(turn)) + 1 /\ step' = "ready"
  /\ UNCHANGED <<verdict, sinceBan, blocklist, engine, trail, indexer>>
-----------------------------------------------------------------------------
(***************************************************************************)
(* The consumer and the indexer.                                           *)
(***************************************************************************)

\* A record is read, banned for or given up.
ConsumerStep ==
  /\ \/ /\ C!Poll
        /\ UNCHANGED dropped
     \/ /\ C!WriteBan
        /\ dropped' = IF pc' = "send" THEN dropped ELSE dropped \cup {current}
     \/ /\ C!Skip
        /\ dropped' = dropped \cup {current}
  /\ UNCHANGED <<door, trail, indexer>>

\* The event is on the topic as often as the consumer counts it.
SendAudit ==
  /\ C!SendAudit
  /\ auditLog' = auditLog \o [i \in 1 .. audited'[current] - audited[current]
                                |-> current]
  /\ end' = Len(auditLog')
  /\ UNCHANGED <<door, dropped, indexer>>

GetOne == I!GetOne /\ UNCHANGED <<door, blocklist, engine, auditLog>>
Timeout == I!Timeout /\ UNCHANGED <<door, blocklist, engine, auditLog>>
Flush == I!Flush /\ UNCHANGED <<door, blocklist, engine, auditLog>>
Tick == I!Tick /\ UNCHANGED <<door, blocklist, engine, auditLog>>

IndexerStep == GetOne \/ Timeout \/ Flush \/ Tick

Elapse ==
  /\ blocklist' = Elapsed(blocklist)
  /\ sinceBan' = IF sinceBan < ShorterTtl THEN sinceBan + 1 ELSE sinceBan
  /\ UNCHANGED <<turn, step, outcome, verdict, engine, trail, indexer>>

Gateway ==
  \/ AtTheDoor \/ Score \/ Forward \/ Ban \/ Deny
  \/ turn \in Turns /\ \E v \in VerdictsOf(Plan[turn]), kept \in BOOLEAN :
       Publish(v, kept)

Next ==
  \/ Send \/ Gateway \/ Error \/ ClientTimeout
  \/ ConsumerStep \/ SendAudit \/ IndexerStep
  \/ Elapse

\* The consumer and the indexer get on with what they have to do, or fail at
\* it; Elasticsearch and time do, too.  Nothing makes a script send.
Fairness ==
  /\ WF_vars(ConsumerStep \/ SendAudit)
  /\ WF_vars(GetOne) /\ WF_vars(Timeout) /\ WF_vars(Flush) /\ WF_vars(Tick)

Spec == Init /\ [][Next]_vars /\ Fairness
-----------------------------------------------------------------------------
(***************************************************************************)
(* query_audit_trail.py                                                    *)
(***************************************************************************)

\* The records whose event has a decision other than ALLOW.
Suspect == {o \in 1 .. Len(log) : log[o].verdict = "BLOCK"}

\* Documents about such records after o.  An event has the timestamp of its
\* request, so they come before o's.
NewerHits(o) ==
  MapThenSumSet(LAMBDA e : indexed[e],
                {e \in 1 .. end :
                   auditLog[e] > o /\ auditLog[e] \in Suspect})

\* Record o is among the newest QuerySize hits.
Shown(o) ==
  /\ o \in Suspect /\ NewerHits(o) < QuerySize
  /\ \E e \in 1 .. end : auditLog[e] = o /\ indexed[e] > 0
-----------------------------------------------------------------------------
(***************************************************************************)
(* Properties                                                              *)
(***************************************************************************)

\* Whom the gateway has banned is kept out for its own TTL, or for the
\* consumer's if that is shorter and the consumer writes the ban again:
\* however the request that brought the ban on ends, nothing that is sent
\* meanwhile reaches the counters, the topic or a service.
BlockedStaysOut ==
  [][step = "door" /\ step' = "publish" => sinceBan >= ShorterTtl]_vars

\* The scripts are only ever refused for what they did: before a refusal
\* there was a request whose signal the engine blocks.  A signal it does not
\* accept and a score that does not come cost nobody his access.
RefusalsFollowBlock ==
  \A i \in Turns : outcome[i] = "refused" =>
    \E j \in 1 .. i - 1 : verdict[j] = "BLOCK"

\* "The pipeline actually worked end-to-end": a request the engine blocks
\* and the raw topic keeps is shown by the query, unless Redis or Kafka fails
\* the consumer, a bulk call drops the event, or newer hits crowd it out.
\* Whether the gateway fails open or the scripts give up makes no difference.
EventFound ==
  \A o \in C!Offsets :
    o \in Suspect ~>
      \/ Shown(o)
      \/ o \in dropped
      \/ \E e \in 1 .. end : auditLog[e] = o /\ e \in lost
      \/ NewerHits(o) >= QuerySize
=============================================================================
