--------------------------- MODULE ZeroTrustFilter ---------------------------
(***************************************************************************)
(* The gateway's ZeroTrustFilter: what happens to each request between its *)
(* arrival and its answer, over the shared state in Redis (RedisState).    *)
(*                                                                         *)
(* Every request runs its own reactive chain; pc[r] names the asynchronous *)
(* call it waits for, so that between any two of its steps other requests, *)
(* the asynchronous scorer and time may act.  The Threat Engine's verdict  *)
(* is a function of the signal: whoever has it scored first, the filter or *)
(* the asynchronous scorer, both get the same.                             *)
(***************************************************************************)
EXTENDS Naturals, FiniteSets

CONSTANTS
  Requests, Clients, Subjects, Endpoints,
  None,                \* an absent header, address or subject
  Unknown,             \* the client IP of a request without an address
  PublicPaths,         \* ZeroTrustFilter.PUBLIC_PATHS
  HighRiskPaths,       \* paths with a firewall.high-risk-endpoints prefix
  RateThreshold,       \* firewall.rate-escalation-threshold
  Inputs,              \* bound: the requests that may arrive
  ShortWindow, LongWindow, StreakTtl, CounterCap,
  BlocklistTtl,        \* firewall.blocklist-ttl-seconds
  ConsumerTtl          \* BLOCKLIST_TTL_SECONDS, the consumer's own setting

VARIABLES
  pc,          \* what each request waits for, or how it was answered
  req,         \* the request itself, once it has arrived
  verdict,     \* what the Threat Engine makes of the signal, once it is asked
  decision,    \* what the filter took its answer to be
  published,   \* requests whose telemetry reached api.requests.raw
  blocklist, counter, phase, key, got    \* RedisState's

R == INSTANCE RedisState
       WITH Callers <- Requests, Identities <- Clients \cup Subjects

gateway == <<pc, req, verdict, decision, published>>
redis == <<blocklist, counter, phase, key, got>>
vars == <<gateway, redis>>
-----------------------------------------------------------------------------
Request == [forwardedFor : Clients \cup {None}, remote : Clients \cup {None},
            path : Endpoints, mayHaveBody : BOOLEAN,
            tokenValid : BOOLEAN, subject : Subjects \cup {None}]

Decisions == {"ALLOW", "CHALLENGE", "BLOCK"}

ASSUME InputAssumption ==
  /\ Inputs \subseteq Request
  /\ Unknown \in Clients
  /\ None \notin Clients \cup Subjects \cup Decisions
  /\ PublicPaths \subseteq Endpoints /\ HighRiskPaths \subseteq Endpoints
  /\ RateThreshold \in Nat /\ RateThreshold < CounterCap

ASSUME WindowAssumption ==
  /\ CounterCap \in Nat /\ CounterCap >= 2
  /\ {ShortWindow, LongWindow, StreakTtl} \subseteq Nat \ {0}
  /\ {BlocklistTtl, ConsumerTtl} \subseteq Nat \ {0}

Waiting == {"check", "body", "count", "score", "block", "deny"}
Refused == {"unauthorized", "blocked"}
Answered == Refused \cup {"forwarded", "denied", "failed"}

TypeOK ==
  /\ pc \in [Requests -> {"new"} \cup Waiting \cup Answered]
  /\ req \in [Requests -> Inputs \cup {None}]
  /\ verdict \in [Requests -> Decisions \cup {None}]
  /\ decision \in [Requests -> Decisions \cup {"UNSCORED", None}]
  /\ published \subseteq Requests
  /\ R!TypeOK

\* X-Forwarded-For if there is one, else the peer's address.
ClientIp(r) ==
  LET q == req[r] IN
    IF q.forwardedFor # None THEN q.forwardedFor
    ELSE IF q.remote # None THEN q.remote ELSE Unknown

\* No claims are read on a public path, whatever token comes with it.
Authorized(q) == q.path \in PublicPaths \/ q.tokenValid
IdentityKey(r) ==
  LET q == req[r] IN
    IF q.path \notin PublicPaths /\ q.subject # None THEN q.subject
    ELSE ClientIp(r)

HighRisk(r) ==
  req[r].path \in HighRiskPaths \/ got[<<r, "rate10s">>] > RateThreshold

Init ==
  /\ pc = [r \in Requests |-> "new"]
  /\ req = [r \in Requests |-> None]
  /\ verdict = [r \in Requests |-> None]
  /\ decision = [r \in Requests |-> None]
  /\ published = {}
  /\ R!Init
-----------------------------------------------------------------------------
Goto(r, label) == pc' = [pc EXCEPT ![r] = label]

Receive(r, q) ==
  /\ pc[r] = "new"
  /\ req' = [req EXCEPT ![r] = q]
  /\ Goto(r, IF Authorized(q) THEN "check" ELSE "unauthorized")
  /\ UNCHANGED <<verdict, decision, published, redis>>

\* continuePipeline: the three counter calls start.
ContinuePipeline(r) ==
  /\ Goto(r, "count")
  /\ R!Begin(r, ClientIp(r), req[r].path, IdentityKey(r))
  /\ UNCHANGED <<req, verdict, decision, published>>

\* The answer to EXISTS blocklist:<ip>.
CheckBlocked(r) ==
  /\ pc[r] = "check"
  /\ \/ /\ R!IsBlocked(ClientIp(r))
        /\ Goto(r, "blocked")
        /\ UNCHANGED <<req, verdict, decision, published, redis>>
     \/ /\ ~R!IsBlocked(ClientIp(r)) /\ req[r].mayHaveBody
        /\ Goto(r, "body")
        /\ UNCHANGED <<req, verdict, decision, published, redis>>
     \/ /\ ~R!IsBlocked(ClientIp(r)) /\ ~req[r].mayHaveBody
        /\ ContinuePipeline(r)

\* The client has sent the last of its body.
ReadBody(r) == pc[r] = "body" /\ ContinuePipeline(r)

\* The zip subscribes to its calls one after the other, and one connection
\* keeps their INCRs in that order.
Sooner(op) ==
  CASE op = "rate10s" -> {}
    [] op = "rate60s" -> {"rate10s"}
    [] OTHER          -> {"rate10s", "rate60s"}

CounterStep(r) ==
  /\ pc[r] = "count"
  /\ \E op \in R!Ops :
       \/ /\ \A sooner \in Sooner(op) : phase[<<r, sooner>>] # "incr"
          /\ R!Increment(<<r, op>>)
       \/ R!SetExpiry(<<r, op>>)
  /\ UNCHANGED gateway

\* KafkaRequestPublisher.publishAsync: fire and forget; whether the topic
\* keeps it is not noticed.
PublishAsync(r, kept) ==
  published' = IF kept THEN published \cup {r} ELSE published

\* The zip completes: the signal is built and published, and the request is
\* escalated or goes to its service.
Escalate(r, kept) ==
  /\ pc[r] = "count" /\ R!Counted(r)
  /\ PublishAsync(r, kept)
  /\ Goto(r, IF HighRisk(r) THEN "score" ELSE "forwarded")
  /\ UNCHANGED <<req, verdict, decision, redis>>

\* The engine scores the signal of r as v, now or as it did before.
Scores(r, v) ==
  /\ verdict[r] \in {None, v}
  /\ verdict' = [verdict EXCEPT ![r] = v]

\* Mutant of AfterScore: a request is only stopped where it was escalated by
\* path.
AfterScoreByPath(r, v) ==
  IF v = "BLOCK" /\ req[r].path \in HighRiskPaths THEN "block" ELSE "forwarded"

\* Only BLOCK stops a request; anything else tags the response.
AfterScore(r, v) == IF v = "BLOCK" THEN "block" ELSE "forwarded"

\* The engine answers in time.
ScoreReply(r, v) ==
  /\ pc[r] = "score" /\ Scores(r, v)
  /\ decision' = [decision EXCEPT ![r] = v]
  /\ Goto(r, AfterScore(r, v))
  /\ UNCHANGED <<req, published, redis>>

\* Mutant of ScoreUnavailable: an open circuit is asked again.
ScoreUnavailableRetry(r) ==
  /\ pc[r] = "score"
  /\ decision' = [decision EXCEPT ![r] = "UNSCORED"]
  /\ UNCHANGED <<pc, req, verdict, published, redis>>

\* Timeout, open circuit, an error status: the client fails open.
ScoreUnavailable(r) ==
  /\ pc[r] = "score"
  /\ decision' = [decision EXCEPT ![r] = "UNSCORED"]
  /\ Goto(r, "forwarded")
  /\ UNCHANGED <<req, verdict, published, redis>>

Block(r) ==
  /\ pc[r] = "block"
  /\ R!BlockImmediately(ClientIp(r))
  /\ Goto(r, "deny")
  /\ UNCHANGED <<req, verdict, decision, published>>

Deny(r) ==
  /\ pc[r] = "deny"
  /\ Goto(r, "denied")
  /\ UNCHANGED <<req, verdict, decision, published, redis>>

\* A Redis error or timeout, or the caller goes away: the chain is cancelled.
Fail(r) ==
  /\ pc[r] \in Waiting
  /\ Goto(r, "failed")
  /\ IF R!Counting(r) THEN R!Abandon(r) ELSE UNCHANGED redis
  /\ UNCHANGED <<req, verdict, decision, published>>

\* Mutant of AsyncBlock: the scorer lifts a ban when it allows a request.
AsyncBlockOrLift(r) ==
  /\ r \in published /\ Scores(r, "ALLOW")
  /\ blocklist' = [blocklist EXCEPT ![ClientIp(r)] = [val |-> 0, ttl |-> 0]]
  /\ UNCHANGED <<pc, req, decision, published, counter, phase, key, got>>

\* Mutant of AsyncBlock: the scorer bans on a challenge, too.
AsyncBlockSuspect(r) ==
  /\ r \in published /\ ClientIp(r) # Unknown
  /\ Scores(r, "BLOCK") \/ Scores(r, "CHALLENGE")
  /\ R!BlockByConsumer(ClientIp(r))
  /\ UNCHANGED <<pc, req, decision, published>>

\* Environment: the threat engine's consumer scores a published signal; it
\* may do so late, and again after a restart.  Its bans have a TTL of its own.
AsyncBlock(r) ==
  /\ r \in published /\ Scores(r, "BLOCK") /\ ClientIp(r) # Unknown
  /\ R!BlockByConsumer(ClientIp(r))
  /\ UNCHANGED <<pc, req, decision, published>>

Elapse == R!Elapse /\ UNCHANGED gateway

\* What the gateway does by itself, or a time limit makes it do.
Step(r) ==
  \/ CheckBlocked(r) \/ CounterStep(r)
  \/ \E kept \in BOOLEAN : Escalate(r, kept)
  \/ ScoreUnavailable(r) \/ Block(r) \/ Deny(r)

Next ==
  \/ \E r \in Requests :
       \/ \E q \in Inputs : Receive(r, q)
       \/ \E v \in Decisions : ScoreReply(r, v)
       \/ ReadBody(r) \/ Step(r) \/ Fail(r) \/ AsyncBlock(r)
  \/ Elapse

Spec == Init /\ [][Next]_vars

\* Redis answers or fails, the engine's client times out; the engine itself
\* need not ever answer, nothing makes the asynchronous scorer act, and no
\* client need ever finish its body: the join has no time limit.
LiveSpec == Spec /\ \A r \in Requests : WF_vars(Step(r))
-----------------------------------------------------------------------------
(***************************************************************************)
(* Properties                                                              *)
(***************************************************************************)

\* No address is banned for what others send: behind every ban there is a
\* request from that address, accepted by the filter, whose signal the engine
\* blocks.  The address is the claimed one (X-Forwarded-For).
NoInnocentBanned ==
  \A ip \in Clients : R!IsBlocked(ip) =>
    \E r \in Requests :
      pc[r] # "new" /\ ClientIp(r) = ip /\ verdict[r] = "BLOCK"

\* Once the engine's BLOCK has been received, the request never reaches its
\* service, whatever happens to the write of the ban.
BlockNeverForwarded ==
  \A r \in Requests :
    decision[r] = "BLOCK" => pc[r] \in {"block", "deny", "denied", "failed"}

\* Requests that have come as far as counting on r's endpoint for r's client.
Counters(r) ==
  {q \in Requests : /\ phase[<<q, "rate10s">>] # "idle"
                    /\ ClientIp(q) = ClientIp(r)
                    /\ req[q].path = req[r].path}

\* No address is escalated for the traffic of others, nor for its own on other
\* endpoints: a rate never exceeds the INCRs (two a request) of requests that
\* claim the same address on the same endpoint.
RateFromOwnRequests ==
  \A r \in Requests, op \in {"rate10s", "rate60s"} :
    got[<<r, op>>] > 0 => got[<<r, op>>] <= 2 * Cardinality(Counters(r))

\* The gateway and the consumer are configured apart.
ShorterTtl == IF ConsumerTtl < BlocklistTtl THEN ConsumerTtl ELSE BlocklistTtl

\* A ban may be cut short, if the later of its writers has the shorter TTL;
\* then it starts anew with that TTL.  Nothing else takes more from it than
\* time does, so it never ends before the shorter of the two is over.
BanOutlastsShorterTtl ==
  [][\A ip \in Clients : R!IsBlocked(ip) =>
       \/ blocklist'[ip].ttl + 1 >= blocklist[ip].ttl
       \/ blocklist'[ip].ttl = ShorterTtl]_vars

\* A request whose body has come, or that has none, is refused or handed on
\* to its service, even if the engine never answers; only a client that does
\* not finish its body can make it wait.
EveryRequestDecided ==
  \A r \in Requests :
    pc[r] \notin {"new", "body"} ~> pc[r] \in Answered \cup {"body"}
-----------------------------------------------------------------------------
(***************************************************************************)
(* What comments say; the runs show where the code does otherwise.         *)
(***************************************************************************)

\* SecurityProperties: it takes more than the threshold in "requests/10s to a
\* single endpoint from a single IP" to escalate an ordinary request.
EscalationNeedsRate ==
  \A r \in Requests :
    pc[r] = "score" /\ req[r].path \notin HighRiskPaths =>
      Cardinality(Counters(r)) > RateThreshold

\* order-service: "a blocked request should show up in Elasticsearch as
\* blocked"; the way there begins with its publication.
BlockedIsPublished ==
  \A r \in Requests : pc[r] = "blocked" => r \in published
=============================================================================
