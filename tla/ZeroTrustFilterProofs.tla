----------------------- MODULE ZeroTrustFilterProofs -----------------------
(***************************************************************************)
(* Proofs about ZeroTrustFilter.  First its types; then that it uses the   *)
(* state service as RedisState describes it, which brings in what          *)
(* RedisStateProofs shows of that service; then, from both, the filter's   *)
(* own safety: whom it bans, for how long, and whom it stops.              *)
(***************************************************************************)
EXTENDS ZeroTrustFilter, FiniteSetTheorems, TLAPS

RP == INSTANCE RedisStateProofs
        WITH Callers <- Requests, Identities <- Clients \cup Subjects

\* The filter's assumptions are those the state service's proofs need.
LEMMA Bounds == RP!CapAssumption /\ RP!TtlAssumption
  BY WindowAssumption DEF RP!CapAssumption, RP!TtlAssumption

\* RedisStateProofs speaks of the same definitions under another name.
LEMMA SameInit == R!Init <=> RP!Init
  BY
  DEF R!Init, RP!Init, R!Calls, RP!Calls, R!Ops, RP!Ops, R!Absent, RP!Absent,
      R!CounterKeys, RP!CounterKeys, R!CountKeys, RP!CountKeys, R!StreakKeys,
      RP!StreakKeys, R!StreakKey, RP!StreakKey, R!CountKey, RP!CountKey,
      R!NoKey, RP!NoKey

\* They take the same steps.
LEMMA SameNext == [R!FaultyNext]_R!vars <=> [RP!FaultyNext]_RP!vars
  BY
  DEF R!FaultyNext, RP!FaultyNext, R!Next, RP!Next, R!CallStep, RP!CallStep,
      R!Begin, RP!Begin, R!Increment, RP!Increment, R!SetExpiry, RP!SetExpiry,
      R!BlockImmediately, RP!BlockImmediately, R!BlockByConsumer,
      RP!BlockByConsumer, R!ResetFailedAuthStreak,
      RP!ResetFailedAuthStreak, R!Abandon, RP!Abandon, R!Elapse, RP!Elapse,
      R!Counting, RP!Counting, R!InFlight, RP!InFlight, R!Calls, RP!Calls,
      R!Ops, RP!Ops, R!KeyOf, RP!KeyOf, R!CountKey, RP!CountKey, R!StreakKey,
      RP!StreakKey, R!TtlOf, RP!TtlOf, R!SetsExpiry, RP!SetsExpiry, R!Bumped,
      RP!Bumped, R!Incr, RP!Incr, R!Expire, RP!Expire, R!HasKey, RP!HasKey,
      R!SetEx, RP!SetEx, R!Del, RP!Del, R!Absent, RP!Absent, R!Passed,
      RP!Passed, R!Elapsed, RP!Elapsed, R!vars, RP!vars

\* So they are the same specification.
LEMMA SameSpec == R!FaultySpec <=> RP!FaultySpec
  BY SameInit, SameNext, PTL DEF R!FaultySpec, RP!FaultySpec

\* And they mean the same types.
LEMMA SameTypes == R!TypeOK <=> RP!TypeOK
  BY
  DEF R!TypeOK, RP!TypeOK, R!Entry, RP!Entry, R!Calls, RP!Calls, R!Ops,
      RP!Ops, R!Phases, RP!Phases, R!CounterKeys, RP!CounterKeys, R!CountKeys,
      RP!CountKeys, R!StreakKeys, RP!StreakKeys, R!StreakKey, RP!StreakKey,
      R!CountKey, RP!CountKey, R!NoKey, RP!NoKey
-----------------------------------------------------------------------------
(***************************************************************************)
(* Types                                                                   *)
(***************************************************************************)
\* The filter's own variables.
GatewayTypeOK ==
  /\ pc \in [Requests -> {"new"} \cup Waiting \cup Answered]
  /\ req \in [Requests -> Inputs \cup {None}]
  /\ verdict \in [Requests -> Decisions \cup {None}]
  /\ decision \in [Requests -> Decisions \cup {"UNSCORED", None}]
  /\ published \subseteq Requests

\* A request that is under way, or published, has arrived.
Arrived == \A r \in Requests : pc[r] # "new" => req[r] \in Inputs
PublishedArrived == \A r \in published : pc[r] # "new"

TInv == GatewayTypeOK /\ Arrived /\ PublishedArrived

\* What the filter derives from a request is what the state service takes.
LEMMA InputShape ==
  ASSUME NEW r \in Requests, req[r] \in Inputs
  PROVE  /\ ClientIp(r) \in Clients
         /\ req[r].path \in Endpoints
         /\ IdentityKey(r) \in Clients \cup Subjects
  BY InputAssumption DEF Request, ClientIp, IdentityKey

\* The filter starts well-typed, with no request.
LEMMA InitTInv == Init => TInv
  BY DEF Init, TInv, GatewayTypeOK, Arrived, PublishedArrived

\* Every step keeps the filter's own variables well-typed.
LEMMA NextTInv == TInv /\ [Next]_vars => TInv'
<1> SUFFICES ASSUME TInv, [Next]_vars PROVE TInv'
  OBVIOUS
<1> USE DEF TInv, GatewayTypeOK, Arrived, PublishedArrived, Goto, Waiting,
            Answered, Refused
<1>1. ASSUME NEW r \in Requests, NEW q \in Inputs, Receive(r, q) PROVE TInv'
  BY <1>1 DEF Receive
<1>2. ASSUME NEW r \in Requests, CheckBlocked(r) PROVE TInv'
  BY <1>2 DEF CheckBlocked, ContinuePipeline
<1>3. ASSUME NEW r \in Requests, ReadBody(r) PROVE TInv'
  BY <1>3 DEF ReadBody, ContinuePipeline
<1>4. ASSUME NEW r \in Requests, CounterStep(r) PROVE TInv'
  BY <1>4 DEF CounterStep, gateway
<1>5. ASSUME NEW r \in Requests, NEW kept \in BOOLEAN, Escalate(r, kept)
      PROVE  TInv'
  BY <1>5 DEF Escalate, PublishAsync
<1>6. ASSUME NEW r \in Requests, NEW v \in Decisions, ScoreReply(r, v)
      PROVE  TInv'
  BY <1>6 DEF ScoreReply, Scores, AfterScore
<1>7. ASSUME NEW r \in Requests, ScoreUnavailable(r) PROVE TInv'
  BY <1>7 DEF ScoreUnavailable
<1>8. ASSUME NEW r \in Requests, Block(r) \/ Deny(r) \/ Fail(r) PROVE TInv'
  BY <1>8 DEF Block, Deny, Fail
<1>9. ASSUME NEW r \in Requests, AsyncBlock(r) PROVE TInv'
  BY <1>9 DEF AsyncBlock, Scores, Decisions
<1>10. CASE Elapse \/ UNCHANGED vars
  BY <1>10 DEF Elapse, gateway, vars
<1>11. QED
  BY <1>1, <1>2, <1>3, <1>4, <1>5, <1>6, <1>7, <1>8, <1>9, <1>10
  DEF Next, Step
-----------------------------------------------------------------------------
(***************************************************************************)
(* The state service                                                       *)
(***************************************************************************)
\* Starting the pipeline is starting three counter calls.
LEMMA BeginRefines ==
  ASSUME TInv, NEW r \in Requests, pc[r] # "new", ContinuePipeline(r)
  PROVE  R!FaultyNext
  BY InputShape DEF TInv, Arrived, ContinuePipeline, R!FaultyNext, R!Next

\* Every step of the filter is a step of the state service, or none.
LEMMA StepRefines == TInv /\ [Next]_vars => [R!FaultyNext]_R!vars
<1> SUFFICES ASSUME TInv, [Next]_vars PROVE R!FaultyNext \/ UNCHANGED redis
  BY DEF R!vars, redis
<1>1. ASSUME NEW r \in Requests, CheckBlocked(r)
      PROVE  R!FaultyNext \/ UNCHANGED redis
  BY <1>1, BeginRefines DEF CheckBlocked
<1>2. ASSUME NEW r \in Requests, ReadBody(r) PROVE R!FaultyNext
  BY <1>2, BeginRefines DEF ReadBody
<1>3. ASSUME NEW r \in Requests, CounterStep(r) PROVE R!FaultyNext
  <2>1. PICK op \in R!Ops : R!Increment(<<r, op>>) \/ R!SetExpiry(<<r, op>>)
    BY <1>3 DEF CounterStep
  <2>2. <<r, op>> \in R!Calls
    BY DEF R!Calls
  <2>3. QED
    BY <2>1, <2>2 DEF R!FaultyNext, R!Next, R!CallStep
<1>4. ASSUME NEW r \in Requests, pc[r] # "new",
             \/ R!BlockImmediately(ClientIp(r))
             \/ R!BlockByConsumer(ClientIp(r))
      PROVE  R!FaultyNext
  BY <1>4, InputShape DEF TInv, Arrived, R!FaultyNext, R!Next
<1>5. ASSUME NEW r \in Requests, Fail(r)
      PROVE  R!FaultyNext \/ UNCHANGED redis
  BY <1>5 DEF Fail, R!FaultyNext
<1>6. CASE Elapse
  BY <1>6 DEF Elapse, R!FaultyNext, R!Next
<1>7. ASSUME NEW r \in Requests, AsyncBlock(r) PROVE R!FaultyNext
  BY <1>4, <1>7 DEF AsyncBlock, TInv, PublishedArrived
<1>8. QED
  BY <1>1, <1>2, <1>3, <1>4, <1>5, <1>6, <1>7
  DEF Next, Step, Receive, Escalate, ScoreReply, ScoreUnavailable, Block,
      Deny, vars, redis

\* So what is proved of the state service's own specification may be used of
\* the state service inside the filter.
LEMMA UsesRedisState == Spec => R!FaultySpec
<1>1. Init => R!Init
  BY DEF Init
<1>2. QED
  BY <1>1, InitTInv, NextTInv, StepRefines, PTL
  DEF Spec, R!FaultySpec

\* What is proved of the service holds inside the filter.
LEMMA ServiceInvariant == Spec => []RP!IInv
  BY UsesRedisState, SameSpec, Bounds, RP!Invariance, PTL

\* Every variable, the service's included, keeps its type.
THEOREM TypeCorrect == Spec => []TypeOK
<1>1. TInv /\ RP!IInv => TypeOK
  BY SameTypes DEF TInv, GatewayTypeOK, TypeOK, RP!IInv
<1>2. QED
  BY <1>1, InitTInv, NextTInv, ServiceInvariant, PTL DEF Spec
-----------------------------------------------------------------------------
(***************************************************************************)
(* The filter's safety                                                     *)
(***************************************************************************)

\* Before it counts, and when it is refused, a request has left no trace.
Untouched ==
  \A r \in Requests : pc[r] \in {"new", "check", "body"} \cup Refused =>
    /\ \A op \in R!Ops : phase[<<r, op>>] = "idle"
    /\ r \notin published

\* The filter bans for a request the engine's verdict blocks.
BlockHasVerdict == \A r \in Requests : pc[r] = "block" => verdict[r] = "BLOCK"

\* No ban outlasts a fresh one of the longer setting, so a writer with that
\* setting never shortens it.
LongerTtl == IF ConsumerTtl < BlocklistTtl THEN BlocklistTtl ELSE ConsumerTtl
BanBounded == \A ip \in Clients : blocklist[ip].ttl <= LongerTtl

\* The inductive safety invariant, beside TInv and the service's.
SInv ==
  /\ Untouched /\ BlockHasVerdict /\ BanBounded
  /\ BlockNeverForwarded /\ NoInnocentBanned

\* What the proofs need of the service's types.
ServiceTypeOK ==
  /\ blocklist \in [Clients -> R!Entry]
  /\ DOMAIN phase = Requests \X R!Ops

\* The service's invariant gives those types.
LEMMA ServiceTypes == RP!IInv => ServiceTypeOK
  BY SameTypes DEF RP!IInv, R!TypeOK, R!Calls, ServiceTypeOK

\* Ageing by one unit bans nobody and takes one unit of a ban, at most.
LEMMA PassedEntry ==
  ASSUME NEW e \in R!Entry
  PROVE  /\ R!Passed(e).val > 0 => e.val > 0
         /\ R!Passed(e).ttl <= e.ttl /\ R!Passed(e).ttl + 1 >= e.ttl
<1>1. CASE e.ttl = 0
  BY <1>1 DEF R!Passed, R!Entry
<1>2. CASE e.ttl = 1
  BY <1>2 DEF R!Passed, R!Entry, R!Absent
<1>3. CASE e.ttl > 1
  BY <1>3 DEF R!Passed, R!Entry
<1>4. QED
  BY <1>1, <1>2, <1>3 DEF R!Entry

\* Without requests and bans the safety invariant holds.
LEMMA InitSInv == Init => SInv
<1> SUFFICES ASSUME Init PROVE SInv
  OBVIOUS
<1>1. \A ip \in Clients : blocklist[ip].val = 0 /\ blocklist[ip].ttl = 0
  BY DEF Init, R!Init, R!Absent
<1>2. BanBounded /\ NoInnocentBanned
  BY <1>1, WindowAssumption
  DEF BanBounded, LongerTtl, NoInnocentBanned, R!IsBlocked, R!HasKey
<1>3. BlockNeverForwarded
  BY InputAssumption DEF Init, BlockNeverForwarded, Decisions
<1>4. Untouched /\ BlockHasVerdict
  BY DEF Init, R!Init, R!Calls, Untouched, BlockHasVerdict
<1>5. QED
  BY <1>2, <1>3, <1>4 DEF SInv

\* No step leaves a trace of a request that stays before its counters.
LEMMA NextUntouched ==
  ASSUME TInv, ServiceTypeOK, Untouched, [Next]_vars
  PROVE  Untouched'
<1> USE DEF TInv, GatewayTypeOK, ServiceTypeOK, Untouched, Refused, Goto
<1>1. ASSUME NEW r \in Requests, NEW q \in Inputs, Receive(r, q)
      PROVE  Untouched'
  BY <1>1 DEF Receive, redis
<1>2. ASSUME NEW r \in Requests, ContinuePipeline(r) PROVE Untouched'
  BY <1>2 DEF ContinuePipeline, R!Begin, R!Calls
<1>3. ASSUME NEW r \in Requests, CheckBlocked(r) PROVE Untouched'
  BY <1>2, <1>3 DEF CheckBlocked, redis
<1>4. ASSUME NEW r \in Requests, CounterStep(r) PROVE Untouched'
  BY <1>4 DEF CounterStep, gateway, R!Increment, R!SetExpiry, R!Calls
<1>5. ASSUME NEW r \in Requests, NEW kept \in BOOLEAN, Escalate(r, kept)
      PROVE  Untouched'
  BY <1>5 DEF Escalate, PublishAsync, redis
<1>6. ASSUME NEW r \in Requests, NEW v \in Decisions, ScoreReply(r, v)
      PROVE  Untouched'
  BY <1>6 DEF ScoreReply, AfterScore, redis
<1>7. ASSUME NEW r \in Requests, ScoreUnavailable(r) \/ Deny(r)
      PROVE  Untouched'
  BY <1>7 DEF ScoreUnavailable, Deny, redis
<1>8. ASSUME NEW r \in Requests, Block(r) PROVE Untouched'
  BY <1>8 DEF Block, R!BlockImmediately
<1>9. ASSUME NEW r \in Requests, Fail(r) PROVE Untouched'
  BY <1>9 DEF Fail, R!Abandon, R!InFlight, R!Calls, redis
<1>10. ASSUME NEW r \in Requests, AsyncBlock(r) PROVE Untouched'
  BY <1>10 DEF AsyncBlock, R!BlockByConsumer
<1>11. CASE Elapse \/ UNCHANGED vars
  BY <1>11 DEF Elapse, R!Elapse, gateway, vars, redis
<1>12. QED
  BY <1>1, <1>2, <1>3, <1>4, <1>5, <1>6, <1>7, <1>8, <1>9, <1>10, <1>11
  DEF Next, Step, ReadBody

\* A blocked request only moves from the ban to the refusal.
LEMMA NextVerdict ==
  ASSUME TInv, BlockHasVerdict, BlockNeverForwarded, [Next]_vars
  PROVE  BlockHasVerdict' /\ BlockNeverForwarded'
<1> USE DEF TInv, GatewayTypeOK, BlockHasVerdict, BlockNeverForwarded, Goto
<1> DEFINE Goal == BlockHasVerdict' /\ BlockNeverForwarded'
<1>1. ASSUME NEW r \in Requests, NEW q \in Inputs, Receive(r, q) PROVE Goal
  BY <1>1 DEF Receive
<1>2. ASSUME NEW r \in Requests, CheckBlocked(r) PROVE Goal
  BY <1>2 DEF CheckBlocked, ContinuePipeline
<1>3. ASSUME NEW r \in Requests, ReadBody(r) \/ CounterStep(r) PROVE Goal
  BY <1>3 DEF ReadBody, ContinuePipeline, CounterStep, gateway
<1>4. ASSUME NEW r \in Requests, NEW kept \in BOOLEAN, Escalate(r, kept)
      PROVE  Goal
  BY <1>4 DEF Escalate, PublishAsync
<1>5. ASSUME NEW r \in Requests, NEW v \in Decisions, ScoreReply(r, v)
      PROVE  Goal
  BY <1>5 DEF ScoreReply, Scores, AfterScore
<1>6. ASSUME NEW r \in Requests, ScoreUnavailable(r) PROVE Goal
  BY <1>6 DEF ScoreUnavailable
<1>7. ASSUME NEW r \in Requests, Block(r) \/ Deny(r) \/ Fail(r) PROVE Goal
  BY <1>7 DEF Block, Deny, Fail, Waiting
<1>8. ASSUME NEW r \in Requests, AsyncBlock(r) PROVE Goal
  BY <1>8 DEF AsyncBlock, Scores
<1>9. CASE Elapse \/ UNCHANGED vars
  BY <1>9 DEF Elapse, gateway, vars
<1>10. QED
  BY <1>1, <1>2, <1>3, <1>4, <1>5, <1>6, <1>7, <1>8, <1>9 DEF Next, Step

\* A request whose signal the engine blocks stays one.
Offender(r) == pc[r] # "new" /\ verdict[r] = "BLOCK"

\* An offender remains one, and remains the same client.
LEMMA OffenderStays ==
  ASSUME TInv, [Next]_vars, NEW r \in Requests, Offender(r)
  PROVE  Offender(r)' /\ ClientIp(r)' = ClientIp(r)
<1> USE DEF TInv, GatewayTypeOK, Offender, Goto
<1>1. pc'[r] # "new" /\ req'[r] = req[r]
  BY DEF Next, Step, Receive, CheckBlocked, ContinuePipeline, ReadBody,
         CounterStep, Escalate, ScoreReply, AfterScore, ScoreUnavailable,
         Block, Deny, Fail, AsyncBlock, Elapse, gateway, vars
<1>2. verdict'[r] = "BLOCK"
  BY InputAssumption
  DEF Next, Step, Receive, CheckBlocked, ContinuePipeline, ReadBody,
      CounterStep, Escalate, ScoreReply, Scores, Decisions, ScoreUnavailable,
      Block, Deny, Fail, AsyncBlock, Elapse, gateway, vars
<1>3. QED
  BY <1>1, <1>2 DEF ClientIp

\* Where a ban can come from, and how long it may be.
LEMMA BanOrigin ==
  ASSUME TInv, ServiceTypeOK, BlockHasVerdict, BanBounded, [Next]_vars,
         NEW ip \in Clients
  PROVE  /\ blocklist'[ip].ttl <= LongerTtl
         /\ R!IsBlocked(ip) => \/ blocklist'[ip].ttl + 1 >= blocklist[ip].ttl
                               \/ blocklist'[ip].ttl = ShorterTtl
         /\ R!IsBlocked(ip)' => \/ R!IsBlocked(ip)
                                \/ \E r \in Requests :
                                     Offender(r)' /\ ClientIp(r)' = ip
<1> DEFINE Goal ==
      /\ blocklist'[ip].ttl <= LongerTtl
      /\ R!IsBlocked(ip) => \/ blocklist'[ip].ttl + 1 >= blocklist[ip].ttl
                            \/ blocklist'[ip].ttl = ShorterTtl
      /\ R!IsBlocked(ip)' => \/ R!IsBlocked(ip)
                             \/ \E r \in Requests :
                                  Offender(r)' /\ ClientIp(r)' = ip
<1>1. /\ blocklist[ip] \in R!Entry /\ blocklist[ip].ttl \in Nat
      /\ blocklist[ip].ttl <= LongerTtl /\ LongerTtl \in Nat
  BY WindowAssumption DEF ServiceTypeOK, BanBounded, LongerTtl, R!Entry
<1>2. CASE blocklist' = blocklist
  BY <1>1, <1>2 DEF R!IsBlocked, R!HasKey
<1>3. CASE Elapse
  <2>1. blocklist'[ip] = R!Passed(blocklist[ip])
    BY <1>3 DEF Elapse, R!Elapse, R!Elapsed, ServiceTypeOK
  <2>2. R!Passed(blocklist[ip]).ttl \in Nat
    BY <1>1 DEF R!Passed, R!Absent, R!Entry
  <2>3. QED
    BY <2>1, <2>2, <1>1, PassedEntry DEF R!IsBlocked, R!HasKey
<1>4. ASSUME NEW r \in Requests, NEW t \in {BlocklistTtl, ConsumerTtl},
             blocklist' = R!SetEx(blocklist, ClientIp(r), t),
             Offender(r)', ClientIp(r)' = ClientIp(r)
      PROVE  Goal
  <2>1. t <= LongerTtl /\ (t = LongerTtl \/ t = ShorterTtl) /\ t \in Nat
    BY WindowAssumption DEF LongerTtl, ShorterTtl
  <2>2. CASE ip = ClientIp(r)
    <3>1. blocklist'[ip].ttl = t
      BY <1>4, <2>2 DEF R!SetEx, ServiceTypeOK
    <3>2. QED
      BY <1>1, <1>4, <2>1, <2>2, <3>1
  <2>3. CASE ip # ClientIp(r)
    <3>1. blocklist'[ip] = blocklist[ip]
      BY <1>4, <2>3 DEF R!SetEx, ServiceTypeOK
    <3>2. QED
      BY <1>1, <3>1 DEF R!IsBlocked, R!HasKey
  <2>4. QED
    BY <2>2, <2>3
<1>5. ASSUME NEW r \in Requests, Block(r) PROVE Goal
  <2>1. Offender(r)
    BY <1>5 DEF Block, BlockHasVerdict, Offender
  <2>2. QED
    BY <1>4, <1>5, <2>1, OffenderStays DEF Block, R!BlockImmediately
<1>6. ASSUME NEW r \in Requests, AsyncBlock(r) PROVE Goal
  <2>1. Offender(r)' /\ ClientIp(r)' = ClientIp(r)
    BY <1>6 DEF AsyncBlock, Scores, Offender, ClientIp, TInv, GatewayTypeOK,
                PublishedArrived
  <2>2. QED
    BY <1>4, <1>6, <2>1 DEF AsyncBlock, R!BlockByConsumer
<1>7. CASE \E r \in Requests : Fail(r)
  BY <1>2, <1>7 DEF Fail, R!Abandon, redis
<1>8. CASE \E r \in Requests : CheckBlocked(r) \/ ReadBody(r) \/ CounterStep(r)
  BY <1>2, <1>8 DEF CheckBlocked, ReadBody, ContinuePipeline, CounterStep,
                    R!Begin, R!Increment, R!SetExpiry, redis
<1>9. QED
  BY <1>2, <1>3, <1>5, <1>6, <1>7, <1>8
  DEF Next, Step, Receive, Escalate, ScoreReply, ScoreUnavailable, Deny,
      vars, redis

\* Every step keeps the safety invariant.
LEMMA NextSInv ==
  TInv /\ RP!IInv /\ SInv /\ [Next]_vars => SInv'
<1> SUFFICES ASSUME TInv, RP!IInv, SInv, [Next]_vars PROVE SInv'
  OBVIOUS
<1>1. Untouched' /\ BlockHasVerdict' /\ BlockNeverForwarded'
  BY NextUntouched, NextVerdict, ServiceTypes DEF SInv
<1>2. BanBounded'
  BY BanOrigin, ServiceTypes DEF SInv, BanBounded
<1>3. NoInnocentBanned'
  <2>1. ASSUME NEW ip \in Clients, R!IsBlocked(ip)'
        PROVE  \E r \in Requests : Offender(r)' /\ ClientIp(r)' = ip
    <3>1. CASE R!IsBlocked(ip)
      BY <3>1, OffenderStays DEF SInv, NoInnocentBanned, Offender
    <3>2. CASE ~R!IsBlocked(ip)
      BY <2>1, <3>2, BanOrigin, ServiceTypes DEF SInv
    <3>3. QED
      BY <3>1, <3>2
  <2>2. QED
    BY <2>1 DEF NoInnocentBanned, Offender
<1>4. QED
  BY <1>1, <1>2, <1>3 DEF SInv

\* Types, the service's invariant and the filter's safety hold throughout.
LEMMA Safety == Spec => [](TInv /\ RP!IInv /\ SInv)
  BY InitTInv, NextTInv, ServiceInvariant, InitSInv, NextSInv, PTL DEF Spec

\* Behind every ban there is a request of that very client whose signal the
\* engine blocks, whichever side of the pipeline wrote the ban.
THEOREM NoInnocentBannedHolds == Spec => []NoInnocentBanned
  BY Safety, PTL DEF SInv

\* A request whose BLOCK the filter has received never reaches its service,
\* also when writing the ban fails.
THEOREM BlockNeverForwardedHolds == Spec => []BlockNeverForwarded
  BY Safety, PTL DEF SInv

\* Whatever the two settings are: beside time only the writer with the shorter
\* one shortens a ban, and the ban then starts anew with that TTL.
THEOREM BanOutlastsShorterTtlHolds == Spec => BanOutlastsShorterTtl
<1>1. TInv /\ RP!IInv /\ SInv /\ [Next]_vars =>
        [\A ip \in Clients : R!IsBlocked(ip) =>
           \/ blocklist'[ip].ttl + 1 >= blocklist[ip].ttl
           \/ blocklist'[ip].ttl = ShorterTtl]_vars
  BY BanOrigin, ServiceTypes DEF SInv
<1>2. QED
  BY <1>1, Safety, PTL DEF Spec, BanOutlastsShorterTtl
-----------------------------------------------------------------------------
(***************************************************************************)
(* Rates                                                                   *)
(***************************************************************************)

RateOps == {"rate10s", "rate60s"}
RateCalls == Requests \X RateOps

\* Requests whose counter calls have begun; their calls that have come as far
\* as the INCR of k, under the given phases and keys.
ActiveIn(phases) == {q \in Requests : phases[<<q, "rate10s">>] # "idle"}
CameIn(phases, keys, k) ==
  {c \in RateCalls : phases[c] \notin {"idle", "incr"} /\ keys[c] = k}

Came(k) == CameIn(phase, key, k)

\* The calls of a request begin together, on the keys of that request.
BegunTogether ==
  \A r \in Requests, op \in R!Ops :
    phase[<<r, op>>] # "idle" =>
      /\ phase[<<r, "rate10s">>] # "idle"
      /\ key[<<r, op>>] = R!KeyOf(op, ClientIp(r), req[r].path,
                                  IdentityKey(r))

\* Every INCR of a window counter is of a call that came as far.
CountBounded ==
  \A k \in R!CountKeys : counter[k].val <= Cardinality(Came(k))

GotBounded ==
  \A c \in RateCalls :
    got[c] > 0 => /\ phase[c] # "idle"
                  /\ got[c] <= Cardinality(Came(key[c]))

\* Requests arrive one by one, so no assumption is needed for the first part.
RInv ==
  /\ IsFiniteSet(ActiveIn(phase)) /\ BegunTogether
  /\ CountBounded /\ GotBounded

\* They are finitely many while finitely many requests are active, and they
\* only become more.
LEMMA CameCounts ==
  ASSUME NEW phases, NEW keys, NEW k, IsFiniteSet(ActiveIn(phases)),
         \A c \in RateCalls :
           phases[c] # "idle" => phases[<<c[1], "rate10s">>] # "idle"
  PROVE  /\ IsFiniteSet(CameIn(phases, keys, k))
         /\ Cardinality(CameIn(phases, keys, k)) \in Nat
<1>1. IsFiniteSet(RateOps)
  <2>1. IsFiniteSet({"rate10s"})
    BY FS_Singleton
  <2>2. RateOps = {"rate10s"} \cup {"rate60s"}
    BY DEF RateOps
  <2>3. QED
    BY <2>1, <2>2, FS_AddElement
<1>2. IsFiniteSet(ActiveIn(phases) \X RateOps)
  BY <1>1, FS_Product
<1>3. CameIn(phases, keys, k) \in SUBSET (ActiveIn(phases) \X RateOps)
  BY DEF CameIn, ActiveIn, RateCalls
<1>4. QED
  BY <1>2, <1>3, FS_Subset, FS_CardinalityType

LEMMA CameGrows ==
  ASSUME NEW S, NEW T, IsFiniteSet(T), S \subseteq T
  PROVE  Cardinality(S) <= Cardinality(T) /\ Cardinality(S) \in Nat
BY FS_Subset, FS_CardinalityType

\* What a step of the filter does to the counters and the requests behind
\* them.
RateStep ==
  \/ \E r \in Requests :
       /\ pc[r] # "new" /\ \A op \in R!Ops : phase[<<r, op>>] = "idle"
       /\ R!Begin(r, ClientIp(r), req[r].path, IdentityKey(r))
  \/ \E c \in R!Calls : R!Increment(c)
  \/ \E c \in R!Calls : R!SetExpiry(c)
  \/ \E r \in Requests : R!Abandon(r)
  \/ R!Elapse
  \/ UNCHANGED <<counter, phase, key, got>>

LEMMA StepRates ==
  ASSUME TInv, Untouched, [Next]_vars
  PROVE  /\ RateStep
         /\ \A q \in Requests : pc[q] # "new" => req'[q] = req[q]
<1> DEFINE Kept == \A q \in Requests : pc[q] # "new" => req'[q] = req[q]
           Goal == RateStep /\ Kept
<1>1. ASSUME NEW r \in Requests, NEW q \in Inputs, Receive(r, q) PROVE Goal
  BY <1>1 DEF Receive, redis, RateStep, TInv, GatewayTypeOK
<1>2. ASSUME NEW r \in Requests, pc[r] \in {"check", "body"},
             ContinuePipeline(r)
      PROVE  Goal
  BY <1>2 DEF ContinuePipeline, Untouched, RateStep
<1>3. ASSUME NEW r \in Requests, CheckBlocked(r) PROVE Goal
  BY <1>2, <1>3 DEF CheckBlocked, RateStep, redis
<1>4. ASSUME NEW r \in Requests, ReadBody(r) PROVE Goal
  BY <1>2, <1>4 DEF ReadBody
<1>5. ASSUME NEW r \in Requests, CounterStep(r) PROVE Goal
  BY <1>5 DEF CounterStep, gateway, RateStep, R!Calls
<1>6. ASSUME NEW r \in Requests, Fail(r) PROVE Goal
  BY <1>6 DEF Fail, RateStep, redis
<1>7. ASSUME NEW r \in Requests, Block(r) \/ AsyncBlock(r) PROVE Goal
  BY <1>7 DEF Block, AsyncBlock, R!BlockImmediately, R!BlockByConsumer,
              RateStep
<1>8. CASE Elapse
  BY <1>8 DEF Elapse, gateway, RateStep
<1>9. CASE \/ \E r \in Requests :
                \/ \E v \in Decisions : ScoreReply(r, v)
                \/ \E kept \in BOOLEAN : Escalate(r, kept)
                \/ ScoreUnavailable(r) \/ Deny(r)
           \/ UNCHANGED vars
  BY <1>9 DEF ScoreReply, Escalate, ScoreUnavailable, Deny, gateway, redis,
              vars, RateStep
<1>10. QED
  BY <1>1, <1>3, <1>4, <1>5, <1>6, <1>7, <1>8, <1>9 DEF Next, Step

\* A step that leaves the requests that have arrived as they are.
RContext ==
  /\ TypeOK /\ TInv /\ Untouched /\ RInv
  /\ \A q \in Requests : pc[q] # "new" => req'[q] = req[q]

\* The calls that have begun stay on the keys of their request.
LEMMA KeysStay ==
  ASSUME RContext, NEW r \in Requests, NEW op \in R!Ops,
         pc[r] # "new" \/ phase[<<r, op>>] # "idle"
  PROVE  R!KeyOf(op, ClientIp(r), req[r].path, IdentityKey(r))'
           = R!KeyOf(op, ClientIp(r), req[r].path, IdentityKey(r))
<1>1. pc[r] # "new"
  BY DEF RContext, Untouched
<1>2. req'[r] = req[r]
  BY <1>1 DEF RContext
<1>3. QED
  BY <1>2 DEF R!KeyOf, R!CountKey, R!StreakKey, ClientIp, IdentityKey

\* The calls that have come so far, now and after a step that takes none back.
LEMMA CameStays ==
  ASSUME RContext, IsFiniteSet(ActiveIn(phase')), BegunTogether',
         \A c \in R!Calls :
           phase[c] \notin {"idle", "incr"} =>
             phase'[c] \notin {"idle", "incr"} /\ key'[c] = key[c],
         NEW k
  PROVE  /\ IsFiniteSet(CameIn(phase', key', k))
         /\ Came(k) \subseteq CameIn(phase', key', k)
         /\ Cardinality(Came(k)) \in Nat
         /\ Cardinality(CameIn(phase', key', k)) \in Nat
         /\ Cardinality(Came(k)) <= Cardinality(CameIn(phase', key', k))
<1>1. \A c \in RateCalls : phase'[c] # "idle" =>
                             phase'[<<c[1], "rate10s">>] # "idle"
  <2>1. \A r \in Requests, op \in R!Ops :
          phase'[<<r, op>>] # "idle" => phase'[<<r, "rate10s">>] # "idle"
    BY DEF BegunTogether
  <2>2. \A c \in RateCalls : /\ c[1] \in Requests /\ c[2] \in R!Ops
                             /\ c = <<c[1], c[2]>>
    BY DEF RateCalls, RateOps, R!Ops
  <2>3. QED
    BY <2>1, <2>2
<1>2. IsFiniteSet(CameIn(phase', key', k))
      /\ Cardinality(CameIn(phase', key', k)) \in Nat
  BY <1>1, CameCounts
<1>3. Came(k) \subseteq CameIn(phase', key', k)
  BY DEF Came, CameIn, RateCalls, RateOps, R!Calls, R!Ops
<1>4. QED
  BY <1>2, <1>3, CameGrows

\* A step in which no counter call begins keeps those that have.
LEMMA BegunStays ==
  ASSUME RContext,
         \A c \in R!Calls : /\ phase'[c] # "idle" <=> phase[c] # "idle"
                            /\ key'[c] = key[c]
  PROVE  IsFiniteSet(ActiveIn(phase')) /\ BegunTogether'
<1>1. \A q \in Requests, op \in R!Ops :
        /\ phase'[<<q, op>>] # "idle" <=> phase[<<q, op>>] # "idle"
        /\ key'[<<q, op>>] = key[<<q, op>>]
  BY DEF R!Calls
<1>2. ActiveIn(phase') = ActiveIn(phase)
  BY <1>1 DEF ActiveIn, R!Ops
<1>3. BegunTogether'
  <2> SUFFICES ASSUME NEW r \in Requests, NEW op \in R!Ops,
                      phase'[<<r, op>>] # "idle"
               PROVE  /\ phase'[<<r, "rate10s">>] # "idle"
                      /\ key'[<<r, op>>]
                           = R!KeyOf(op, ClientIp(r), req[r].path,
                                     IdentityKey(r))'
    BY DEF BegunTogether
  <2>1. phase[<<r, op>>] # "idle"
    BY <1>1
  <2>2. /\ phase[<<r, "rate10s">>] # "idle"
        /\ key[<<r, op>>] = R!KeyOf(op, ClientIp(r), req[r].path,
                                    IdentityKey(r))
    BY <2>1 DEF RContext, RInv, BegunTogether
  <2>3. QED
    BY <1>1, <2>1, <2>2, KeysStay DEF R!Ops
<1>4. QED
  BY <1>2, <1>3 DEF RContext, RInv

\* A step that counts nothing keeps the bounds.
LEMMA NotCounting ==
  ASSUME RContext,
         \A c \in R!Calls :
           /\ phase'[c] # "idle" <=> phase[c] # "idle"
           /\ phase[c] \notin {"idle", "incr"} =>
                phase'[c] \notin {"idle", "incr"}
           /\ key'[c] = key[c]
           /\ got'[c] = got[c] \/ got'[c] = 0,
         \A k \in R!CountKeys :
           counter'[k].val \in Nat /\ counter'[k].val <= counter[k].val
  PROVE  RInv'
<1>1. IsFiniteSet(ActiveIn(phase')) /\ BegunTogether'
  BY BegunStays
<1>2. ASSUME NEW k
      PROVE  /\ Cardinality(Came(k)) \in Nat
             /\ Cardinality(CameIn(phase', key', k)) \in Nat
             /\ Cardinality(Came(k)) <= Cardinality(CameIn(phase', key', k))
  BY <1>1, CameStays
<1>3. CountBounded'
  <2> SUFFICES ASSUME NEW k \in R!CountKeys
               PROVE  counter'[k].val <= Cardinality(CameIn(phase', key', k))
    BY DEF CountBounded, Came
  <2>1. counter[k].val \in Nat /\ counter[k].val <= Cardinality(Came(k))
    BY DEF RContext, RInv, CountBounded, TypeOK, R!TypeOK, R!Entry,
           R!CounterKeys
  <2>2. QED
    BY <1>2, <2>1
<1>4. GotBounded'
  <2> SUFFICES ASSUME NEW c \in RateCalls, got'[c] > 0
               PROVE  /\ phase'[c] # "idle"
                      /\ got'[c] <= Cardinality(CameIn(phase', key', key'[c]))
    BY DEF GotBounded, Came
  <2>1. c \in R!Calls
    BY DEF RateCalls, RateOps, R!Calls, R!Ops
  <2>2. got'[c] = got[c] /\ got[c] \in Nat
    BY <2>1 DEF RContext, TypeOK, R!TypeOK
  <2>3. phase[c] # "idle" /\ got[c] <= Cardinality(Came(key[c]))
    BY <2>2 DEF RContext, RInv, GotBounded
  <2>4. QED
    BY <1>2, <2>1, <2>2, <2>3
<1>5. QED
  BY <1>1, <1>3, <1>4 DEF RInv

\* The calls of a request begin: none of them has counted yet.
LEMMA BeginCounts ==
  ASSUME RContext, NEW r \in Requests, pc[r] # "new",
         \A op \in R!Ops : phase[<<r, op>>] = "idle",
         R!Begin(r, ClientIp(r), req[r].path, IdentityKey(r))
  PROVE  RInv'
<1>1. \A q \in Requests, op \in R!Ops :
        /\ <<q, op>> \in R!Calls
        /\ q = r => /\ phase'[<<q, op>>] = "incr"
                    /\ key'[<<q, op>>] = R!KeyOf(op, ClientIp(r), req[r].path,
                                                 IdentityKey(r))
                    /\ got'[<<q, op>>] = 0
        /\ q # r => /\ phase'[<<q, op>>] = phase[<<q, op>>]
                    /\ key'[<<q, op>>] = key[<<q, op>>]
                    /\ got'[<<q, op>>] = got[<<q, op>>]
  BY DEF R!Begin, R!Calls
<1>2. IsFiniteSet(ActiveIn(phase'))
  <2>1. ActiveIn(phase') = ActiveIn(phase) \cup {r}
    BY <1>1 DEF ActiveIn, R!Ops
  <2>2. QED
    BY <2>1, FS_AddElement DEF RContext, RInv
<1>3. BegunTogether'
  <2> SUFFICES ASSUME NEW q \in Requests, NEW op \in R!Ops,
                      phase'[<<q, op>>] # "idle"
               PROVE  /\ phase'[<<q, "rate10s">>] # "idle"
                      /\ key'[<<q, op>>]
                           = R!KeyOf(op, ClientIp(q), req[q].path,
                                     IdentityKey(q))'
    BY DEF BegunTogether
  <2>1. CASE q = r
    BY <1>1, <2>1, KeysStay DEF R!Ops
  <2>2. CASE q # r
    <3>1. phase[<<q, op>>] # "idle"
      BY <1>1, <2>2
    <3>2. /\ phase[<<q, "rate10s">>] # "idle"
          /\ key[<<q, op>>] = R!KeyOf(op, ClientIp(q), req[q].path,
                                      IdentityKey(q))
      BY <3>1 DEF RContext, RInv, BegunTogether
    <3>3. QED
      BY <1>1, <2>2, <3>1, <3>2, KeysStay DEF R!Ops
  <2>3. QED
    BY <2>1, <2>2
<1>4. \A c \in R!Calls :
        phase[c] \notin {"idle", "incr"} =>
          phase'[c] \notin {"idle", "incr"} /\ key'[c] = key[c]
  BY <1>1 DEF R!Calls
<1>5. ASSUME NEW k
      PROVE  /\ Cardinality(Came(k)) \in Nat
             /\ Cardinality(CameIn(phase', key', k)) \in Nat
             /\ Cardinality(Came(k)) <= Cardinality(CameIn(phase', key', k))
  BY <1>2, <1>3, <1>4, CameStays
<1>6. CountBounded'
  <2> SUFFICES ASSUME NEW k \in R!CountKeys
               PROVE  counter'[k].val <= Cardinality(CameIn(phase', key', k))
    BY DEF CountBounded, Came
  <2>1. counter[k].val \in Nat /\ counter[k].val <= Cardinality(Came(k))
    BY DEF RContext, RInv, CountBounded, TypeOK, R!TypeOK, R!Entry,
           R!CounterKeys
  <2>2. counter' = counter
    BY DEF R!Begin
  <2>3. QED
    BY <1>5, <2>1, <2>2
<1>7. GotBounded'
  <2> SUFFICES ASSUME NEW c \in RateCalls, got'[c] > 0
               PROVE  /\ phase'[c] # "idle"
                      /\ got'[c] <= Cardinality(CameIn(phase', key', key'[c]))
    BY DEF GotBounded, Came
  <2>1. /\ c \in R!Calls /\ c[1] \in Requests /\ c[2] \in R!Ops
        /\ c = <<c[1], c[2]>>
    BY DEF RateCalls, RateOps, R!Calls, R!Ops
  <2>2. /\ c[1] # r /\ got'[c] = got[c] /\ got[c] \in Nat
        /\ key'[c] = key[c] /\ phase'[c] = phase[c]
    BY <1>1, <2>1 DEF RContext, TypeOK, R!TypeOK
  <2>3. phase[c] # "idle" /\ got[c] <= Cardinality(Came(key[c]))
    BY <2>2 DEF RContext, RInv, GotBounded
  <2>4. QED
    BY <1>5, <2>2, <2>3
<1>8. QED
  BY <1>2, <1>3, <1>6, <1>7 DEF RInv

\* An INCR makes one more call come as far, and counts no more than that.
LEMMA IncrementCounts ==
  ASSUME RContext, NEW c \in R!Calls, R!Increment(c)
  PROVE  RInv'
<1> DEFINE n == R!Bumped(counter, key[c])
           r == c[1]
           op == c[2]
<1>1. /\ r \in Requests /\ op \in R!Ops /\ c = <<r, op>>
      /\ phase[c] = "incr" /\ pc[r] # "new"
  BY DEF R!Increment, R!Calls, RContext, Untouched
<1>2. key[c] = R!KeyOf(op, ClientIp(r), req[r].path, IdentityKey(r))
  BY <1>1 DEF RContext, RInv, BegunTogether
<1>3. /\ ClientIp(r) \in Clients /\ req[r].path \in Endpoints
      /\ IdentityKey(r) \in Clients \cup Subjects
  BY <1>1, InputShape DEF RContext, TInv, Arrived
<1>4. /\ key[c] \in R!CounterKeys
      /\ IF op = "failStreak" THEN key[c] \notin R!CountKeys
         ELSE key[c] \in R!CountKeys
  BY <1>2, <1>3
  DEF R!KeyOf, R!CounterKeys, R!CountKeys, R!StreakKeys, R!CountKey,
      R!StreakKey
<1>5. /\ n \in Nat /\ n <= counter[key[c]].val + 1
      /\ counter[key[c]].val \in Nat
  BY <1>4, WindowAssumption
  DEF R!Bumped, RContext, TypeOK, R!TypeOK, R!Entry
<1>6. /\ counter' = [counter EXCEPT ![key[c]].val = n]
      /\ got' = [got EXCEPT ![c] = n]
      /\ phase' = [phase EXCEPT ![c] =
                     IF R!SetsExpiry(c[2], n) THEN "expire" ELSE "done"]
      /\ key' = key
  BY DEF R!Increment, R!Incr
<1> HIDE DEF n, r, op
<1>7. /\ phase'[c] \in {"expire", "done"}
      /\ \A d \in R!Calls : d # c => phase'[d] = phase[d]
      /\ \A d \in R!Calls : key'[d] = key[d]
  BY <1>6 DEF RContext, TypeOK, R!TypeOK
<1>8. IsFiniteSet(ActiveIn(phase')) /\ BegunTogether'
  <2>1. \A d \in R!Calls : /\ phase'[d] # "idle" <=> phase[d] # "idle"
                           /\ key'[d] = key[d]
    BY <1>1, <1>7
  <2>2. QED
    BY <2>1, BegunStays
<1>9. ASSUME NEW k
      PROVE  /\ IsFiniteSet(CameIn(phase', key', k))
             /\ Came(k) \subseteq CameIn(phase', key', k)
             /\ Cardinality(Came(k)) \in Nat
             /\ Cardinality(CameIn(phase', key', k)) \in Nat
             /\ Cardinality(Came(k)) <= Cardinality(CameIn(phase', key', k))
  <2>1. \A d \in R!Calls :
          phase[d] \notin {"idle", "incr"} =>
            phase'[d] \notin {"idle", "incr"} /\ key'[d] = key[d]
    BY <1>1, <1>7
  <2>2. QED
    BY <1>8, <2>1, CameStays
<1>10. CASE op = "failStreak"
  <2>1. c \notin RateCalls /\ \A d \in RateCalls : d \in R!Calls /\ d # c
    BY <1>1, <1>10 DEF RateCalls, RateOps, R!Calls, R!Ops
  <2>2. \A k \in R!CountKeys : counter'[k] = counter[k]
    BY <1>4, <1>6, <1>10 DEF RContext, TypeOK, R!TypeOK, R!CounterKeys
  <2>3. \A d \in RateCalls : got'[d] = got[d] /\ phase'[d] = phase[d]
    BY <1>6, <1>7, <2>1 DEF RContext, TypeOK, R!TypeOK
  <2>4. CountBounded'
    <3> SUFFICES ASSUME NEW k \in R!CountKeys
                 PROVE  counter'[k].val <= Cardinality(CameIn(phase', key', k))
      BY DEF CountBounded, Came
    <3>1. counter[k].val \in Nat /\ counter[k].val <= Cardinality(Came(k))
      BY DEF RContext, RInv, CountBounded, TypeOK, R!TypeOK, R!Entry,
             R!CounterKeys
    <3>2. QED
      BY <1>9, <2>2, <3>1
  <2>5. GotBounded'
    <3> SUFFICES ASSUME NEW d \in RateCalls, got'[d] > 0
                 PROVE  /\ phase'[d] # "idle"
                        /\ got'[d]
                             <= Cardinality(CameIn(phase', key', key'[d]))
      BY DEF GotBounded, Came
    <3>1. got[d] \in Nat /\ key'[d] = key[d]
      BY <1>7, <2>1 DEF RContext, TypeOK, R!TypeOK
    <3>2. phase[d] # "idle" /\ got[d] <= Cardinality(Came(key[d]))
      BY <2>3 DEF RContext, RInv, GotBounded
    <3>3. QED
      BY <1>9, <2>3, <3>1, <3>2
  <2>6. QED
    BY <1>8, <2>4, <2>5 DEF RInv
<1>11. CASE op # "failStreak"
  <2> DEFINE before == Came(key[c])
             after == CameIn(phase', key', key[c])
  <2>1. c \in RateCalls /\ key[c] \in R!CountKeys
    BY <1>1, <1>4, <1>11 DEF RateCalls, RateOps, R!Ops
  <2>2. c \in after /\ c \notin before
    BY <1>1, <1>7, <2>1 DEF Came, CameIn
  <2>3. /\ IsFiniteSet(after) /\ before \subseteq after
        /\ Cardinality(before) \in Nat /\ Cardinality(after) \in Nat
    BY <1>9
  <2> HIDE DEF before, after
  <2>4. Cardinality(before) + 1 <= Cardinality(after)
    <3>1. IsFiniteSet(after \ {c})
          /\ Cardinality(after \ {c}) = Cardinality(after) - 1
      BY <2>2, <2>3, FS_RemoveElement
    <3>2. before \subseteq after \ {c}
      BY <2>2, <2>3
    <3>3. Cardinality(before) <= Cardinality(after \ {c})
      BY <3>1, <3>2, CameGrows
    <3>4. QED
      BY <2>3, <3>1, <3>3
  <2>5. n <= Cardinality(after)
    <3>1. counter[key[c]].val <= Cardinality(before)
      BY <2>1 DEF RContext, RInv, CountBounded, before
    <3>2. QED
      BY <1>5, <2>3, <2>4, <3>1
  <2>6. CountBounded'
    <3> SUFFICES ASSUME NEW k \in R!CountKeys
                 PROVE  counter'[k].val <= Cardinality(CameIn(phase', key', k))
      BY DEF CountBounded, Came
    <3>1. counter[k].val \in Nat /\ counter[k].val <= Cardinality(Came(k))
      BY DEF RContext, RInv, CountBounded, TypeOK, R!TypeOK, R!Entry,
             R!CounterKeys
    <3>2. CASE k = key[c]
      <4>1. counter'[k].val = n
        BY <1>4, <1>6, <3>2 DEF RContext, TypeOK, R!TypeOK, R!Entry
      <4>2. QED
        BY <2>5, <3>2, <4>1 DEF after
    <3>3. CASE k # key[c]
      <4>1. counter'[k] = counter[k]
        BY <1>4, <1>6, <3>3 DEF RContext, TypeOK, R!TypeOK, R!CounterKeys
      <4>2. QED
        BY <1>9, <3>1, <4>1
    <3>4. QED
      BY <3>2, <3>3
  <2>7. GotBounded'
    <3> SUFFICES ASSUME NEW d \in RateCalls, got'[d] > 0
                 PROVE  /\ phase'[d] # "idle"
                        /\ got'[d]
                             <= Cardinality(CameIn(phase', key', key'[d]))
      BY DEF GotBounded, Came
    <3>1. d \in R!Calls /\ got[d] \in Nat /\ key'[d] = key[d]
      BY <1>7
      DEF RateCalls, RateOps, R!Calls, R!Ops, RContext, TypeOK, R!TypeOK
    <3>2. CASE d = c
      <4>1. got'[d] = n
        BY <1>6, <3>1, <3>2 DEF RContext, TypeOK, R!TypeOK
      <4>2. QED
        BY <1>7, <2>5, <3>1, <3>2, <4>1 DEF after
    <3>3. CASE d # c
      <4>1. got'[d] = got[d] /\ phase'[d] = phase[d]
        BY <1>6, <1>7, <3>1, <3>3 DEF RContext, TypeOK, R!TypeOK
      <4>2. phase[d] # "idle" /\ got[d] <= Cardinality(Came(key[d]))
        BY <4>1 DEF RContext, RInv, GotBounded
      <4>3. QED
        BY <1>9, <3>1, <4>1, <4>2
    <3>4. QED
      BY <3>2, <3>3
  <2>8. QED
    BY <1>8, <2>6, <2>7 DEF RInv
<1>12. QED
  BY <1>10, <1>11

\* Every step keeps the bounds on the rates.
LEMMA NextRInv ==
  TypeOK /\ TInv /\ Untouched /\ RInv /\ [Next]_vars => RInv'
<1> SUFFICES ASSUME TypeOK, TInv, Untouched, RInv, [Next]_vars
             PROVE  RInv'
  OBVIOUS
<1>1. RateStep /\ RContext
  BY StepRates DEF RContext
<1>2. \A k \in R!CountKeys : /\ k \in R!CounterKeys /\ counter[k] \in R!Entry
                             /\ counter[k].val \in Nat
  BY DEF TypeOK, R!TypeOK, R!CounterKeys, R!Entry
<1>3. \A c \in R!Calls : got[c] \in Nat
  BY DEF TypeOK, R!TypeOK
<1>4. ASSUME NEW c \in R!Calls, R!SetExpiry(c) PROVE RInv'
  <2>1. \A k \in R!CountKeys : counter'[k].val = counter[k].val
    BY <1>2, <1>4 DEF R!SetExpiry, R!Expire, TypeOK, R!TypeOK, R!Entry
  <2>2. \A d \in R!Calls :
          /\ phase'[d] # "idle" <=> phase[d] # "idle"
          /\ phase[d] \notin {"idle", "incr"} =>
               phase'[d] \notin {"idle", "incr"}
          /\ key'[d] = key[d] /\ got'[d] = got[d]
    BY <1>4 DEF R!SetExpiry, TypeOK, R!TypeOK
  <2>3. QED
    BY <1>1, <1>2, <2>1, <2>2, NotCounting
<1>5. ASSUME NEW r \in Requests, R!Abandon(r) PROVE RInv'
  <2>1. \A d \in R!Calls :
          /\ phase'[d] # "idle" <=> phase[d] # "idle"
          /\ phase[d] \notin {"idle", "incr"} =>
               phase'[d] \notin {"idle", "incr"}
          /\ key'[d] = key[d] /\ (got'[d] = got[d] \/ got'[d] = 0)
    BY <1>5 DEF R!Abandon, R!InFlight
  <2>2. counter' = counter
    BY <1>5 DEF R!Abandon
  <2>3. QED
    BY <1>1, <1>2, <2>1, <2>2, NotCounting
<1>6. CASE R!Elapse
  <2>1. ASSUME NEW k \in R!CountKeys
        PROVE  counter'[k].val \in Nat /\ counter'[k].val <= counter[k].val
    <3>1. counter'[k] = R!Passed(counter[k])
      BY <1>2, <1>6 DEF R!Elapse, R!Elapsed, TypeOK, R!TypeOK
    <3>2. R!Passed(counter[k]).val \in {0, counter[k].val}
      BY DEF R!Passed, R!Absent
    <3>3. QED
      BY <1>2, <3>1, <3>2
  <2>2. UNCHANGED <<phase, key, got>>
    BY <1>6 DEF R!Elapse
  <2>3. QED
    BY <1>1, <2>1, <2>2, NotCounting
<1>7. CASE UNCHANGED <<counter, phase, key, got>>
  <2>1. \A k \in R!CountKeys :
          counter'[k].val \in Nat /\ counter'[k].val <= counter[k].val
    BY <1>2, <1>7
  <2>2. QED
    BY <1>1, <1>7, <2>1, NotCounting
<1>8. QED
  BY <1>1, <1>4, <1>5, <1>6, <1>7, BeginCounts, IncrementCounts DEF RateStep

LEMMA InitRInv == Init => RInv
<1> SUFFICES ASSUME Init PROVE RInv
  OBVIOUS
<1>1. /\ \A c \in R!Calls : phase[c] = "idle" /\ got[c] = 0
      /\ \A k \in R!CountKeys : counter[k].val = 0
  BY DEF Init, R!Init, R!CounterKeys, R!Absent
<1>2. ActiveIn(phase) = {} /\ \A k : Came(k) = {}
  BY <1>1
  DEF ActiveIn, Came, CameIn, RateCalls, RateOps, R!Calls, R!Ops
<1>3. IsFiniteSet(ActiveIn(phase)) /\ CountBounded
  BY <1>1, <1>2, FS_EmptySet DEF CountBounded
<1>4. BegunTogether /\ GotBounded
  BY <1>1
  DEF BegunTogether, GotBounded, RateCalls, RateOps, R!Calls, R!Ops
<1>5. QED
  BY <1>3, <1>4 DEF RInv

\* The calls behind a request's rate are of its own client, on its own path,
\* two of each request.
LEMMA RatesAreOwn == TypeOK /\ TInv /\ Untouched /\ RInv => RateFromOwnRequests
<1> SUFFICES ASSUME TypeOK, TInv, Untouched, RInv,
                    NEW r \in Requests, NEW op \in RateOps,
                    got[<<r, op>>] > 0
             PROVE  got[<<r, op>>] <= 2 * Cardinality(Counters(r))
  BY DEF RateFromOwnRequests, RateOps
<1> DEFINE k == key[<<r, op>>]
           own == Counters(r)
<1>1. op \in R!Ops /\ op # "failStreak" /\ <<r, op>> \in RateCalls
  BY DEF RateOps, RateCalls, R!Ops
<1>2. phase[<<r, op>>] # "idle" /\ got[<<r, op>>] <= Cardinality(Came(k))
  BY <1>1 DEF RInv, GotBounded
<1>3. k = R!CountKey(ClientIp(r), req[r].path)
  BY <1>1, <1>2 DEF RInv, BegunTogether, R!KeyOf
<1>4. own \subseteq ActiveIn(phase)
  BY DEF Counters, ActiveIn
<1>5. IsFiniteSet(own) /\ Cardinality(own) \in Nat
  BY <1>4, FS_Subset, FS_CardinalityType DEF RInv
<1> HIDE DEF k, own
<1>6. Came(k) \subseteq own \X RateOps
  <2> SUFFICES ASSUME NEW c \in Came(k) PROVE c \in own \X RateOps
    OBVIOUS
  <2>1. /\ c[1] \in Requests /\ c[2] \in RateOps /\ c = <<c[1], c[2]>>
        /\ phase[c] # "idle" /\ key[c] = k
        /\ c[2] \in R!Ops /\ c[2] # "failStreak"
    BY DEF Came, CameIn, RateCalls, RateOps, R!Ops
  <2>2. /\ phase[<<c[1], "rate10s">>] # "idle"
        /\ k = R!CountKey(ClientIp(c[1]), req[c[1]].path)
    BY <2>1 DEF RInv, BegunTogether, R!KeyOf
  <2>3. ClientIp(c[1]) = ClientIp(r) /\ req[c[1]].path = req[r].path
    BY <1>3, <2>2 DEF R!CountKey
  <2>4. c[1] \in own
    BY <2>1, <2>2, <2>3 DEF own, Counters
  <2>5. QED
    BY <2>1, <2>4
<1>7. IsFiniteSet(RateOps) /\ Cardinality(RateOps) = 2
  <2>1. IsFiniteSet({"rate10s"}) /\ Cardinality({"rate10s"}) = 1
    BY FS_Singleton
  <2>2. RateOps = {"rate10s"} \cup {"rate60s"}
    BY DEF RateOps
  <2>3. "rate60s" \notin {"rate10s"}
    OBVIOUS
  <2>4. IsFiniteSet(RateOps)
        /\ Cardinality(RateOps) = Cardinality({"rate10s"}) + 1
    BY <2>1, <2>2, <2>3, FS_AddElement
  <2>5. QED
    BY <2>1, <2>4
<1>8. IsFiniteSet(own \X RateOps)
      /\ Cardinality(own \X RateOps) = Cardinality(own) * 2
  BY <1>5, <1>7, FS_Product
<1>9. Cardinality(Came(k)) <= Cardinality(own) * 2
      /\ Cardinality(Came(k)) \in Nat
  BY <1>6, <1>8, CameGrows
<1>10. got[<<r, op>>] \in Nat
  BY <1>1 DEF TypeOK, R!TypeOK, R!Calls
<1>11. QED
  BY <1>2, <1>5, <1>9, <1>10 DEF k, own

\* However many requests there are and however their counter calls interleave
\* and fail, a rate counts nothing but the client's own requests to that
\* endpoint, each of them twice.
THEOREM RateFromOwnRequestsHolds == Spec => []RateFromOwnRequests
<1>1. TypeOK /\ TInv /\ SInv /\ RInv /\ [Next]_vars => RInv'
  BY NextRInv DEF SInv
<1>2. TypeOK /\ TInv /\ SInv /\ RInv => RateFromOwnRequests
  BY RatesAreOwn DEF SInv
<1>3. QED
  BY <1>1, <1>2, InitRInv, TypeCorrect, Safety, PTL DEF Spec
=============================================================================
