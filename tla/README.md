# Specifications of the AI API security firewall

TLA+ models of the firewall in `src/`: a reactive gateway (Java, Spring Cloud
Gateway) that counts, escalates and bans over Redis, a threat engine (Python,
FastAPI) that scores requests synchronously and from Kafka, and an indexer that
ships audit events to Elasticsearch.  TLC checks small instances, TLAPS proves
every safety property the passing runs check, for every value of the constants.

    tlc -workers 2 -config RedisState_windows.cfg MCRedisState.tla  # a run
    tlapm RedisStateProofs.tla                                      # its proofs

`PROJECT.json` lists the runs, the source lines behind every definition, a
mutation of the code that breaks each property, the hazards and the findings.

## The system

A request takes this way:

    client -> ZeroTrustFilter -> backend service
                 |    |    \--HTTP--> threat engine /score      (high risk only)
                 |    \--Kafka api.requests.raw--> kafka_consumer --+
                 |                                  |               |
               Redis <--------- SETEX blocklist ----+   Kafka api.audit.events
                                                                    |
                                              Elasticsearch <-- indexer

| Component | State it keeps | Operations | Interacts with |
|---|---|---|---|
| `RedisStateService` | `blocklist:<ip>`, `count:<ip>:<endpoint>`, `failstreak:<identity>` in Redis | `isBlocked`, `blockImmediately`, `incrementWindowCounter`, `incrementFailedAuthStreak`, `resetFailedAuthStreak` (nobody calls it) | every gateway instance; the consumer writes `blocklist` too |
| `ZeroTrustFilter` | one reactive chain per request | authorise, look at the ban, read the body, count, publish, escalate, ban or forward | Redis, Kafka, threat engine |
| `ThreatEngineClient` | a resilience4j circuit breaker | `score`, `fallback` | threat engine; fails open as UNSCORED |
| `KafkaRequestPublisher` | none (the producer's buffer) | `publishAsync`, fire and forget | topic `api.requests.raw` |
| `model.py`, `features.py` | two trained models, read only | `extract_features`, `score` | called by `/score` and the consumer |
| `kafka_consumer.py` | consumer position, the group's committed offset | start with retries, score, ban, audit | both topics, Redis |
| `indexer.py` | a buffer, position, committed offset | start with retries, buffer, flush on size, on idleness, on exit | topic `api.audit.events`, Elasticsearch |
| `train_model.py` | `models/`: two models and their metadata | generate, fit, write three files | whatever engine loads them |
| `main.py` | the models in memory | `lifespan`: load, then serve and consume; `score` | the files; the gateway's client; the consumer |
| mock services | none | `login`, `create_order`, `checkout` | behind the gateway |
| scripts | none | two attacks, a load test, an audit query | the gateway; Elasticsearch |
| deployment files | | | not modelled, see below |

What is hard here: two requests, and the two window calls of *one* request,
interleave between INCR and EXPIRE of a shared key; any call may fail, time out
or be cancelled half-way; the gateway and the consumer both write bans; the
engine may be silent, and the circuit breaker has to notice both that and the
end of it while calls are cancelled and end late; models are written and read
file by file without a lock; Kafka positions are committed before the work on a record
is done, so kills skip or repeat records; the start-up loops retry on objects
that are already started; the indexer's timer restarts with every event; and
numbers meet their edges between a Java `long`, a Pydantic constraint and a
clipped float.

What makes each part correct:

* *State service*: exactly one call opens a window, its expiry reaches that
  window, nobody extends it, every window closes.
* *Filter*: no address is banned or escalated for what others send, a BLOCK is
  never forwarded, a ban lasts the shorter of its writers' TTLs at least, every
  request whose body has come is decided.
* *Consumer*: the audit trail claims no ban that was not written, offsets never
  rewind nor skip, a record comes again only for a position that was lost
  before its commit, one bad record holds nobody up.
* *Indexer*: only a failed bulk call or a kill costs events, a batch at most;
  an event is indexed no more often than it may have been sent; the wait of a
  buffered event is bounded; the buffer drains.
* *Client*: a silent engine opens the circuit, a half-open circuit can always be
  decided, an engine that is back is asked again.
* *Models*: what engines load while trainings write.  Nothing makes it whole, so
  nothing is claimed of it but that its failures do not outlast themselves at
  the client.
* *End to end*: who is banned stays out, who is refused did something, what was
  blocked can be found.
* *Scoring*: what the gateway builds the engine accepts; deviations are seen on
  either side of a range and cannot be diluted; severity is monotone.

## Modules

| Module | Models | State and actions |
|---|---|---|
| `Redis` | the commands the code uses, on one keyspace | an entry is a value and a TTL in units of time; `Incr` saturates at `CounterCap`, keeps a TTL and gives a new key none |
| `RedisState` | `RedisStateService.java` | `Begin` starts a request's three counter calls; each is `Increment` (INCR), then, if `SetsExpiry`, `SetExpiry` (EXPIRE).  `Abandon` gives a running call up.  `got` is what a call returned |
| `ZeroTrustFilter` | `ZeroTrustFilter.java`, `JwtAuthValidator`, `ThreatEngineClient`, `KafkaRequestPublisher`; the consumer as a second writer of bans | `pc[r]` names the call that request waits for, one action per continuation; contains `RedisState` as instance `R` with requests as callers.  `ReadBody` is the client's doing, all other steps of a chain are `Step` |
| `ThreatConsumer` | `kafka_consumer.py`, `lifespan` in `main.py` | `pc` names the await, every await is a step; offsets are indices of `log`, `current` is the record in the loop's hands.  `GiveUpPosition` (of `Stop` and `Rebalance`) commits or fails to |
| `AuditIndexer` | `indexer.py` | `pc`, with the last flush and `consumer.stop()` as steps of their own; the buffer as offsets, `idle` (the timer of `wait_for`), `age` (of the oldest buffered event, up to `AgeCap`).  `BulkResults` is what a call may store of the buffer, up to `Attempts` copies of each event |
| `Scoring` | `buildSignal`, `RequestSignal`, `features.py`, `model.py` | a pure pipeline in four steps; scores in hundredths, deviations in hundredths rounded up |
| `ThreatEngineClient` | `ThreatEngineClient.java`, the `resilience4j` part of `application.yml` | the circuit, its window of `results`, `permits` while half open, the calls under way in `asking`; a call is `Subscribe`d and ends in `Answer`, `NoAnswer` or `Cancel` |
| `ModelArtifacts` | `train_model.py`, `load`, `lifespan` | `files` holds the number of the training each file is from; writing one is two steps, `OpenFile` truncates and `WriteFile` completes; an engine `Load`s them one by one |
| `EngineCalls` | both together | a call is answered only while the other's `engine = "serving"`, and may go without an answer at any time |
| `ConsumerGroup` | what the consumer and the indexer promise the topic they read | `HandOver` is the next record, `Assign` where a member begins, `Commit`, `Close` and `Vanish` what becomes of its position |
| `Firewall` | mock services, scripts, gateway in outline; contains `ThreatConsumer` and `AuditIndexer` | `step` is what the one request under way waits for; the consumer's events are the indexer's topic |
| `*Proofs` | | TLAPS proofs about the module of that name |
| `MC*` | | instances for TLC: inputs, symmetry |

`ZeroTrustFilter` composes with `RedisState`: all it does to Redis it does by the
state service's actions.  The lemma `UsesRedisState` of its proofs carries the
service's invariants over to the filter.

`ThreatConsumer` and `AuditIndexer` both implement `ConsumerGroup`, their
property `IsConsumerGroup`: two loops that share no code start, fail, stop and
die each in its own way, and seen from the topic are the same thing.  The
refinement mappings read `handed` off the concrete state: the records the
consumer's loop was given; the events of the indexer that are indexed, buffered
or known as lost, so that losing sight of one is not a step of the group.

In both a *setback* is a position that is lost before it was committed: by a
kill, by a commit that fails when the consumer is closed or its partition is
reassigned, or because the process ends before the cancelled task is done
closing (`main.py:40` does not wait for it).  The bounds on what comes twice
count setbacks.

### Abstractions

* A request is what the filter branches on: forwarded and remote address, path,
  whether a body may come, whether its token is valid, its subject.
* In `ZeroTrustFilter` the engine's verdict is arbitrary but the same whoever
  asks, filter or consumer, because both have the same signal scored by the
  same code; `Scoring` shows how the verdict comes about.  With more than
  one version of the model deployed the two could differ.
* TTLs are small numbers of units; time passes for all keys at once.  The
  gateway's ban TTL (`application.yml:62`) and the consumer's
  (`BLOCKLIST_TTL_SECONDS`, `kafka_consumer.py:20`) are configured apart and two
  constants, of which the consumer's is the shorter one in the runs.
* A client is its claimed address: `ZeroTrustFilter.java:233-236` believes
  `X-Forwarded-For`, so "for what others send" means under another claimed
  address; a host can have another one banned.
* One partition per topic: no code relates records of different ones.
* What libraries do is modelled from how the code uses them and marked external
  in the map: Reactor cancels the sibling calls of a failed `Mono.zip`;
  aiokafka assigns partitions some time after `start()`, commits positions at
  any time and in `stop()`, and refuses a second `start()`; the Elasticsearch
  client repeats a bulk call on lost connections and 429, 502, 503, 504; Spring
  Boot's map binding drops slashes and colons of unbracketed keys.
* A `Mono.zip` subscribes to its three counter calls in the order they are
  written, and one connection keeps their INCRs in it (`Sooner`); EXPIREs may
  interleave with anything.
* The filter's publication may be lost at any time (`publishAsync` only logs a
  failure).  `KafkaTemplate.send` can also block its thread while topic
  metadata is missing, although the comment at `KafkaRequestPublisher.java:16`
  rules that out; threads are not modelled.
* Response headers and bodies, logging, and what the models return are left
  out.  A CHALLENGE only tags the response (`tagRisk`): it is forwarded like an
  ALLOW.

## Runs

Twelve runs, seven to pass and five to be violated, each for a question of its own.

| Run | Question | Bounds, and why they are enough |
|---|---|---|
| `redis_windows` | do counter calls interfere, what strands a counter, do windows close? | two callers on one key: six calls, so three are concurrent on the window's key and its second life; windows of 1 and 2 units; calls given up anywhere; callers come back for ever, the counter saturates at 2 |
| `redis_stranded` (violated) | does every counter get an expiry? | the same |
| `gateway_mixed` | is the filter safe in any interleaving, is every request decided? | two requests out of four kinds that take each branch of the filter between them; threshold 1 so that a second request of a client escalates; a gateway TTL of 3 and a consumer TTL of 1, so that a ban can be cut short by more than time |
| `gateway_rate` (violated) | does escalation take the documented rate? | two ordinary requests of one client, threshold 2: INCRs in order give 1, 2 and 3 > 2 |
| `gateway_unaudited` (violated) | is a blocked request published, as an audit event of it needs? | the kinds of `gateway_mixed` |
| `consumer_restarts` | do kills, cancellations, rebalances and failing calls break the audit trail or the offsets, does anything hold the partition up, is it an ordinary consumer group? | two records (the one in process and the one behind), two setbacks, so that one can follow another's recovery, one refused start, any number of stops and rebalances that commit |
| `consumer_retry` (violated) | does the start-up loop reach its end? | one refused `start()` |
| `indexer_batches` | what is lost or indexed twice at most, how long does an event wait, does the buffer drain, is it an ordinary consumer group? | three events in batches of two: a full batch and a remainder, and events that come again beside their first copy or beside new ones; an interval of two units, so that an event can come in the middle of one; bulk calls tried twice, one setback, any number of restarts and rebalances that commit |
| `scoring_edges` | do the numbers hold at their edges? | two fields, values below, on, in and above their ranges, a range without width, negative ages, streaks around the end of an `int` of 3 bits, raw scores on both sides of the training range, probabilities around every threshold |
| `scoring_baselines` (violated) | are the ranges of `application.yml` applied? | the file's keys, unbracketed |
| `engine_calls` | does the circuit follow the engine, and find back to it? | three calls at once, a window of 4 that judges from 3 on, 2 permitted trials (fewer than either, as 5 < 20 < 50 is), two trainings (one in the image, one that rewrites it) and two kills: one of a training, one of the engine |
| `firewall` | does the pipeline work end to end? | a login, an order and a request without a token; a ban of 2 units by the gateway and of 1 by the consumer, an index query of one hit so that a second one crowds it out, batches of two; every call may fail, the producer may repeat an event and the client a bulk call |

`CHECK_DEADLOCK FALSE` appears where the system may come to rest: all requests
answered, all callers idle at their cap, a request scored, the topic's bound
reached.  `BaselinesApply` reads the configuration as the comment at
`SecurityProperties.java:28` describes it; in `scoring_edges` the same ranges
have bracketed keys, as a corrected file would.

### Fairness

* `redis_windows`: INCR and EXPIRE that were sent and not given up are carried
  out, and time passes.  Nothing makes a caller come back or stop coming back.
* `gateway_mixed`: weak fairness of each request's own step (`Step`): Reactor
  runs a continuation once its call has ended, and every call ends.  The
  engine's is ended by `timeout(...)` and `fallback`, Redis' by
  `spring.data.redis.timeout`.  Neither an answer of the engine nor the success
  of a call is assumed, and not that a body arrives: `DataBufferUtils.join`
  (`ZeroTrustFilter.java:104`) has no time limit, a client that never finishes
  its body waits for ever.  `EveryRequestDecided` says that nothing else makes
  a request wait.  "Forwarded" is handed to its service; nothing in the gateway
  bounds how long the service takes.
* `consumer_restarts`, `consumer_retry`: the event loop runs the task; Kafka's
  coordinator assigns the partition; **and whoever operates the system launches
  the process again when it is down**: `docker-compose.yml` has no restart
  policy, so the code alone does not promise that.  `NobodyHeldUp` assumes in
  its premise that clean stops end, else the process could be stopped for ever.
* `indexer_batches`: `wait_for`'s timer runs and fires, a bulk call ends, well
  or not.  No launch, no event and no Elasticsearch success is assumed.
* `engine_calls`: an engine that is launched gets on with loading; high-risk
  requests keep coming, every call ends (at the time limit if not before) and
  time passes.  No launch is assumed, and no training need come, go on or end.
  The premise of `CircuitClosesAgain` says what the gateway cannot bring about:
  that an engine that stopped is launched again (`docker-compose.yml` has no
  restart policy, an operator has to), that the files become readable for good,
  and that from some time on a serving engine fails no call, by a 422, a 5xx or
  a late answer, and no trial is given up.  Without any one of the three TLC
  finds the circuit open for ever.
* `firewall`: consumer and indexer get on with their work or fail at it, the
  timer runs.  No script need send, no answer need come.

### Findings

Each violated run shows a disagreement between the code and what it says of
itself; `PROJECT.json` quotes both.

1. `RedisStateService.java:49`: EXPIRE is a second command.  Given up after
   INCR, the counter never expires and no later call repairs it.
2. `RedisStateService.java:45`: both windows share a key, a request counts
   twice: the second request of a client passes a threshold of two.
3. `kafka_consumer.py:40`: a failed `producer.start()` makes the loop call
   `consumer.start()` on a started consumer for ever.
4. `ZeroTrustFilter.java:90`: what is refused at the door is not published, so
   no audit event shows it as blocked, as `order-service/main.py:5-7` expects.
5. `application.yml:67`: unbracketed map keys are bound without `/` and `:`, so
   no configured numeric range is ever found.

Met on the way, seen in the model but without a run of their own:

* `auto_offset_reset="latest"`: what is published before a group's first
  assignment is not scored, while `README.md:20-21` says every request is.
  `NobodyHeldUp` therefore speaks of records behind `base`.
* `simulate_credential_stuffing.py:18-19` ("a cluster of decision=BLOCK events")
  and `simulate_business_logic_abuse.py:56` ("normal traffic (should ALLOW)") do
  not hold as written: from the first BLOCK on, whichever side wrote the ban, a
  script's requests are refused and leave no event; run within that time after
  the first script, the second one's normal traffic sees 403s only.
  `BlockedStaysOut` states what the code does; the script's comment is about a
  host that is not banned.
* With a `BLOCKLIST_TTL_SECONDS` shorter than the gateway's TTL, the consumer cuts
  short a ban the gateway wrote (SETEX replaces the rest of it); nothing in the
  repository says that the two settings belong together.
* `order-service/main.py:5-7` also says a blocked request never reaches the
  service; when the engine's answer is late the gateway fails open, the consumer
  audits BLOCK, and the service has served the request.
* `retrieve()` counts a 422 as a failure: clients whose tokens are dated ahead
  (see `BuiltSignalsAccepted`) can open the circuit for everybody.
* `test_model.py:16` trains only if `xgboost_model.joblib` is missing; a
  training killed between `train_model.py:149` and `:156` leaves that file
  without metadata, and `load` fails in every later test run (in
  `ModelArtifacts` an engine launched then ends).
* Once `lifespan` has yielded the models are there, so `/score`'s 503 and a
  `/health` without a model cannot be observed.
* A training that runs or is killed while an engine loads leaves it with files of
  two trainings, which it serves with (`ModelArtifacts`).  As shipped the
  generator is seeded and every training learns the same; with
  `generate_dataset` replaced, as its docstring intends, they differ.
* `metadata["feature_order"]` is written and never compared; two trainings with
  different feature orders would be mixed silently.
* `trained_rows` counts the test rows, too.
* The placeholder token of `locustfile.py:21` makes three of four requests of
  the "benign-traffic path" a 401.
* The failed-auth streak counts *every* request and `resetFailedAuthStreak` has
  no caller.
* `model.py:6-15` has the isolation forest for "attack patterns nobody has labeled
  yet -- the zero-day case", a "safety net for novel behavior"; with a weight of
  0.35 it neither blocks nor challenges alone, and a BLOCK takes 10/13 of the
  supervised model (`BlockNeedsKnownPatternHolds`).
* The default `"/api/checkout/**"` of `highRiskEndpoints` is compared with
  `startsWith` and matches nothing; `application.yml` overrides it.
* A ban is keyed by address, so it hits all identities behind it, while
  `README.md:23` speaks of the offending identity.

## Proofs

Every invariant and every action property of a passing run is a theorem of its
specification, for any number of requests, clients, records, events, calls,
setbacks, kills, trainings and script requests.  Each `*Proofs` module has an inductive
invariant `IInv` (or parts of one) that TLC checked before it was proved, and a
lemma per action.  The theorems rest on the ASSUMEs the modules name and on
nothing else:

* TTLs, batch size and intervals are positive, bounds are naturals, `None` is no
  client, the counter's cap exceeds the threshold, the training range is not
  empty;
* the first training exists, and the fields of a body are finitely many
  (`ModelArtifacts`, `Scoring`);
* `PermittedTrials <= MinimumCalls` (`ThreatEngineClient`): `application.yml`
  has 5 and 20, so a half-open circuit is judged by all of its trials, and no
  result beyond them falls out of the window;
* both TTLs are positive and the two addresses differ (`Firewall`);
* `NoOffset` is a positive number (`ConsumerGroup`'s theorems; shown of the
  implementation where they are instantiated).

**RedisState** (`FaultySpec`: calls may be given up).  `OneOpener` and
`OwedToOwnWindow` are not inductive alone: when an entry expires while an EXPIRE
is owed, or a streak's EXPIRE meets a window's key, nothing would relate the two.
The invariant adds `KeyKinds` (a call works on a key of its kind, so streaks
and windows never meet) and `AbsentHasNoTtl`.  The heart is that an owed window
has no TTL yet, so time cannot remove it before its EXPIRE arrives.
`WindowNeverExtended` follows step by step: an EXPIRE hits only a window that has
no expiry.  So does `StrandedOnlyByGivingUp`: an INCR owes the expiry of the
counter it creates, an EXPIRE serves its own key, time leaves alone what lacks
an expiry; what remains is `Abandon`.

**ZeroTrustFilter.**  Each step maps to a step or a stutter of `R!FaultySpec`
(`UsesRedisState`), so the theorem about RedisState, instantiated, gives the
service's invariant for free.  On top: `Untouched` (a request before its counting
has no calls and no telemetry), `BlockHasVerdict` (the filter bans only on the
engine's verdict) and `BanBounded` (no ban exceeds the longer of the two TTLs,
hence writing one anew with it never shortens it, and only the shorter one can)
yield `NoInnocentBanned`, `BlockNeverForwarded` and `BanOutlastsShorterTtl`.

`RateFromOwnRequests` compares a number in Redis with the size of a set of
requests, so its invariant `RInv` counts: a counter's value (`CountBounded`)
and every answer given from it (`GotBounded`) are at most the number of calls that came as
far as their INCR on that key.  An INCR adds one to either side, an expiry only
lowers the counter, and a call never goes back.  Both windows of a request
begin together (`BegunTogether`) on a key that names its address and path, so
these calls are two for each of the client's own requests at most.  `Requests`
may be infinite: those that have come are finitely many.

**ThreatConsumer.**  `CurrentKnown` ties the program counter to the record in
process (before its audit event a blocked client's ban is written),
`PositionWasHandled` says everything between the group's beginning and the
position was handed over; with `OffsetsInLog` they make the audit and offset
properties inductive across stops and kills.  For `RedeliveredOnlyBySetback` the
invariant `HInv` splits the offsets where the group is, or will begin again: what
lies behind was handed over once more than there were setbacks, at most; what
lies ahead has that time still to come, because only a setback moves the point
back.

**AuditIndexer.**  The same split (`IndexedSoOften`) for the copies of an event:
those in the index and those its occurrences in the buffer may still become are
at most `Attempts` for every time it was handed over, which gives
`DuplicatesBounded`.  `LossKnown` says that what is missing is known as lost, and
that every failed bulk call or kill added a batch to that at most, because the
buffer holds no more: `LossBounded`.  `TailKnown` says that as long as there was
no setback the offset a buffer was filled up to is still known, as the position or
as the committed offset, which `BufferIsTail` needs across a rebalance.  `RoomToGet` and `AgeByLength` give `WaitBounded`: while the indexer
waits, each buffered event has been followed within one interval, so the age of
the oldest is at most the buffer's length less one in intervals, plus the present
wait.

**ConsumerGroup.**  That the group is never ahead of its member (`MemberLeads`)
makes `SkipsNothing` inductive and `NeverRewinds` true of every step.  Both
components are proved to implement it, step by step, under their mappings; the
indexer gets `NeverRewinds` from there, instantiated, and has no argument of its
own for it.  It also implies the consumer's `CommittedWasHandled` and
`CommitNeverRewinds`, which are proved directly, too; no run checks these two
beside `IsConsumerGroup`.

**EngineCalls.**  The invariant has a half for each part; that a step of one leaves
the other alone is all the composition needs.  Of the files only the types are
proved.  `PermitsBounded` counts the permissions: late cancellations may
give back some that were never taken, but no more than there are calls.
`Undecided` says a half-open circuit still waits for a result, which makes
`TrialsRemain` inductive.  `SilentTail` says the window ends in as many failures
as calls had no answer since the last that had one, so the call that makes the
silence long enough is one at which the window is judged and fails.

**Scoring.**  The steps are few, the arithmetic is the point: clipping and
`\div` keep order, hence `NormalizeIso` is antitone and stays in 0 .. 100 for
*every* training range and raw score; from this `SeverityIsMonotone` and
`BlockNeedsKnownPattern` (no run checks the latter).  `BuiltSignalsAccepted` rests on the cast keeping what
fits an `int` of any width.  `AnomalousIffOutside` and `PaddingHidesNothing` are
about the greatest deviation of finitely many fields; that a finite set of numbers has a
greatest is itself shown here (`GreatestExists`): strict inclusion of finite sets is
well-founded, so there would be a smallest set without one, and taking an
element out of it gives a smaller.

**Firewall.**  `BansProvoked` follows a ban to its source: every entry in the
blocklist, every blocked record on the topic and the one in the consumer's
hands go back to a request the engine blocks (`Provoked`), and that request
comes before any that could be refused for it.  `BanLasts` adds up the time since the
gateway's ban and the time its entry has left: never less than the shorter TTL,
whoever writes, and time takes from one what it adds to the other.

Only model-checked:

* liveness (`WindowCloses`, `EveryRequestDecided`, `NobodyHeldUp`,
  `BufferDrains`, `CircuitClosesAgain`, `EventFound`): it rests on fairness,
  hence on ENABLED, which the prover does not handle;
* what the violated runs show: a counterexample needs no proof.

`UnknownNeverBanned` is proved and, as it rests on one guard, checked by no run.

## Not modelled

* In `train_model.py` the distributions of the three traffic classes, the split,
  the two fits, the range of scores and the evaluation: a training is a number,
  and `Scoring` takes any range.
* DTOs, `GatewayConfig`, `GatewayApplication`: fields, bean definitions.
* Payloads and waits of the scripts, locust's concurrent users (`gateway_mixed`
  interleaves requests), `/api/auth/register` and the services' `/health`, which
  nothing calls through the gateway.
* Kills and rebalances inside `Firewall`: the runs of the consumer and of the indexer have them.
* Deployment files: they bound the models (no restart policy, one partition is enough) and
  are quoted where they do.  `client_ip` has the type `ip` in the index
  template, so an event of the client "unknown" is rejected by Elasticsearch:
  one of the partial bulk failures of `AuditIndexer`.
* Entropy, user agents and the time of day: further inputs of the two models,
  whose answers are arbitrary here.

## Plan

Done, in this order because each builds on the one before: `Redis`,
`RedisState`, `ZeroTrustFilter` (uses it), `ThreatConsumer`, `AuditIndexer`,
`Scoring`; `ModelArtifacts`, `ThreatEngineClient` and their composition
`EngineCalls`; `Firewall`, which composes consumer, indexer, services and
scripts; `ConsumerGroup`, which consumer and indexer refine.  Proofs cover the
safety of all of these.

Next:

1. That `Firewall`'s consumer and indexer, in the company they have there, still
   take only steps of their own specifications.
2. The training's distributions against what `buildSignal` can produce.
