--------------------------- MODULE FirewallProofs ---------------------------
(***************************************************************************)
(* Proofs about Firewall, for every plan of the scripts and any two TTLs   *)
(* of a ban: refusals follow a request that the engine blocks, and whom    *)
(* the gateway has banned stays out for the shorter of the two.            *)
(***************************************************************************)
EXTENDS Firewall, FiniteSetTheorems, TLAPS

Outcomes ==
  {"none", "unauthorized", "refused", "accepted", "rejected", "blocked",
   "error", "timeout", "unsent"}

\* The types of what the two properties are about.
DoorTypeOK ==
  /\ turn \in Nat \ {0}
  /\ step \in {"ready", "door", "publish", "score", "forward", "ban", "deny"}
  /\ step # "ready" => turn \in Turns
  /\ outcome \in [Turns -> Outcomes]
  /\ verdict \in [Turns -> Verdicts \cup {"none"}]

\* The engine is known to block a request already sent: an earlier one, or
\* the one under way once its signal is made.
Provoked ==
  \E j \in Turns :
    /\ verdict[j] = "BLOCK"
    /\ \/ j < turn
       \/ j = turn /\ step \notin {"ready", "door", "publish"}

\* Every ban, and everything that may yet become one, was provoked: an entry
\* in the blocklist, a record on the topic, the record the consumer is at.
BansProvoked ==
  /\ blocklist \in [{Host, Unknown} -> Entry]
  /\ HasKey(blocklist, Host) => Provoked
  /\ log \in Seq(C!Record) /\ position \in Nat
  /\ \A o \in 1 .. Len(log) : log[o].verdict = "BLOCK" => Provoked
  /\ pc = "setex" =>
       current \in 1 .. Len(log) /\ log[current].verdict = "BLOCK"
  /\ step = "ban" => verdict[turn] = "BLOCK"

\* What is refused is over, and was provoked before.
RefusalsOver ==
  \A i \in Turns : outcome[i] = "refused" =>
    i < turn /\ \E j \in 1 .. i - 1 : verdict[j] = "BLOCK"

\* Until ShorterTtl has passed since the gateway's ban the entry is there,
\* and what it has left covers the rest of the time.
BanLasts ==
  /\ sinceBan \in 0 .. ShorterTtl
  /\ sinceBan < ShorterTtl =>
       /\ HasKey(blocklist, Host)
       /\ blocklist[Host].ttl + sinceBan >= ShorterTtl

\* The inductive invariant.
IInv == DoorTypeOK /\ BansProvoked /\ RefusalsOver /\ BanLasts
-----------------------------------------------------------------------------
(***************************************************************************)
(* Lemmas: the keyspace, the requests still to come, an answer.            *)
(***************************************************************************)

\* The shorter TTL is one of the two, and as long as neither is shorter.
LEMMA TtlTypes ==
  /\ BlocklistTtl \in Nat \ {0} /\ ConsumerTtl \in Nat \ {0}
  /\ ShorterTtl \in Nat \ {0}
  /\ ShorterTtl <= BlocklistTtl /\ ShorterTtl <= ConsumerTtl
  BY FirewallAssumption DEF ShorterTtl

\* A ban with an expiry is there for as long; nothing else changes.
LEMMA BanWritten ==
  ASSUME NEW s \in [{Host, Unknown} -> Entry], NEW ip \in {Host, Unknown},
         NEW ttl \in {BlocklistTtl, ConsumerTtl}
  PROVE  LET t == SetEx(s, ip, ttl) IN
           /\ t \in [{Host, Unknown} -> Entry]
           /\ HasKey(t, ip) /\ t[ip].ttl = ttl
           /\ ip = Host \/ t[Host] = s[Host]
<1>1. [val |-> 1, ttl |-> ttl] \in Entry
  BY CapAssumption, TtlTypes DEF Entry
<1>2. QED
  BY <1>1, FirewallAssumption DEF SetEx, HasKey

\* Time creates no entry, and takes at most one unit from what is left of one.
LEMMA BanAges ==
  ASSUME NEW s \in [{Host, Unknown} -> Entry]
  PROVE  /\ Elapsed(s) \in [{Host, Unknown} -> Entry]
         /\ HasKey(Elapsed(s), Host) => HasKey(s, Host)
         /\ HasKey(s, Host) /\ s[Host].ttl > 1 =>
              /\ HasKey(Elapsed(s), Host)
              /\ Elapsed(s)[Host].ttl = s[Host].ttl - 1
<1>1. ASSUME NEW e \in Entry
      PROVE  /\ Passed(e) \in Entry /\ (Passed(e).val > 0 => e.val > 0)
             /\ e.ttl > 1 => /\ Passed(e).val = e.val
                            /\ Passed(e).ttl = e.ttl - 1
  <2>1. CASE e.ttl = 0
    BY <2>1 DEF Passed, Entry
  <2>2. CASE e.ttl = 1
    BY <2>2, CapAssumption DEF Passed, Entry, Absent
  <2>3. CASE e.ttl > 1
    BY <2>3 DEF Passed, Entry
  <2>4. QED
    BY <2>1, <2>2, <2>3 DEF Entry
<1>2. \A k \in {Host, Unknown} : Elapsed(s)[k] = Passed(s[k])
  BY DEF Elapsed
<1>3. Elapsed(s) \in [{Host, Unknown} -> Entry]
  BY <1>1 DEF Elapsed
<1>4. QED
  BY <1>1, <1>2, <1>3 DEF HasKey

\* A script has a number of requests left to send.
LEMMA RestCounted ==
  ASSUME NEW i \in Turns PROVE Cardinality(Rest(i)) \in Nat
<1>1. Len(Plan) \in Nat /\ i \in Nat
  BY FirewallAssumption DEF Turns
<1>2. IsFiniteSet(i + 1 .. Len(Plan))
  BY <1>1, FS_Interval
<1>3. IsFiniteSet(Rest(i))
  BY <1>2, FS_Subset DEF Rest
<1>4. QED
  BY <1>3, FS_CardinalityType

\* A request that is over leaves what was provoked provoked, and a refusal
\* stays one of an earlier request, for an earlier reason.
LEMMA AnswerKeeps ==
  ASSUME DoorTypeOK, RefusalsOver, turn \in Turns,
         NEW o \in Outcomes, AnsweredBy(o), UNCHANGED verdict,
         o = "refused" => step = "door" /\ Provoked
  PROVE  DoorTypeOK' /\ RefusalsOver' /\ (Provoked => Provoked')
<1>1. turn \in Nat /\ turn' = turn + 1 /\ step' = "ready"
  BY DEF AnsweredBy, DoorTypeOK
<1>2. DoorTypeOK'
  BY <1>1 DEF AnsweredBy, DoorTypeOK
<1>3. Provoked => Provoked'
  BY <1>1 DEF Provoked, Turns
<1>4. ASSUME NEW i \in Turns, outcome'[i] = "refused"
      PROVE  i < turn' /\ \E j \in 1 .. i - 1 : verdict'[j] = "BLOCK"
  <2>1. CASE i = turn
    <3>1. o = "refused"
      BY <1>4, <2>1 DEF AnsweredBy, DoorTypeOK
    <3>2. PICK j \in Turns : verdict[j] = "BLOCK" /\ j < turn
      BY <3>1 DEF Provoked
    <3>3. j \in 1 .. i - 1
      BY <1>1, <2>1, <3>2 DEF Turns
    <3>4. QED
      BY <1>1, <2>1, <3>2, <3>3
  <2>2. CASE i # turn
    <3>1. outcome[i] = "refused"
      BY <1>4, <2>2 DEF AnsweredBy, DoorTypeOK
    <3>2. i < turn /\ \E j \in 1 .. i - 1 : verdict[j] = "BLOCK"
      BY <3>1 DEF RefusalsOver
    <3>3. QED
      BY <1>1, <3>2 DEF Turns
  <2>3. QED
    BY <2>1, <2>2
<1>5. QED
  BY <1>2, <1>3, <1>4 DEF RefusalsOver

\* Bans and records are none of the scripts' business: their steps keep the
\* rest of the invariant if what was provoked stays so.
LEMMA DoorKeeps ==
  ASSUME IInv, Provoked => Provoked', step' # "ban",
         UNCHANGED <<blocklist, sinceBan, log, position, current, pc>>
  PROVE  BansProvoked' /\ BanLasts'
  BY DEF IInv, BansProvoked, BanLasts, HasKey

-----------------------------------------------------------------------------
(***************************************************************************)
(* Every step preserves the inductive invariant.                           *)
(***************************************************************************)

\* Nothing sent, nobody banned: the invariant holds.
LEMMA InitInv == Init => IInv
<1> SUFFICES ASSUME Init PROVE IInv
  OBVIOUS
<1>1. DoorTypeOK /\ RefusalsOver
  BY DEF Init, DoorTypeOK, RefusalsOver, Outcomes
<1>2. BansProvoked
  BY CapAssumption DEF Init, BansProvoked, HasKey, Absent, Entry
<1>3. BanLasts
  BY TtlTypes DEF Init, BanLasts
<1>4. QED
  BY <1>1, <1>2, <1>3 DEF IInv

\* The signal is published under the verdict the engine will come to.
LEMMA PublishInv ==
  ASSUME IInv, turn \in Turns, NEW v \in VerdictsOf(Plan[turn]),
         NEW kept \in BOOLEAN, Publish(v, kept)
  PROVE  IInv'
<1>1. /\ step = "publish" /\ step' = "score"
      /\ verdict' = [verdict EXCEPT ![turn] = v]
      /\ UNCHANGED <<turn, outcome, sinceBan, blocklist, pc, position,
                     current>>
      /\ v \in Verdicts
  BY DEF Publish, C!Publish, C!process, VerdictsOf
<1>2. DoorTypeOK'
  BY <1>1 DEF IInv, DoorTypeOK
<1>3. Provoked => Provoked'
  BY <1>1 DEF IInv, DoorTypeOK, Provoked
<1>4. v = "BLOCK" => Provoked'
  BY <1>1 DEF IInv, DoorTypeOK, Provoked
<1>5. RefusalsOver'
  <2> SUFFICES ASSUME NEW i \in Turns, outcome[i] = "refused"
               PROVE  i < turn /\ \E j \in 1 .. i - 1 : verdict'[j] = "BLOCK"
    BY <1>1 DEF RefusalsOver
  <2>1. PICK j \in 1 .. i - 1 : i < turn /\ verdict[j] = "BLOCK"
    BY DEF IInv, RefusalsOver
  <2>2. j \in Turns /\ j # turn
    BY <2>1, FirewallAssumption DEF IInv, DoorTypeOK, Turns
  <2>3. QED
    BY <1>1, <2>1, <2>2 DEF IInv, DoorTypeOK
<1>6. /\ log' \in Seq(C!Record)
      /\ \A k \in 1 .. Len(log') : log'[k].verdict = "BLOCK" => Provoked'
      /\ pc = "setex" => /\ current \in 1 .. Len(log')
                         /\ log'[current] = log[current]
  <2>1. CASE kept
    <3>1. log' = Append(log, [client |-> Host, verdict |-> v])
      BY <2>1 DEF Publish, C!Publish
    <3>2. [client |-> Host, verdict |-> v] \in C!Record
      BY <1>1 DEF C!Record, Verdicts
    <3>3. log \in Seq(C!Record) /\ Len(log) \in Nat
      BY DEF IInv, BansProvoked
    <3>4. /\ log' \in Seq(C!Record) /\ Len(log') = Len(log) + 1
          /\ \A k \in 1 .. Len(log) : log'[k] = log[k]
          /\ log'[Len(log) + 1] = [client |-> Host, verdict |-> v]
      BY <3>1, <3>2, <3>3
    <3>5. ASSUME NEW k \in 1 .. Len(log'), log'[k].verdict = "BLOCK"
          PROVE  Provoked'
      <4>1. CASE k = Len(log) + 1
        BY <1>4, <3>4, <3>5, <4>1
      <4>2. CASE k \in 1 .. Len(log)
        BY <1>3, <3>4, <3>5, <4>2 DEF IInv, BansProvoked
      <4>3. QED
        BY <3>3, <3>4, <4>1, <4>2
    <3>6. QED
      BY <3>3, <3>4, <3>5 DEF IInv, BansProvoked
  <2>2. CASE ~kept
    BY <1>3, <2>2 DEF Publish, IInv, BansProvoked
  <2>3. QED
    BY <2>1, <2>2
<1>7. BansProvoked'
  BY <1>1, <1>3, <1>6 DEF IInv, BansProvoked, HasKey
<1>8. BanLasts'
  BY <1>1 DEF IInv, BanLasts, HasKey
<1>9. QED
  BY <1>2, <1>5, <1>7, <1>8 DEF IInv

\* What the scripts and the gateway do but for writing a ban.
LEMMA DoorInv ==
  ASSUME IInv,
         \/ Send \/ AtTheDoor \/ Score \/ Forward \/ Deny \/ Error
         \/ ClientTimeout
  PROVE  IInv'
<1>1. UNCHANGED <<blocklist, sinceBan, log, position, current, pc, verdict>>
  BY DEF Send, AtTheDoor, Score, Forward, Deny, Error, ClientTimeout, engine
<1>2. turn \in Turns
  BY DEF IInv, DoorTypeOK, Send, AtTheDoor, Score, Forward, Deny, Error,
         ClientTimeout
<1>3. ASSUME NEW o \in Outcomes, AnsweredBy(o),
             o = "refused" => step = "door" /\ Provoked
      PROVE  IInv'
  <2>1. DoorTypeOK' /\ RefusalsOver' /\ (Provoked => Provoked')
    BY <1>1, <1>2, <1>3, AnswerKeeps DEF IInv
  <2>2. step' = "ready"
    BY <1>3 DEF AnsweredBy
  <2>3. QED
    BY <1>1, <2>1, <2>2, DoorKeeps DEF IInv
<1>4. ASSUME UNCHANGED <<turn, outcome>>,
             \/ step = "ready" /\ step' = "door"
             \/ step = "door" /\ step' = "publish"
             \/ step = "score" /\ step' \in {"forward", "ban"},
             step' = "ban" => verdict[turn] = "BLOCK"
      PROVE  IInv'
  <2>1. DoorTypeOK' /\ RefusalsOver'
    BY <1>1, <1>2, <1>4 DEF IInv, DoorTypeOK, RefusalsOver
  <2>2. Provoked => Provoked'
    BY <1>1, <1>4 DEF Provoked
  <2>3. BansProvoked' /\ BanLasts'
    BY <1>1, <1>4, <2>2 DEF IInv, BansProvoked, BanLasts, HasKey
  <2>4. QED
    BY <2>1, <2>3 DEF IInv
<1>5. CASE Send
  BY <1>3, <1>4, <1>5 DEF Send, Outcomes
<1>6. CASE AtTheDoor
  BY <1>3, <1>4, <1>6 DEF AtTheDoor, Outcomes, IInv, BansProvoked
<1>7. CASE Score
  <2>1. PICK decision \in {verdict[turn], "UNSCORED"} \ {"INVALID"} :
          step' = AfterScore(decision)
    BY <1>7 DEF Score
  <2>2. step' \in {"forward", "ban"}
        /\ (step' = "ban" => verdict[turn] = "BLOCK")
    BY <2>1 DEF AfterScore
  <2>3. QED
    BY <1>4, <1>7, <2>2 DEF Score
<1>8. CASE Forward
  <2>1. PICK o \in {"accepted", "rejected"} : AnsweredBy(o)
    BY <1>8 DEF Forward, LoginAnswer, OrderAnswer
  <2>2. QED
    BY <1>3, <2>1 DEF Outcomes
<1>9. CASE Deny
  BY <1>3, <1>9 DEF Deny, Outcomes
<1>10. CASE Error
  BY <1>3, <1>10 DEF Error, Outcomes
<1>11. CASE ClientTimeout
  <2>1. CASE AnsweredBy("timeout")
    BY <1>3, <2>1 DEF Outcomes
  <2>2. CASE Plan[turn].script = "abuse"
    <3>1. /\ outcome' = [i \in Turns |-> IF i = turn THEN "timeout"
                                         ELSE IF i \in Rest(turn) THEN "unsent"
                                         ELSE outcome[i]]
          /\ turn' = turn + Cardinality(Rest(turn)) + 1 /\ step' = "ready"
      BY <1>11, <2>2 DEF ClientTimeout
    <3>2. turn \in Nat /\ turn' \in Nat /\ turn < turn'
      BY <1>2, <3>1, RestCounted DEF IInv, DoorTypeOK
    <3>3. DoorTypeOK'
      BY <1>1, <3>1, <3>2 DEF IInv, DoorTypeOK, Outcomes
    <3>4. Provoked => Provoked'
      BY <1>1, <3>1, <3>2 DEF Provoked, Turns
    <3>5. RefusalsOver'
      BY <1>1, <3>1, <3>2 DEF IInv, RefusalsOver, Turns
    <3>6. QED
      BY <1>1, <3>1, <3>3, <3>4, <3>5, DoorKeeps DEF IInv
  <2>3. QED
    BY <1>11, <2>1, <2>2 DEF ClientTimeout
<1>12. QED
  BY <1>5, <1>6, <1>7, <1>8, <1>9, <1>10, <1>11

\* The gateway bans only at the engine's word, and its ban begins anew.
LEMMA BanInv == ASSUME IInv, Ban PROVE IInv'
<1>1. /\ step = "ban" /\ step' = "deny" /\ sinceBan' = 0
      /\ blocklist' = SetEx(blocklist, Host, BlocklistTtl)
      /\ UNCHANGED <<turn, outcome, verdict, log, position, current, pc>>
  BY DEF Ban, engine
<1>2. DoorTypeOK' /\ RefusalsOver'
  BY <1>1 DEF IInv, DoorTypeOK, RefusalsOver
<1>3. Provoked'
  BY <1>1 DEF IInv, DoorTypeOK, BansProvoked, Provoked
<1>4. /\ blocklist' \in [{Host, Unknown} -> Entry]
      /\ HasKey(blocklist, Host)' /\ blocklist'[Host].ttl = BlocklistTtl
  BY <1>1, BanWritten DEF IInv, BansProvoked, HasKey
<1>5. BansProvoked'
  BY <1>1, <1>3, <1>4 DEF IInv, BansProvoked
<1>6. BanLasts'
  BY <1>1, <1>4, TtlTypes DEF BanLasts
<1>7. QED
  BY <1>2, <1>5, <1>6 DEF IInv

\* The consumer bans only whom a record of a blocked request names, and a
\* ban it writes again lasts its own TTL from then.
LEMMA ConsumerInv == ASSUME IInv, ConsumerStep \/ SendAudit PROVE IInv'
<1>1. UNCHANGED <<turn, step, outcome, verdict, sinceBan, log>>
  BY DEF ConsumerStep, SendAudit, door, C!Poll, C!WriteBan, C!Skip,
         C!SendAudit
<1>2. DoorTypeOK' /\ RefusalsOver' /\ (Provoked <=> Provoked')
  BY <1>1 DEF IInv, DoorTypeOK, RefusalsOver, Provoked
<1>3. CASE C!Poll
  <2>1. /\ position' = position + 1 /\ position < Len(log)
        /\ current' = position + 1
        /\ pc' = C!AfterScoring(log[position + 1]) /\ UNCHANGED blocklist
    BY <1>3 DEF C!Poll
  <2>2. pc' = "setex" => log[position + 1].verdict = "BLOCK"
    BY <2>1 DEF C!AfterScoring
  <2>3. Len(log) \in Nat /\ position \in Nat
    BY DEF IInv, BansProvoked
  <2>4. BansProvoked' /\ BanLasts'
    BY <1>1, <1>2, <2>1, <2>2, <2>3 DEF IInv, BansProvoked, BanLasts, HasKey
  <2>5. QED
    BY <1>2, <2>4 DEF IInv
<1>4. CASE C!WriteBan
  <2> DEFINE ip == log[current].client
  <2>1. /\ pc = "setex" /\ pc' # "setex" /\ UNCHANGED <<position, current>>
        /\ blocklist' = SetEx(blocklist, ip, ConsumerTtl)
    BY <1>4 DEF C!WriteBan, C!Current, C!SetEx, SetEx
  <2>2. ip \in {Host, Unknown} /\ Provoked
    <3>1. current \in 1 .. Len(log) /\ log[current].verdict = "BLOCK"
      BY <2>1 DEF IInv, BansProvoked
    <3>2. Provoked /\ log[current] \in C!Record
      BY <3>1 DEF IInv, BansProvoked
    <3>3. QED
      BY <3>2 DEF C!Record
  <2>3. /\ blocklist' \in [{Host, Unknown} -> Entry]
        /\ HasKey(blocklist', ip) /\ blocklist'[ip].ttl = ConsumerTtl
        /\ ip = Host \/ blocklist'[Host] = blocklist[Host]
    BY <2>1, <2>2, BanWritten DEF IInv, BansProvoked
  <2>4. BansProvoked'
    BY <1>1, <1>2, <2>1, <2>2, <2>3 DEF IInv, BansProvoked
  <2>5. BanLasts'
    BY <1>1, <2>3, TtlTypes DEF IInv, BanLasts, HasKey
  <2>6. QED
    BY <1>2, <2>4, <2>5 DEF IInv
<1>5. CASE C!Skip \/ C!SendAudit
  <2>1. pc' = "poll" /\ UNCHANGED <<position, current, blocklist>>
    BY <1>5 DEF C!Skip, C!SendAudit
  <2>2. BansProvoked' /\ BanLasts'
    BY <1>1, <1>2, <2>1 DEF IInv, BansProvoked, BanLasts, HasKey
  <2>3. QED
    BY <1>2, <2>2 DEF IInv
<1>6. QED
  BY <1>3, <1>4, <1>5 DEF ConsumerStep, SendAudit

\* Time takes from the ban what it adds to the time since.
LEMMA ElapseInv == ASSUME IInv, Elapse PROVE IInv'
<1>1. /\ UNCHANGED <<turn, step, outcome, verdict, log, position, current, pc>>
      /\ blocklist' = Elapsed(blocklist)
      /\ sinceBan' = IF sinceBan < ShorterTtl THEN sinceBan + 1
                     ELSE sinceBan
  BY DEF Elapse, engine
<1>2. DoorTypeOK' /\ RefusalsOver' /\ (Provoked <=> Provoked')
  BY <1>1 DEF IInv, DoorTypeOK, RefusalsOver, Provoked
<1>3. /\ blocklist' \in [{Host, Unknown} -> Entry]
      /\ HasKey(blocklist', Host) => HasKey(blocklist, Host)
      /\ HasKey(blocklist, Host) /\ blocklist[Host].ttl > 1 =>
           /\ HasKey(blocklist', Host)
           /\ blocklist'[Host].ttl = blocklist[Host].ttl - 1
  BY <1>1, BanAges DEF IInv, BansProvoked
<1>4. BansProvoked'
  BY <1>1, <1>2, <1>3 DEF IInv, BansProvoked
<1>5. BanLasts'
  <2>1. sinceBan \in Nat /\ ShorterTtl \in Nat \ {0}
        /\ blocklist[Host].ttl \in Nat
    BY TtlTypes DEF IInv, BanLasts, BansProvoked, Entry
  <2>2. sinceBan' \in 0 .. ShorterTtl
    BY <1>1, <2>1 DEF IInv, BanLasts
  <2>3. ASSUME sinceBan' < ShorterTtl
        PROVE  /\ HasKey(blocklist', Host)
               /\ blocklist'[Host].ttl + sinceBan' >= ShorterTtl
    <3>1. sinceBan' = sinceBan + 1 /\ sinceBan + 1 < ShorterTtl
      BY <1>1, <2>1, <2>3
    <3>2. HasKey(blocklist, Host)
          /\ blocklist[Host].ttl + sinceBan >= ShorterTtl
      BY <2>1, <3>1 DEF IInv, BanLasts
    <3>3. QED
      BY <1>3, <2>1, <3>1, <3>2
  <2>4. QED
    BY <2>2, <2>3 DEF BanLasts, HasKey
<1>6. QED
  BY <1>2, <1>4, <1>5 DEF IInv

\* The indexer touches nothing the invariant is about.
LEMMA IndexerInv == ASSUME IInv, IndexerStep PROVE IInv'
<1>1. UNCHANGED <<turn, step, outcome, verdict, sinceBan, blocklist, log,
                  position, current, pc>>
  BY DEF IndexerStep, GetOne, Timeout, Flush, Tick, door, engine
<1>2. QED
  BY <1>1 DEF IInv, DoorTypeOK, BansProvoked, RefusalsOver, BanLasts,
              Provoked, HasKey

\* Every step keeps the inductive invariant.
LEMMA NextInv == IInv /\ [Next]_vars => IInv'
<1> SUFFICES ASSUME IInv, [Next]_vars PROVE IInv'
  OBVIOUS
<1>1. CASE \/ Send \/ AtTheDoor \/ Score \/ Forward \/ Deny \/ Error
           \/ ClientTimeout
  BY <1>1, DoorInv
<1>2. CASE Ban
  BY <1>2, BanInv
<1>3. CASE turn \in Turns /\ \E v \in VerdictsOf(Plan[turn]),
                                kept \in BOOLEAN : Publish(v, kept)
  BY <1>3, PublishInv
<1>4. CASE ConsumerStep \/ SendAudit
  BY <1>4, ConsumerInv
<1>5. CASE IndexerStep
  BY <1>5, IndexerInv
<1>6. CASE Elapse
  BY <1>6, ElapseInv
<1>7. CASE UNCHANGED vars
  <2>1. UNCHANGED <<turn, step, outcome, verdict, sinceBan, blocklist, log,
                    position, current, pc>>
    BY <1>7 DEF vars, door, engine
  <2>2. QED
    BY <2>1 DEF IInv, DoorTypeOK, BansProvoked, RefusalsOver, BanLasts,
                Provoked, HasKey
<1>8. QED
  BY <1>1, <1>2, <1>3, <1>4, <1>5, <1>6, <1>7 DEF Next, Gateway

\* The inductive invariant holds throughout.
LEMMA Invariance == Spec => []IInv
  BY InitInv, NextInv, PTL DEF Spec
-----------------------------------------------------------------------------
(***************************************************************************)
(* Theorems                                                                *)
(***************************************************************************)

\* The scripts are only refused after a request that the engine blocks,
\* whoever wrote the ban and whatever failed in between.
THEOREM RefusalsFollowBlockHolds == Spec => []RefusalsFollowBlock
<1>1. IInv => RefusalsFollowBlock
  BY DEF IInv, RefusalsOver, RefusalsFollowBlock
<1>2. QED
  BY <1>1, Invariance, PTL

\* A host the gateway has banned is not let in before the shorter of the
\* two TTLs is over.
THEOREM BlockedStaysOutHolds == Spec => BlockedStaysOut
<1>1. IInv /\ [Next]_vars =>
        [step = "door" /\ step' = "publish" => sinceBan >= ShorterTtl]_vars
  <2> SUFFICES ASSUME IInv, Next, step = "door", step' = "publish"
               PROVE  sinceBan >= ShorterTtl
    OBVIOUS
  <2>1. ~HasKey(blocklist, Host)
    <3>1. AtTheDoor
      BY DEF Next, Gateway, Send, AtTheDoor, Score, AfterScore, Forward, Ban,
             Deny, Publish, Error, ClientTimeout, AnsweredBy, ConsumerStep,
             SendAudit, IndexerStep, GetOne, Timeout, Flush, Tick, Elapse,
             door
    <3>2. QED
      BY <3>1 DEF AtTheDoor, AnsweredBy
  <2>2. sinceBan \in Nat /\ ShorterTtl \in Nat
    BY TtlTypes DEF IInv, BanLasts
  <2>3. QED
    BY <2>1, <2>2 DEF IInv, BanLasts
<1>2. QED
  BY <1>1, Invariance, PTL DEF Spec, BlockedStaysOut
=============================================================================
