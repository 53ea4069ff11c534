-------------------------- MODULE RedisStateProofs --------------------------
(***************************************************************************)
(* Proofs about RedisState: types, and that INCR + EXPIRE-if-new behaves   *)
(* as a fixed window for any number of callers, clients and endpoints,     *)
(* also when calls are given up between their two commands.                *)
(***************************************************************************)
EXTENDS RedisState, TLAPS

\* A call works on a key of its kind.
KeyKinds ==
  \A c \in Calls :
    InFlight(c) =>
      key[c] \in IF c[2] = "failStreak" THEN StreakKeys ELSE CountKeys

\* A counter that is not there has no expiry, so a fresh one starts without.
AbsentHasNoTtl ==
  \A k \in CounterKeys : counter[k].val = 0 => counter[k].ttl = 0

\* The inductive invariant.
IInv == TypeOK /\ KeyKinds /\ AbsentHasNoTtl /\ OneOpener /\ OwedToOwnWindow

\* No window counter shares its key with a streak.
LEMMA KeysDisjoint ==
  ASSUME NEW k \in CountKeys PROVE k \notin StreakKeys
  BY DEF CountKeys, StreakKeys, CountKey, StreakKey

\* A call is a caller and one of the three operations.
LEMMA CallShape ==
  ASSUME NEW c \in Calls
  PROVE  c[1] \in Callers /\ c[2] \in Ops /\ c = <<c[1], c[2]>>
  BY DEF Calls

\* A call is started on a key of its kind.
LEMMA KeyOfKind ==
  ASSUME NEW op \in Ops, NEW ip \in Clients, NEW ep \in Endpoints,
         NEW id \in Identities
  PROVE  KeyOf(op, ip, ep, id) \in
           IF op = "failStreak" THEN StreakKeys ELSE CountKeys
  BY DEF KeyOf, CountKeys, StreakKeys

\* An entry that ages is an entry.
LEMMA PassedType ==
  ASSUME NEW e \in Entry PROVE Passed(e) \in Entry
  BY CapAssumption DEF Passed, Entry, Absent

\* What a unit of time does to an entry that is absent, or has no expiry.
LEMMA PassedShape ==
  ASSUME NEW e \in Entry
  PROVE  /\ e.ttl = 0 => Passed(e) = e
         /\ Passed(e).val = 0 /\ (e.val = 0 => e.ttl = 0) => Passed(e).ttl = 0
         /\ Passed(e).ttl <= e.ttl
<1>1. CASE e.ttl = 0
  BY <1>1 DEF Passed, Entry
<1>2. CASE e.ttl = 1
  BY <1>2 DEF Passed, Entry, Absent
<1>3. CASE e.ttl > 1
  BY <1>3 DEF Passed, Entry
<1>4. QED
  BY <1>1, <1>2, <1>3 DEF Entry

\* A keyspace that ages is a keyspace.
LEMMA ElapsedType ==
  ASSUME NEW S, NEW s \in [S -> Entry]
  PROVE  Elapsed(s) \in [S -> Entry]
  BY PassedType DEF Elapsed

\* INCR returns 1 only where it created the key.
LEMMA BumpedType ==
  ASSUME NEW S, NEW s \in [S -> Entry], NEW k \in S
  PROVE  Bumped(s, k) \in 0 .. CounterCap /\ Bumped(s, k) > 0
         /\ (s[k].val > 0 => Bumped(s, k) > 1)
  BY CapAssumption DEF Bumped, Entry

\* The empty store satisfies the inductive invariant.
LEMMA InitInv == Init => IInv
  BY CapAssumption
  DEF Init, IInv, TypeOK, KeyKinds, AbsentHasNoTtl, OneOpener,
      OwedToOwnWindow, InFlight, Owes, Phases, Absent, Entry

\* Starting calls makes none of them owe anything.
LEMMA BeginInv ==
  ASSUME IInv, NEW r \in Callers, NEW ip \in Clients, NEW ep \in Endpoints,
         NEW id \in Identities, Begin(r, ip, ep, id)
  PROVE  IInv'
<1> USE DEF IInv
<1>1. \A c \in Calls : Owes(c)' => Owes(c) /\ key'[c] = key[c]
  BY DEF Begin, Owes, TypeOK
<1>2. \A c \in Calls : c[1] = r =>
        key'[c] \in IF c[2] = "failStreak" THEN StreakKeys ELSE CountKeys
  BY CallShape, KeyOfKind DEF Begin
<1>3. TypeOK'
  BY <1>2, CapAssumption DEF Begin, TypeOK, Phases, CounterKeys
<1>4. KeyKinds'
  BY <1>2 DEF Begin, TypeOK, KeyKinds, InFlight
<1>5. OneOpener'
  BY <1>1 DEF OneOpener
<1>6. OwedToOwnWindow'
  BY <1>1 DEF OwedToOwnWindow, Begin
<1>7. AbsentHasNoTtl'
  BY DEF AbsentHasNoTtl, Begin
<1>8. QED
  BY <1>3, <1>4, <1>5, <1>6, <1>7

\* A call that comes to owe an expiry created its counter, so nobody else
\* owes it one.
LEMMA IncrementInv ==
  ASSUME IInv, NEW c \in Calls, Increment(c)
  PROVE  IInv'
<1> USE DEF IInv
<1> DEFINE n == Bumped(counter, key[c])
<1>1. key[c] \in CounterKeys
  BY DEF Increment, KeyKinds, InFlight, CounterKeys
<1>2. /\ n \in 0 .. CounterCap
      /\ n > 0
      /\ counter[key[c]].val > 0 => n > 1
  BY <1>1, BumpedType DEF TypeOK
<1>3. /\ counter' = [counter EXCEPT ![key[c]].val = n]
      /\ got' = [got EXCEPT ![c] = n]
      /\ phase' = [phase EXCEPT ![c] =
                     IF SetsExpiry(c[2], n) THEN "expire" ELSE "done"]
      /\ key' = key /\ blocklist' = blocklist
  BY DEF Increment, Incr
<1> HIDE DEF n
<1>4. TypeOK'
  BY <1>1, <1>2, <1>3 DEF TypeOK, Phases, Entry
<1>5. KeyKinds'
  BY <1>3 DEF TypeOK, KeyKinds, InFlight, Increment
<1>6. \A d \in Calls : Owes(d)' /\ d # c => Owes(d)
  BY <1>3 DEF Owes, TypeOK
<1>7. Owes(c)' => counter[key[c]].val = 0 /\ n = 1
  BY <1>1, <1>2, <1>3 DEF Owes, SetsExpiry, TypeOK, Entry
<1>8. OneOpener'
  <2>1. ASSUME NEW d \in Calls, d # c, Owes(c)', Owes(d)', key[d] = key[c]
        PROVE  FALSE
    BY <2>1, <1>6, <1>7 DEF OwedToOwnWindow
  <2>2. QED
    BY <2>1, <1>3, <1>6 DEF OneOpener
<1>9. OwedToOwnWindow'
  <2>1. ASSUME NEW d \in Calls, Owes(d)', d # c
        PROVE  counter'[key'[d]].val > 0 /\ counter'[key'[d]].ttl = 0
    <3>1. Owes(d) /\ key[d] \in CounterKeys
      BY <2>1, <1>6 DEF KeyKinds, InFlight, Owes, CounterKeys
    <3>2. counter[key[d]].val > 0 /\ counter[key[d]].ttl = 0
      BY <3>1 DEF OwedToOwnWindow
    <3>3. QED
      BY <3>1, <3>2, <1>2, <1>3 DEF TypeOK, Entry
  <2>2. ASSUME Owes(c)'
        PROVE  counter'[key'[c]].val > 0 /\ counter'[key'[c]].ttl = 0
    <3>1. counter[key[c]].ttl = 0
      BY <2>2, <1>1, <1>7 DEF AbsentHasNoTtl
    <3>2. QED
      BY <3>1, <1>1, <1>2, <1>3 DEF TypeOK, Entry
  <2>3. QED
    BY <2>1, <2>2 DEF OwedToOwnWindow
<1>10. AbsentHasNoTtl'
  BY <1>1, <1>2, <1>3 DEF AbsentHasNoTtl, TypeOK, Entry
<1>11. QED
  BY <1>4, <1>5, <1>8, <1>9, <1>10

\* An EXPIRE does not reach a counter that another call owes one.
LEMMA SetExpiryInv ==
  ASSUME IInv, NEW c \in Calls, SetExpiry(c)
  PROVE  IInv'
<1> USE DEF IInv
<1> DEFINE k == key[c]
<1>1. k \in CounterKeys
  BY DEF SetExpiry, KeyKinds, InFlight, CounterKeys
<1>2. TtlOf(c[2]) \in Nat
  BY TtlAssumption DEF TtlOf
<1>3. \A j \in CounterKeys :
        /\ counter'[j] \in Entry
        /\ j # k => counter'[j] = counter[j]
        /\ counter'[j].val = counter[j].val
        /\ counter[j].val = 0 => counter'[j].ttl = counter[j].ttl
  BY <1>1, <1>2 DEF SetExpiry, Expire, HasKey, TypeOK, Entry
<1>4. \A d \in Calls : Owes(d)' => Owes(d) /\ d # c /\ key'[d] = key[d]
  BY DEF SetExpiry, Owes, TypeOK
<1>5. TypeOK'
  BY <1>1, <1>2 DEF SetExpiry, Expire, HasKey, TypeOK, Entry, Phases
<1>6. KeyKinds'
  BY DEF SetExpiry, TypeOK, KeyKinds, InFlight
<1>7. AbsentHasNoTtl'
  BY <1>3 DEF AbsentHasNoTtl, TypeOK
<1>8. OneOpener'
  BY <1>4 DEF OneOpener
<1>9. OwedToOwnWindow'
  <2>1. ASSUME NEW d \in Calls, Owes(d)'
        PROVE  counter'[key'[d]].val > 0 /\ counter'[key'[d]].ttl = 0
    <3>1. Owes(d) /\ d # c /\ key'[d] = key[d]
      BY <2>1, <1>4
    <3>2. key[d] \in CountKeys
      BY <3>1 DEF KeyKinds, InFlight, Owes
    <3>3. key[d] # k
      <4>1. CASE c[2] = "failStreak"
        BY <4>1, <3>2, KeysDisjoint DEF SetExpiry, KeyKinds, InFlight
      <4>2. CASE c[2] # "failStreak"
        BY <4>2, <3>1 DEF OneOpener, Owes, SetExpiry
      <4>3. QED
        BY <4>1, <4>2
    <3>4. counter'[key[d]] = counter[key[d]]
      BY <3>2, <3>3, <1>3 DEF CounterKeys
    <3>5. QED
      BY <3>1, <3>4 DEF OwedToOwnWindow
  <2>2. QED
    BY <2>1 DEF OwedToOwnWindow
<1>10. QED
  BY <1>5, <1>6, <1>7, <1>8, <1>9

\* A counter without an expiry, the only kind that is owed one, outlives any
\* time.
LEMMA ElapseInv ==
  ASSUME IInv, Elapse
  PROVE  IInv'
<1> USE DEF IInv
<1>1. TypeOK'
  BY ElapsedType DEF Elapse, TypeOK
<1>2. \A k \in CounterKeys : counter'[k] = Passed(counter[k])
  BY DEF Elapse, Elapsed, TypeOK
<1>3. KeyKinds'
  BY DEF KeyKinds, InFlight, Elapse
<1>4. AbsentHasNoTtl'
  <2>1. ASSUME NEW k \in CounterKeys, counter'[k].val = 0
        PROVE  counter'[k].ttl = 0
    <3>1. counter[k] \in Entry
      BY DEF TypeOK
    <3>2. QED
      BY <2>1, <3>1, <1>2, PassedShape DEF AbsentHasNoTtl
  <2>2. QED
    BY <2>1 DEF AbsentHasNoTtl
<1>5. OneOpener'
  BY DEF OneOpener, Owes, Elapse
<1>6. OwedToOwnWindow'
  <2>1. ASSUME NEW c \in Calls, Owes(c)
        PROVE  counter'[key[c]].val > 0 /\ counter'[key[c]].ttl = 0
    <3>1. key[c] \in CounterKeys
      BY <2>1 DEF KeyKinds, InFlight, Owes, CounterKeys
    <3>2. counter[key[c]].val > 0 /\ counter[key[c]].ttl = 0
      BY <2>1 DEF OwedToOwnWindow
    <3>3. QED
      BY <3>1, <3>2, <1>2, PassedShape DEF TypeOK
  <2>2. QED
    BY <2>1 DEF OwedToOwnWindow, Owes, Elapse
<1>7. QED
  BY <1>1, <1>3, <1>4, <1>5, <1>6

\* DEL of a streak touches no window counter.
LEMMA ResetInv ==
  ASSUME IInv, NEW id \in Identities, ResetFailedAuthStreak(id)
  PROVE  IInv'
<1> USE DEF IInv
<1>1. StreakKey(id) \in StreakKeys
  BY DEF StreakKeys
<1>2. \A k \in CountKeys : counter'[k] = counter[k]
  BY <1>1, KeysDisjoint DEF ResetFailedAuthStreak, Del, TypeOK, CounterKeys
<1>3. TypeOK'
  <2>1. Absent \in Entry
    BY CapAssumption DEF Absent, Entry
  <2>2. QED
    BY <2>1 DEF ResetFailedAuthStreak, Del, TypeOK
<1>4. KeyKinds' /\ OneOpener'
  BY DEF ResetFailedAuthStreak, KeyKinds, OneOpener, InFlight, Owes
<1>5. AbsentHasNoTtl'
  BY DEF ResetFailedAuthStreak, Del, TypeOK, Absent, AbsentHasNoTtl
<1>6. OwedToOwnWindow'
  BY <1>2 DEF OwedToOwnWindow, Owes, KeyKinds, InFlight, ResetFailedAuthStreak
<1>7. QED
  BY <1>3, <1>4, <1>5, <1>6

\* A ban is written to another keyspace, whoever writes it.
LEMMA BlockInv ==
  ASSUME IInv, NEW ip \in Clients,
         BlockImmediately(ip) \/ BlockByConsumer(ip)
  PROVE  IInv'
<1> USE DEF IInv
<1>1. TypeOK'
  BY CapAssumption, TtlAssumption
  DEF BlockImmediately, BlockByConsumer, SetEx, TypeOK, Entry
<1>2. QED
  BY <1>1 DEF BlockImmediately, BlockByConsumer, KeyKinds, AbsentHasNoTtl,
              OneOpener, OwedToOwnWindow, InFlight, Owes

\* Giving calls up only makes fewer of them owe an expiry.
LEMMA AbandonInv ==
  ASSUME IInv, NEW r \in Callers, Abandon(r)
  PROVE  IInv'
<1> USE DEF IInv
<1>1. TypeOK'
  BY CapAssumption DEF Abandon, TypeOK, Phases
<1>2. \A c \in Calls : /\ Owes(c)' => Owes(c)
                       /\ InFlight(c)' => InFlight(c)
  BY DEF Abandon, Owes, InFlight, TypeOK
<1>3. QED
  BY <1>1, <1>2
  DEF Abandon, KeyKinds, AbsentHasNoTtl, OneOpener, OwedToOwnWindow

\* Every step, a call given up included, keeps the inductive invariant.
LEMMA NextInv == IInv /\ [FaultyNext]_vars => IInv'
<1> SUFFICES ASSUME IInv, [FaultyNext]_vars PROVE IInv'
  OBVIOUS
<1>1. CASE \E r \in Callers, ip \in Clients, ep \in Endpoints,
                id \in Identities : Begin(r, ip, ep, id)
  BY <1>1, BeginInv
<1>2. CASE CallStep
  BY <1>2, IncrementInv, SetExpiryInv DEF CallStep
<1>3. CASE \E ip \in Clients : BlockImmediately(ip) \/ BlockByConsumer(ip)
  BY <1>3, BlockInv
<1>4. CASE \E id \in Identities : ResetFailedAuthStreak(id)
  BY <1>4, ResetInv
<1>5. CASE Elapse
  BY <1>5, ElapseInv
<1>6. CASE \E r \in Callers : Abandon(r)
  BY <1>6, AbandonInv
<1>7. CASE UNCHANGED vars
  BY <1>7 DEF vars, IInv, TypeOK, KeyKinds, AbsentHasNoTtl, OneOpener,
              OwedToOwnWindow, InFlight, Owes
<1>8. QED
  BY <1>1, <1>2, <1>3, <1>4, <1>5, <1>6, <1>7 DEF FaultyNext, Next

\* The inductive invariant holds throughout, calls given up or not.
THEOREM Invariance == FaultySpec => []IInv
  BY InitInv, NextInv, PTL DEF FaultySpec

\* Every variable keeps its type.
THEOREM TypeCorrect == FaultySpec => []TypeOK
  BY Invariance, PTL DEF IInv

\* RedisStateService.incrementWindowCounter: at most one caller opens a window.
THEOREM OneOpenerHolds == FaultySpec => []OneOpener
  BY Invariance, PTL DEF IInv

\* Its EXPIRE reaches the window it was meant for, never a later one.
THEOREM OwedToOwnWindowHolds == FaultySpec => []OwedToOwnWindow
  BY Invariance, PTL DEF IInv

\* What any step does to a running window.
LEMMA StepKeepsWindow ==
  ASSUME IInv, [FaultyNext]_vars, NEW k \in CountKeys, counter[k].ttl > 0
  PROVE  counter'[k].ttl <= counter[k].ttl
<1> USE DEF IInv
<1>1. k \in CounterKeys /\ counter[k] \in Entry /\ counter[k].ttl \in Nat
  BY DEF CounterKeys, TypeOK, Entry
<1>2. CASE counter' = counter
  BY <1>1, <1>2
<1>3. ASSUME NEW c \in Calls, Increment(c)
      PROVE  counter'[k].ttl = counter[k].ttl
  BY <1>1, <1>3 DEF Increment, Incr, TypeOK, Entry
<1>4. ASSUME NEW c \in Calls, SetExpiry(c)
      PROVE  counter'[k] = counter[k]
  <2>1. key[c] # k
    <3>1. CASE c[2] = "failStreak"
      BY <1>4, <3>1, KeysDisjoint DEF SetExpiry, KeyKinds, InFlight
    <3>2. CASE c[2] # "failStreak"
      BY <1>4, <3>2 DEF SetExpiry, OwedToOwnWindow, Owes
    <3>3. QED
      BY <3>1, <3>2
  <2>2. QED
    BY <2>1, <1>1, <1>4 DEF SetExpiry, Expire, TypeOK
<1>5. ASSUME NEW id \in Identities, ResetFailedAuthStreak(id)
      PROVE  counter'[k] = counter[k]
  <2>1. StreakKey(id) # k
    BY KeysDisjoint DEF StreakKeys
  <2>2. QED
    BY <2>1, <1>1, <1>5 DEF ResetFailedAuthStreak, Del, TypeOK
<1>6. CASE Elapse
  BY <1>1, <1>6, PassedShape DEF Elapse, Elapsed, TypeOK
<1>7. QED
  BY <1>1, <1>2, <1>3, <1>4, <1>5, <1>6
  DEF FaultyNext, Next, CallStep, Begin, BlockImmediately, BlockByConsumer,
      Abandon, vars

\* A fixed window stays fixed: no request pushes back a running expiry.
THEOREM WindowNeverExtendedHolds == FaultySpec => WindowNeverExtended
<1>1. IInv /\ [FaultyNext]_vars =>
        [\A k \in CountKeys :
           counter[k].ttl > 0 => counter'[k].ttl <= counter[k].ttl]_vars
  BY StepKeepsWindow
<1>2. QED
  BY <1>1, Invariance, PTL DEF FaultySpec, WindowNeverExtended

\* A counter some running call owes an expiry.
Awaited(k) == \E c \in Calls : key[c] = k /\ phase[c] = "expire"

\* An INCR strands no counter: it owes the expiry of one that it creates, and
\* leaves those that others owe to them.
LEMMA IncrementStrandsNone ==
  ASSUME IInv, NEW c \in Calls, Increment(c), NEW k \in CounterKeys,
         ~Stranded(k)
  PROVE  ~Stranded(k)'
<1> USE DEF IInv
<1> DEFINE n == Bumped(counter, key[c])
<1>1. key[c] \in CounterKeys
  BY DEF Increment, KeyKinds, InFlight, CounterKeys
<1>2. /\ phase[c] = "incr"
      /\ counter' = [counter EXCEPT ![key[c]].val = n]
      /\ phase' = [phase EXCEPT ![c] =
                     IF SetsExpiry(c[2], n) THEN "expire" ELSE "done"]
      /\ key' = key
  BY DEF Increment, Incr
<1>3. Awaited(k) => Awaited(k)'
  BY <1>2 DEF Awaited, TypeOK
<1>4. counter'[k].ttl = counter[k].ttl
  BY <1>1, <1>2 DEF TypeOK, Entry
<1>5. CASE key[c] # k \/ counter[k].val > 0
  <2>1. counter'[k].val > 0 => counter[k].val > 0
    BY <1>1, <1>2, <1>5 DEF TypeOK, Entry
  <2>2. QED
    BY <1>3, <1>4, <2>1 DEF Stranded, Awaited
<1>6. CASE key[c] = k /\ counter[k].val = 0
  <2>1. n = 1
    BY <1>6, CapAssumption DEF Bumped
  <2>2. phase'[c] = "expire" /\ key'[c] = k
    BY <1>2, <1>6, <2>1 DEF SetsExpiry, TypeOK
  <2>3. QED
    BY <2>2 DEF Stranded
<1>7. QED
  BY <1>1, <1>5, <1>6 DEF TypeOK, Entry

\* Nor does an EXPIRE: it serves its own counter and no other.
LEMMA SetExpiryStrandsNone ==
  ASSUME IInv, NEW c \in Calls, SetExpiry(c), NEW k \in CounterKeys,
         ~Stranded(k)
  PROVE  ~Stranded(k)'
<1> USE DEF IInv
<1>1. key[c] \in CounterKeys
  BY DEF SetExpiry, KeyKinds, InFlight, CounterKeys
<1>2. TtlOf(c[2]) \in Nat \ {0}
  BY CallShape, TtlAssumption DEF TtlOf, Ops
<1>3. CASE key[c] = k
  BY <1>1, <1>2, <1>3 DEF SetExpiry, Expire, HasKey, Stranded, TypeOK, Entry
<1>4. CASE key[c] # k
  <2>1. counter'[k] = counter[k]
    BY <1>1, <1>4 DEF SetExpiry, Expire, TypeOK
  <2>2. Awaited(k) => Awaited(k)'
    BY <1>4 DEF Awaited, SetExpiry, TypeOK
  <2>3. QED
    BY <2>1, <2>2 DEF Stranded, Awaited
<1>5. QED
  BY <1>3, <1>4

\* Time strands no counter: what has an expiry keeps it or is gone.
LEMMA ElapseStrandsNone ==
  ASSUME IInv, Elapse, NEW k \in CounterKeys, ~Stranded(k)
  PROVE  ~Stranded(k)'
<1> USE DEF IInv
<1>1. counter[k] \in Entry /\ counter'[k] = Passed(counter[k])
  BY DEF Elapse, Elapsed, TypeOK
<1>2. counter'[k].val > 0 /\ counter'[k].ttl = 0 =>
        counter[k].val > 0 /\ counter[k].ttl = 0
  BY <1>1 DEF Passed, Absent, Entry
<1>3. QED
  BY <1>2 DEF Elapse, Stranded

\* What a step that strands a counter did.
LEMMA StrandingStep ==
  ASSUME IInv, [FaultyNext]_vars, NEW k \in CounterKeys,
         ~Stranded(k), Stranded(k)'
  PROVE  \E c \in Calls :
           key[c] = k /\ phase[c] = "expire" /\ phase'[c] = "dead"
<1> USE DEF IInv
<1>1. ASSUME NEW r \in Callers, NEW ip \in Clients, NEW ep \in Endpoints,
             NEW id \in Identities, Begin(r, ip, ep, id)
      PROVE  FALSE
  <2>1. \A c \in Calls : phase[c] = "expire" => c[1] # r
    BY <1>1, CallShape DEF Begin, Counting, InFlight
  <2>2. Awaited(k) => Awaited(k)'
    BY <1>1, <2>1 DEF Begin, Awaited, TypeOK
  <2>3. QED
    BY <1>1, <2>2 DEF Begin, Stranded, Awaited
<1>2. CASE CallStep
  BY <1>2, IncrementStrandsNone, SetExpiryStrandsNone DEF CallStep
<1>3. CASE \E ip \in Clients : BlockImmediately(ip) \/ BlockByConsumer(ip)
  BY <1>3 DEF BlockImmediately, BlockByConsumer, Stranded
<1>4. ASSUME NEW id \in Identities, ResetFailedAuthStreak(id)
      PROVE  FALSE
  BY <1>4 DEF ResetFailedAuthStreak, Del, Absent, Stranded, TypeOK
<1>5. CASE Elapse
  BY <1>5, ElapseStrandsNone
<1>6. ASSUME NEW r \in Callers, Abandon(r)
      PROVE  \E c \in Calls :
               key[c] = k /\ phase[c] = "expire" /\ phase'[c] = "dead"
  <2>1. PICK c \in Calls : key[c] = k /\ phase[c] = "expire"
    BY <1>6 DEF Abandon, Stranded
  <2>2. phase'[c] # "expire"
    BY <1>6, <2>1 DEF Abandon, Stranded
  <2>3. QED
    BY <1>6, <2>1, <2>2 DEF Abandon, TypeOK
<1>7. CASE UNCHANGED vars
  BY <1>7 DEF vars, Stranded
<1>8. QED
  BY <1>1, <1>2, <1>3, <1>4, <1>5, <1>6, <1>7 DEF FaultyNext, Next

\* Only a call given up between INCR and EXPIRE leaves a counter without an
\* expiry, for any number of callers and whatever else happens.
THEOREM StrandedOnlyByGivingUpHolds == FaultySpec => StrandedOnlyByGivingUp
<1>1. IInv /\ [FaultyNext]_vars =>
        [\A k \in CounterKeys : ~Stranded(k) /\ Stranded(k)' =>
           \E c \in Calls :
             key[c] = k /\ phase[c] = "expire" /\ phase'[c] = "dead"]_vars
  BY StrandingStep
<1>2. QED
  BY <1>1, Invariance, PTL DEF FaultySpec, StrandedOnlyByGivingUp
=============================================================================
