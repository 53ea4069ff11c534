----------------------------- MODULE RedisState -----------------------------
(***************************************************************************)
(* RedisStateService: the gateway's hot-path state in Redis.               *)
(*                                                                         *)
(* A caller is one request inside ZeroTrustFilter.continuePipeline.  It    *)
(* subscribes to three counter calls at once (Mono.zip): rate10s, rate60s  *)
(* and failStreak.  Each call is an INCR and, depending on what the INCR   *)
(* returned, an EXPIRE: two commands, two round trips, between which any   *)
(* other caller's commands and any amount of time may pass.  A call that   *)
(* is given up (error, timeout, cancellation, crash) stops between them.   *)
(***************************************************************************)
EXTENDS Redis

CONSTANTS
  Callers,       \* requests that count at the same time
  Clients,       \* client IPs
  Endpoints,     \* request paths
  Identities,    \* whom a failed-auth streak belongs to: subject or client IP
  ShortWindow,   \* the 10s window, in units of time
  LongWindow,    \* the 60s window
  StreakTtl,     \* 15 minutes
  BlocklistTtl,  \* firewall.blocklist-ttl-seconds
  ConsumerTtl    \* the threat engine's own BLOCKLIST_TTL_SECONDS

ASSUME TtlAssumption ==
  /\ ShortWindow \in Nat \ {0}
  /\ LongWindow \in Nat \ {0}
  /\ StreakTtl \in Nat \ {0}
  /\ BlocklistTtl \in Nat \ {0}
  /\ ConsumerTtl \in Nat \ {0}

VARIABLES
  blocklist,   \* keyspace blocklist:<ip>
  counter,     \* keyspaces count:<ip>:<endpoint> and failstreak:<identity>
  phase,       \* how far each counter call is
  key,         \* the key each counter call works on
  got          \* what the INCR of each counter call returned

vars == <<blocklist, counter, phase, key, got>>
-----------------------------------------------------------------------------
Ops == {"rate10s", "rate60s", "failStreak"}
Calls == Callers \X Ops
Phases == {"idle", "incr", "expire", "done", "dead"}

CountKey(ip, endpoint) == <<"count", ip, endpoint>>
StreakKey(id) == <<"failstreak", id>>
CountKeys == {CountKey(ip, ep) : ip \in Clients, ep \in Endpoints}
StreakKeys == {StreakKey(id) : id \in Identities}
CounterKeys == CountKeys \cup StreakKeys
NoKey == <<>>

\* Mutant of KeyOf: the counter is kept per client only.
KeyOfClient(op, ip, endpoint, id) ==
  IF op = "failStreak" THEN StreakKey(id)
  ELSE CountKey(ip, CHOOSE ep \in Endpoints : TRUE)

\* The window is not part of the key: rate10s and rate60s share one counter.
KeyOf(op, ip, endpoint, id) ==
  IF op = "failStreak" THEN StreakKey(id) ELSE CountKey(ip, endpoint)

TtlOf(op) ==
  CASE op = "rate10s" -> ShortWindow
    [] op = "rate60s" -> LongWindow
    [] OTHER          -> StreakTtl

\* Mutants of SetsExpiry: every INCR renews the window; the second one does;
\* the test is off by one.
SetsExpiryAlways(op, n) == TRUE
SetsExpiryTwice(op, n) == op = "failStreak" \/ n <= 2
SetsExpiryAtZero(op, n) == op = "failStreak" \/ n = 0

\* A window counter is given its expiry by the call that created it, a
\* streak by every call.
SetsExpiry(op, n) == op = "failStreak" \/ n = 1

TypeOK ==
  /\ blocklist \in [Clients -> Entry]
  /\ counter \in [CounterKeys -> Entry]
  /\ phase \in [Calls -> Phases]
  /\ key \in [Calls -> CounterKeys \cup {NoKey}]
  /\ got \in [Calls -> 0 .. CounterCap]

Init ==
  /\ blocklist = [ip \in Clients |-> Absent]
  /\ counter = [k \in CounterKeys |-> Absent]
  /\ phase = [c \in Calls |-> "idle"]
  /\ key = [c \in Calls |-> NoKey]
  /\ got = [c \in Calls |-> 0]
-----------------------------------------------------------------------------
InFlight(c) == phase[c] \in {"incr", "expire"}
Counting(r) == \E op \in Ops : InFlight(<<r, op>>)
Counted(r) == \A op \in Ops : phase[<<r, op>>] = "done"

IsBlocked(ip) == HasKey(blocklist, ip)

BlockImmediately(ip) ==
  /\ blocklist' = SetEx(blocklist, ip, BlocklistTtl)
  /\ UNCHANGED <<counter, phase, key, got>>

\* Environment: the threat engine's consumer writes the same key.
BlockByConsumer(ip) ==
  /\ blocklist' = SetEx(blocklist, ip, ConsumerTtl)
  /\ UNCHANGED <<counter, phase, key, got>>

\* The three counter calls of r are subscribed to.
Begin(r, ip, endpoint, id) ==
  /\ ~Counting(r)
  /\ phase' = [c \in Calls |-> IF c[1] = r THEN "incr" ELSE phase[c]]
  /\ key' = [c \in Calls |->
               IF c[1] = r THEN KeyOf(c[2], ip, endpoint, id) ELSE key[c]]
  /\ got' = [c \in Calls |-> IF c[1] = r THEN 0 ELSE got[c]]
  /\ UNCHANGED <<blocklist, counter>>

\* INCR; the callback then either issues the EXPIRE or is done.
Increment(c) ==
  /\ phase[c] = "incr"
  /\ LET n == Bumped(counter, key[c]) IN
       /\ counter' = Incr(counter, key[c])
       /\ got' = [got EXCEPT ![c] = n]
       /\ phase' = [phase EXCEPT
                      ![c] = IF SetsExpiry(c[2], n) THEN "expire" ELSE "done"]
  /\ UNCHANGED <<blocklist, key>>

SetExpiry(c) ==
  /\ phase[c] = "expire"
  /\ counter' = Expire(counter, key[c], TtlOf(c[2]))
  /\ phase' = [phase EXCEPT ![c] = "done"]
  /\ UNCHANGED <<blocklist, key, got>>

\* r fails (a Redis error or timeout, the client disconnects, the gateway
\* crashes): its calls are cancelled wherever they are.
Abandon(r) ==
  /\ phase' = [c \in Calls |->
                 IF c[1] = r /\ InFlight(c) THEN "dead" ELSE phase[c]]
  /\ got' = [c \in Calls |-> IF c[1] = r THEN 0 ELSE got[c]]
  /\ UNCHANGED <<blocklist, counter, key>>

\* DEL of a streak.  Part of the service; nothing in the gateway calls it.
ResetFailedAuthStreak(id) ==
  /\ counter' = Del(counter, StreakKey(id))
  /\ UNCHANGED <<blocklist, phase, key, got>>

\* A unit of time passes in Redis.
Elapse ==
  /\ blocklist' = Elapsed(blocklist)
  /\ counter' = Elapsed(counter)
  /\ UNCHANGED <<phase, key, got>>

CallStep == \E c \in Calls : Increment(c) \/ SetExpiry(c)

Next ==
  \/ \E r \in Callers, ip \in Clients, ep \in Endpoints, id \in Identities :
       Begin(r, ip, ep, id)
  \/ CallStep
  \/ \E ip \in Clients : BlockImmediately(ip) \/ BlockByConsumer(ip)
  \/ \E id \in Identities : ResetFailedAuthStreak(id)
  \/ Elapse

\* With calls that are given up half-way.
FaultyNext == Next \/ \E r \in Callers : Counting(r) /\ Abandon(r)

\* Redis answers every command and time passes; no request need arrive.
Fairness ==
  /\ \A c \in Calls : WF_vars(Increment(c)) /\ WF_vars(SetExpiry(c))
  /\ WF_vars(Elapse)

FaultySpec == Init /\ [][FaultyNext]_vars
LiveSpec == FaultySpec /\ Fairness
-----------------------------------------------------------------------------
(***************************************************************************)
(* Properties                                                              *)
(***************************************************************************)

\* A call of c that still owes the window counter it created an expiry.
Owes(c) == phase[c] = "expire" /\ c[2] # "failStreak"

\* However callers interleave, at most one of them believes it opened a
\* window and will give it an expiry (INCR + EXPIRE-if-new).
OneOpener ==
  \A c1, c2 \in Calls : Owes(c1) /\ Owes(c2) /\ key[c1] = key[c2] => c1 = c2

\* An expiry that is still owed always finds the key it was meant for: the
\* counter is there and nobody has given it an expiry.  No EXPIRE of an
\* earlier window ever lands in a later one.
OwedToOwnWindow ==
  \A c \in Calls :
    Owes(c) => counter[key[c]].val > 0 /\ counter[key[c]].ttl = 0

\* A fixed window: once a window's expiry runs, later requests in the window
\* never push it back.
WindowNeverExtended ==
  [][\A k \in CountKeys :
       counter[k].ttl > 0 => counter'[k].ttl <= counter[k].ttl]_vars

\* A counter that no running call will give the expiry it lacks.
Stranded(k) ==
  /\ counter[k].val > 0 /\ counter[k].ttl = 0
  /\ \A c \in Calls : phase[c] = "expire" => key[c] # k

\* Only giving a call up between its INCR and its EXPIRE strands a counter:
\* no interleaving with other calls, with time or with a DEL does.
StrandedOnlyByGivingUp ==
  [][\A k \in CounterKeys : ~Stranded(k) /\ Stranded(k)' =>
       \E c \in Calls :
         key[c] = k /\ phase[c] = "expire" /\ phase'[c] = "dead"]_vars

\* Every window that is not stranded closes, however many requests keep
\* arriving in it and whichever calls are given up.
WindowCloses ==
  \A k \in CountKeys :
    counter[k].val > 0 ~> counter[k].val = 0 \/ Stranded(k)

\* Once no call is under way every counter that is left has an expiry.
NoStrandedCounter ==
  (\A c \in Calls : ~InFlight(c)) =>
    \A k \in CounterKeys : counter[k].val > 0 => counter[k].ttl > 0
=============================================================================
