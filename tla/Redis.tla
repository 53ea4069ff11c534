------------------------------- MODULE Redis -------------------------------
(***************************************************************************)
(* The Redis commands the gateway and the threat engine issue, as pure     *)
(* operators on a keyspace: a function from keys to entries.  An entry     *)
(* holds an integer value, 0 when the key is absent, and the time left     *)
(* before the key expires, 0 when it has no expiry.  One command is        *)
(* atomic; Redis runs them one at a time.                                  *)
(***************************************************************************)
EXTENDS Naturals

CONSTANT CounterCap   \* bound: counters at or above it are not told apart

ASSUME CapAssumption == CounterCap \in Nat /\ CounterCap >= 2

Entry == [val : 0 .. CounterCap, ttl : Nat]
Absent == [val |-> 0, ttl |-> 0]

\* EXISTS k
HasKey(s, k) == s[k].val > 0

\* What INCR k returns.
Bumped(s, k) == IF s[k].val < CounterCap THEN s[k].val + 1 ELSE CounterCap

\* INCR k: creates the key at 1, without an expiry; leaves an expiry alone.
Incr(s, k) == [s EXCEPT ![k].val = Bumped(s, k)]

\* EXPIRE k t: no effect on a key that is not there.
Expire(s, k, t) == IF HasKey(s, k) THEN [s EXCEPT ![k].ttl = t] ELSE s

\* SET k v EX t: replaces the value and the expiry.
SetEx(s, k, t) == [s EXCEPT ![k] = [val |-> 1, ttl |-> t]]

\* DEL k
Del(s, k) == [s EXCEPT ![k] = Absent]

\* Mutant of Passed: a key without an expiry is counted down as well.
PassedBelowZero(e) ==
  IF e.ttl = 1 THEN Absent ELSE [val |-> e.val, ttl |-> e.ttl - 1]

\* What one unit of time does to an entry.
Passed(e) ==
  IF e.ttl = 1 THEN Absent
  ELSE [val |-> e.val, ttl |-> IF e.ttl = 0 THEN 0 ELSE e.ttl - 1]

\* One unit of time passes for a whole keyspace.
Elapsed(s) == [k \in DOMAIN s |-> Passed(s[k])]
=============================================================================
