---------------------------- MODULE MCRedisState ----------------------------
(***************************************************************************)
(* Small instances of RedisState for TLC.  Callers come back for ever;     *)
(* CounterCap keeps the counters, and so the state space, finite.          *)
(***************************************************************************)
EXTENDS RedisState, TLC

\* Callers are interchangeable.
CallerSymmetry == Permutations(Callers)
=============================================================================
