---------------------------- MODULE MCEngineCalls ----------------------------
(***************************************************************************)
(* A small instance of EngineCalls for TLC.                                *)
(***************************************************************************)
EXTENDS EngineCalls
=============================================================================
