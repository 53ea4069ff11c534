--------------------------- MODULE MCThreatConsumer ---------------------------
(***************************************************************************)
(* Small instances of ThreatConsumer for TLC.                              *)
(***************************************************************************)
EXTENDS ThreatConsumer
=============================================================================
