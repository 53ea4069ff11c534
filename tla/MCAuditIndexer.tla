--------------------------- MODULE MCAuditIndexer ---------------------------
(***************************************************************************)
(* Small instances of AuditIndexer for TLC.                                *)
(***************************************************************************)
EXTENDS AuditIndexer
=============================================================================
