----------------------------- MODULE MCPgQueue -----------------------------
(***************************************************************************)
(* An instance of PgQueue for TLC.                                         *)
(***************************************************************************)
EXTENDS PgQueue, TLC

=============================================================================
