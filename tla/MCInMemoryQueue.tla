-------------------------- MODULE MCInMemoryQueue --------------------------
(***************************************************************************)
(* An instance of InMemoryQueue for TLC.                                   *)
(***************************************************************************)
EXTENDS InMemoryQueue, TLC

=============================================================================
