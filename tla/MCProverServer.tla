--------------------------- MODULE MCProverServer ---------------------------
(***************************************************************************)
(* ProverServer for TLC: four messages, two of which ask for the same      *)
(* proof, and room for two jobs.                                           *)
(***************************************************************************)
EXTENDS ProverServer

CONSTANTS c1, c2, c3, c4, k1, k2, k3

MCClients == {c1, c2, c3, c4}
MCKeys == {k1, k2, k3}
MCrequest == [c \in MCClients |-> CASE c = c1 -> k1 [] c = c2 -> k2 [] OTHER -> k3]

=============================================================================
