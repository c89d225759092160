---------------------------- MODULE MCUnionvisor ----------------------------
(***************************************************************************)
(* Unionvisor for TLC: two upgrades the bundle has, and one it has not.    *)
(***************************************************************************)
EXTENDS Unionvisor

MCBundle == 1..3

=============================================================================
