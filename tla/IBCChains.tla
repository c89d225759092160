----------------------------- MODULE IBCChains -----------------------------
(***************************************************************************)
(* The two chains an IBC connection joins.                                 *)
(***************************************************************************)
CONSTANTS ChainA, ChainB

ASSUME ChainsAssumption == ChainA # ChainB

Chain == {ChainA, ChainB}

counterparty(c) == IF c = ChainA THEN ChainB ELSE ChainA

=============================================================================
