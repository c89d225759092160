---------------------------- MODULE MCIBCPacket ----------------------------
(***************************************************************************)
(* Instances of IBCPacket for TLC: ChainA is an EVM chain (revision 0, the *)
(* root of a header is the state after its block), ChainB a CometBFT chain *)
(* (revision 1, the root lags one block behind).                           *)
(***************************************************************************)
EXTENDS IBCPacket, TLC

MCRevision == ChainA :> 0 @@ ChainB :> 1
MCRootLag == ChainA :> 0 @@ ChainB :> 1

at(number, height) == [revision_number |-> number, revision_height |-> height]

(* No height timeout, and one that only ChainB ever reaches.               *)
MCTimeoutHeight == {zero, at(1, 3)}
MCNoHeight == {zero}

=============================================================================
