--------------------------- MODULE MCRelayMessage ---------------------------
(***************************************************************************)
(* An instance of RelayMessage for TLC, between the two chains of          *)
(* MCIBCPacket.  A second is two units: a timeout of 3 is in the middle of *)
(* one.                                                                    *)
(***************************************************************************)
EXTENDS RelayMessage, TLC

MCRevision == ChainA :> 0 @@ ChainB :> 1
MCRootLag == ChainA :> 0 @@ ChainB :> 1

MCTimeoutHeight == {zero, [revision_number |-> 1, revision_height |-> 3]}

=============================================================================
