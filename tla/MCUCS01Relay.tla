---------------------------- MODULE MCUCS01Relay ----------------------------
(***************************************************************************)
(* An instance of UCS01Relay for TLC: one token of ChainA, two channels.   *)
(***************************************************************************)
EXTENDS UCS01Relay

CONSTANTS ch1, ch2, A1, A2, B1, B2, token

MCEndpoint ==
  ChainA :> (ch1 :> A1 @@ ch2 :> A2) @@ ChainB :> (ch1 :> B1 @@ ch2 :> B2)

MCNative == ChainA :> {token} @@ ChainB :> {}

=============================================================================
