--------------------------- MODULE MCIBCHandshake ---------------------------
(***************************************************************************)
(* The connection and the channel handshake together, for TLC, from two    *)
(* chains without either.  ChainA supports the default version with both   *)
(* orderings; ChainB a second version first, and unordered channels only   *)
(* in the default one, so that a connection has fewer features than ChainA *)
(* proposes.  ChainB has two clients of ChainA.                            *)
(***************************************************************************)
EXTENDS IBCChannelHandshake, TLC

version(identifier, features) == [identifier |-> identifier, features |-> features]

MCClients == ChainA :> {"client-0"} @@ ChainB :> {"client-0", "client-1"}

MCCompatibleVersions ==
  ChainA :> <<version("1", {"ORDER_ORDERED", "ORDER_UNORDERED"})>> @@
  ChainB :> <<version("2", {"ORDER_UNORDERED"}), version("1", {"ORDER_UNORDERED"})>>

Symmetry == Permutations(Port) \cup Permutations(ChannelVersion)

=============================================================================
