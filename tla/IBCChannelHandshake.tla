------------------------ MODULE IBCChannelHandshake ------------------------
(***************************************************************************)
(* The channel handshake (core/04-channel/IBCChannelHandshake.sol) over    *)
(* the connections IBCConnection opens.  As there, anybody may submit any  *)
(* message, what was ever committed can be proven for ever, and a handler  *)
(* that reverts, or whose module reverts in its callback, is a step not    *)
(* taken.                                                                  *)
(***************************************************************************)
EXTENDS IBCConnection

CONSTANTS
  Port,           \* the ports, each the address of a module
  ChannelVersion, \* the versions modules may agree on
  MaxChannels     \* bound: channel ends, of both chains together

ASSUME ChannelAssumption == MaxChannels \in Nat

VARIABLES
  channels,          \* the ends of each chain, by identifier, with their port
  committedChannels  \* every end each chain ever had in its provable store

channelVars == <<channels, committedChannels>>

vars == <<connectionVars, channelVars>>

(* Identifiers are handed out in order, whatever the port: number n here   *)
(* is "channel-(n-1)", and 0 the empty identifier.                         *)
ChannelId == 0..MaxChannels

ChannelEnd ==
  [state : {"INIT", "TRYOPEN", "OPEN", "CLOSED"},
   ordering : Feature,
   counterparty : [port_id : Port, channel_id : ChannelId],
   connection_hop : ConnectionId,
   version : ChannelVersion]

InitChannels ==
  /\ channels = [c \in Chain |-> <<>>]
  /\ committedChannels = [c \in Chain |-> {}]

Init == InitConnections /\ InitChannels

-----------------------------------------------------------------------------
(* The parts of the handlers *)

ensureConnectionState(c, hop) ==
  hop \in DOMAIN connections[c] /\ connections[c][hop].state = "OPEN"

ensureConnectionFeature(c, hop, ordering) ==
  /\ ensureConnectionState(c, hop)
  /\ Len(connections[c][hop].versions) = 1
  /\ ordering \in connections[c][hop].versions[1].features

getCounterpartyHops(c, hop) == connections[c][hop].counterparty.connection_id

(* A handler stores end under port and id and updates its commitment.      *)
updateChannelCommitment(c, port, id, end) ==
  /\ channels' = [channels EXCEPT
       ![c] = IF id \in DOMAIN @ THEN [@ EXCEPT ![id].end = end]
                                 ELSE Append(@, [port |-> port, end |-> end])]
  /\ committedChannels' = [committedChannels EXCEPT
       ![c] = @ \cup {[port |-> port, id |-> id, end |-> end]}]
  /\ UNCHANGED connectionVars

nextChannelId(c) == Len(channels[c]) + 1

(* Bound.                                                                  *)
roomForChannel == Len(channels[ChainA]) + Len(channels[ChainB]) < MaxChannels

(* The end that the other chain must have for the channel of this one.     *)
expectedChannel(c, port, id, end, state, version) ==
  [state |-> state, ordering |-> end.ordering,
   counterparty |-> [port_id |-> port, channel_id |-> id],
   connection_hop |-> getCounterpartyHops(c, end.connection_hop),
   version |-> version]

verifyChannelState(c, port, id, end) ==
  [port |-> port, id |-> id, end |-> end] \in committedChannels[counterparty(c)]

-----------------------------------------------------------------------------
(* The handlers *)

channelOpenInit(c, port, ordering, counterpartyPort, hop, version) ==
  /\ roomForChannel
  /\ ensureConnectionFeature(c, hop, ordering)
  /\ updateChannelCommitment(c, port, nextChannelId(c),
       [state |-> "INIT", ordering |-> ordering,
        counterparty |-> [port_id |-> counterpartyPort, channel_id |-> 0],
        connection_hop |-> hop, version |-> version])

(* The version of the new end is the relayer's to choose, for the module   *)
(* to accept.                                                              *)
channelOpenTry(c, port, ordering, cp, hop, version, counterpartyVersion) ==
  LET end == [state |-> "TRYOPEN", ordering |-> ordering, counterparty |-> cp,
              connection_hop |-> hop, version |-> version] IN
  /\ roomForChannel
  /\ ensureConnectionFeature(c, hop, ordering)
  /\ verifyChannelState(c, cp.port_id, cp.channel_id,
       expectedChannel(c, port, 0, end, "INIT", counterpartyVersion))
  /\ updateChannelCommitment(c, port, nextChannelId(c), end)

(* Mutant: any end that was tried for this port will do.                   *)
channelOpenAck_anyTry(c, id, counterpartyId, counterpartyVersion) ==
  LET port == channels[c][id].port
      end == channels[c][id].end IN
  /\ id \in DOMAIN channels[c] /\ end.state = "INIT"
  /\ ensureConnectionState(c, end.connection_hop)
  /\ \E named \in ChannelId :
       verifyChannelState(c, end.counterparty.port_id, counterpartyId,
         expectedChannel(c, port, named, end, "TRYOPEN", counterpartyVersion))
  /\ updateChannelCommitment(c, port, id,
       [end EXCEPT !.state = "OPEN", !.version = counterpartyVersion,
                   !.counterparty.channel_id = counterpartyId])

channelOpenAck(c, id, counterpartyId, counterpartyVersion) ==
  LET port == channels[c][id].port
      end == channels[c][id].end IN
  /\ id \in DOMAIN channels[c] /\ end.state = "INIT"
  /\ ensureConnectionState(c, end.connection_hop)
  /\ verifyChannelState(c, end.counterparty.port_id, counterpartyId,
       expectedChannel(c, port, id, end, "TRYOPEN", counterpartyVersion))
  /\ updateChannelCommitment(c, port, id,
       [end EXCEPT !.state = "OPEN", !.version = counterpartyVersion,
                   !.counterparty.channel_id = counterpartyId])

(* Mutant: that the end it was tried for has opened is enough.             *)
channelOpenConfirm_anyOpen(c, id) ==
  LET port == channels[c][id].port
      end == channels[c][id].end IN
  /\ id \in DOMAIN channels[c] /\ end.state = "TRYOPEN"
  /\ ensureConnectionState(c, end.connection_hop)
  /\ \E open \in committedChannels[counterparty(c)] :
       open.end.state = "OPEN" /\ open.id = end.counterparty.channel_id
  /\ updateChannelCommitment(c, port, id, [end EXCEPT !.state = "OPEN"])

channelOpenConfirm(c, id) ==
  LET port == channels[c][id].port
      end == channels[c][id].end IN
  /\ id \in DOMAIN channels[c] /\ end.state = "TRYOPEN"
  /\ ensureConnectionState(c, end.connection_hop)
  /\ verifyChannelState(c, end.counterparty.port_id, end.counterparty.channel_id,
       expectedChannel(c, port, id, end, "OPEN", end.version))
  /\ updateChannelCommitment(c, port, id, [end EXCEPT !.state = "OPEN"])

channelCloseInit(c, id) ==
  LET end == channels[c][id].end IN
  /\ id \in DOMAIN channels[c] /\ end.state = "OPEN"
  /\ ensureConnectionState(c, end.connection_hop)
  /\ updateChannelCommitment(c, channels[c][id].port, id,
       [end EXCEPT !.state = "CLOSED"])

channelCloseConfirm(c, id) ==
  LET port == channels[c][id].port
      end == channels[c][id].end IN
  /\ id \in DOMAIN channels[c] /\ end.state = "OPEN"
  /\ ensureConnectionState(c, end.connection_hop)
  /\ verifyChannelState(c, end.counterparty.port_id, end.counterparty.channel_id,
       expectedChannel(c, port, id, end, "CLOSED", end.version))
  /\ updateChannelCommitment(c, port, id, [end EXCEPT !.state = "CLOSED"])

-----------------------------------------------------------------------------
(* A message that carries a proof is only tried with what can be proven.   *)
ChannelStep(c) ==
  \/ \E port, counterpartyPort \in Port, ordering \in Feature,
        hop \in DOMAIN connections[c], version \in ChannelVersion :
       channelOpenInit(c, port, ordering, counterpartyPort, hop, version)
  \/ \E init \in committedChannels[counterparty(c)], hop \in DOMAIN connections[c],
        version \in ChannelVersion :
       channelOpenTry(c, init.end.counterparty.port_id, init.end.ordering,
                      [port_id |-> init.port, channel_id |-> init.id], hop,
                      version, init.end.version)
  \/ \E id \in DOMAIN channels[c], try \in committedChannels[counterparty(c)] :
       channelOpenAck(c, id, try.id, try.end.version)
  \/ \E id \in DOMAIN channels[c] : channelOpenConfirm(c, id)
  \/ \E id \in DOMAIN channels[c] : channelCloseInit(c, id)
  \/ \E id \in DOMAIN channels[c] : channelCloseConfirm(c, id)

Next ==
  \E c \in Chain :
    \/ ChannelStep(c)
    \/ ConnectionStep(c) /\ UNCHANGED channelVars

Spec == Init /\ [][Next]_vars

-----------------------------------------------------------------------------
(* Properties *)

HasOpened(c, id) == channels[c][id].end.state \in {"OPEN", "CLOSED"}

(* An end that has opened names an end of the other chain that names it    *)
(* back, port and all, over the two ends of one connection, with the same  *)
(* ordering and version, whatever of either was closed since               *)
(* (channelOpenAck, channelOpenConfirm).                                   *)
ChannelsAgree ==
  \A c \in Chain : \A id \in DOMAIN channels[c] : HasOpened(c, id) =>
    LET port == channels[c][id].port
        end == channels[c][id].end
        otherId == end.counterparty.channel_id
        other == channels[counterparty(c)][otherId].end
    IN /\ otherId \in DOMAIN channels[counterparty(c)]
       /\ channels[counterparty(c)][otherId].port = end.counterparty.port_id
       /\ other = expectedChannel(c, port, id, end, other.state, end.version)
       /\ other.state # "INIT"
       /\ getCounterpartyHops(counterparty(c), other.connection_hop) = end.connection_hop

(* However often a handshake message is repeated, at most one end of a     *)
(* chain ever opens towards a channel of the other: no packet of one       *)
(* channel can be received on two.                                         *)
ChannelsPairUp ==
  \A c \in Chain : \A i, j \in DOMAIN channels[c] :
    /\ HasOpened(c, i) /\ HasOpened(c, j)
    /\ channels[c][i].end.counterparty = channels[c][j].end.counterparty
    => i = j

=============================================================================
