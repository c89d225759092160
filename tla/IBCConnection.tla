--------------------------- MODULE IBCConnection ---------------------------
(***************************************************************************)
(* The connection handshake between two deployments of the IBC handler     *)
(* (core/03-connection/IBCConnection.sol).  Anybody may submit any         *)
(* message, any number of times; a handler that reverts is a step not      *)
(* taken.                                                                  *)
(*                                                                         *)
(* The proofs of the handshake are read against a root the client on the   *)
(* verifying chain holds, and the relayer picks the height: whatever end   *)
(* was ever committed can be proven for ever, at the height where it was.  *)
(* committed keeps those ends; how late a client learns of a root only     *)
(* delays a step.                                                          *)
(*                                                                         *)
(* The counterparty's key prefix, under which a proof looks, is left out:  *)
(* a wrong one only makes proofs fail.                                     *)
(***************************************************************************)
EXTENDS IBCChains, Naturals, Sequences

CONSTANTS
  ClientId,         \* the names of light clients
  Clients,          \* the clients that exist on each chain
  DelayPeriod,      \* the delay periods a connection may ask for
  Identifier,       \* the names of protocol versions
  Feature,          \* what a version may support: the channel orderings
  getCompatibleVersions, \* the versions each host chain supports, in order
  ProposedVersion,  \* the versions a connection may be initialised with
  MaxConnections    \* bound: ends, of both chains together

(* A version's features are a list in the code, used as a set.             *)
Version == [identifier : Identifier, features : SUBSET Feature]

ASSUME ConnectionAssumption ==
  /\ Clients \in [Chain -> SUBSET ClientId]
  /\ getCompatibleVersions \in [Chain -> Seq(Version)]
  /\ ProposedVersion \subseteq Version
  /\ MaxConnections \in Nat

VARIABLES
  connections,  \* the ends of each chain, by identifier
  committed     \* every end each chain ever had in its provable store

connectionVars == <<connections, committed>>

(* Identifiers are handed out in order, "connection-0" first: number n     *)
(* here is "connection-(n-1)", and 0 the empty identifier.                 *)
ConnectionId == 0..MaxConnections

ConnectionState == {"INIT", "TRYOPEN", "OPEN"}

ConnectionEnd ==
  [state : ConnectionState,
   client_id : ClientId,
   versions : Seq(Version),
   delay_period : DelayPeriod,
   counterparty : [client_id : ClientId, connection_id : ConnectionId]]

InitConnections ==
  /\ connections = [c \in Chain |-> <<>>]
  /\ committed = [c \in Chain |-> {}]

-----------------------------------------------------------------------------
(* Versions *)

(* The entry of versions with version's identifier, the first if several.  *)
isSupportedEntry(version, versions, i) ==
  /\ versions[i].identifier = version.identifier
  /\ \A j \in 1..(i - 1) : versions[j].identifier # version.identifier

verifyProposedVersion(supportedVersion, proposedVersion) ==
  /\ proposedVersion.identifier = supportedVersion.identifier
  /\ proposedVersion.features # {}
  /\ proposedVersion.features \subseteq supportedVersion.features

isSupportedVersion(supportedVersions, version) ==
  \E i \in DOMAIN supportedVersions :
    /\ isSupportedEntry(version, supportedVersions, i)
    /\ verifyProposedVersion(supportedVersions[i], version)

(* What each supported version leaves of the counterparty's version of the *)
(* same identifier, when that is not nothing.                              *)
commonVersion(supportedVersion, counterpartyVersions) ==
  {[identifier |-> supportedVersion.identifier,
    features |-> supportedVersion.features \cap counterpartyVersions[i].features] :
      i \in {j \in DOMAIN counterpartyVersions :
               isSupportedEntry(supportedVersion, counterpartyVersions, j)}}

(* The version pickVersion returns, as a set: empty when it reverts.       *)
pickVersion(supportedVersions, counterpartyVersions) ==
  LET common(i) == {v \in commonVersion(supportedVersions[i], counterpartyVersions) :
                      v.features # {}}
  IN UNION {common(i) : i \in {j \in DOMAIN supportedVersions :
                                 \A k \in 1..(j - 1) : common(k) = {}}}

-----------------------------------------------------------------------------
(* The handlers *)

(* A handler stores end under id and updates the connection commitment.    *)
commitConnection(c, id, end) ==
  /\ connections' = [connections EXCEPT
       ![c] = IF id \in DOMAIN @ THEN [@ EXCEPT ![id] = end] ELSE Append(@, end)]
  /\ committed' = [committed EXCEPT ![c] = @ \cup {[id |-> id, end |-> end]}]

nextConnectionId(c) == Len(connections[c]) + 1

(* Bound.                                                                  *)
roomForConnection == Len(connections[ChainA]) + Len(connections[ChainB]) < MaxConnections

(* The client exists, and the counterparty committed end under id.         *)
verifyConnectionState(c, client, id, end) ==
  /\ client \in Clients[c]
  /\ [id |-> id, end |-> end] \in committed[counterparty(c)]

(* A message whose version has no features offers all of the chain's.      *)
connectionOpenInit(c, client, versions, delay, cp) ==
  /\ roomForConnection
  /\ \/ versions = getCompatibleVersions[c]
     \/ /\ Len(versions) = 1
        /\ isSupportedVersion(getCompatibleVersions[c], versions[1])
  /\ commitConnection(c, nextConnectionId(c),
       [state |-> "INIT", client_id |-> client, versions |-> versions,
        delay_period |-> delay, counterparty |-> cp])

connectionOpenTry(c, client, versions, delay, cp) ==
  /\ roomForConnection
  /\ versions # <<>>
  /\ \E version \in pickVersion(getCompatibleVersions[c], versions) :
       commitConnection(c, nextConnectionId(c),
         [state |-> "TRYOPEN", client_id |-> client, versions |-> <<version>>,
          delay_period |-> delay, counterparty |-> cp])
  /\ verifyConnectionState(c, client, cp.connection_id,
       [state |-> "INIT", client_id |-> cp.client_id, versions |-> versions,
        delay_period |-> delay,
        counterparty |-> [client_id |-> client, connection_id |-> 0]])
  /\ cp.client_id \in Clients[counterparty(c)]

(* Mutant: the other end need not name this one.                           *)
connectionOpenAck_anyTry(c, id, version, counterpartyId) ==
  LET end == connections[c][id] IN
  /\ id \in DOMAIN connections[c] /\ end.state = "INIT"
  /\ isSupportedVersion(end.versions, version)
  /\ \E named \in ConnectionId :
       verifyConnectionState(c, end.client_id, counterpartyId,
         [state |-> "TRYOPEN", client_id |-> end.counterparty.client_id,
          versions |-> <<version>>, delay_period |-> end.delay_period,
          counterparty |-> [client_id |-> end.client_id, connection_id |-> named]])
  /\ end.counterparty.client_id \in Clients[counterparty(c)]
  /\ commitConnection(c, id,
       [end EXCEPT !.state = "OPEN", !.versions = <<version>>,
                   !.counterparty.connection_id = counterpartyId])

connectionOpenAck(c, id, version, counterpartyId) ==
  LET end == connections[c][id] IN
  /\ id \in DOMAIN connections[c] /\ end.state = "INIT"
  /\ isSupportedVersion(end.versions, version)
  /\ verifyConnectionState(c, end.client_id, counterpartyId,
       [state |-> "TRYOPEN", client_id |-> end.counterparty.client_id,
        versions |-> <<version>>, delay_period |-> end.delay_period,
        counterparty |-> [client_id |-> end.client_id, connection_id |-> id]])
  /\ end.counterparty.client_id \in Clients[counterparty(c)]
  /\ commitConnection(c, id,
       [end EXCEPT !.state = "OPEN", !.versions = <<version>>,
                   !.counterparty.connection_id = counterpartyId])

(* Mutant: any open end of the other chain with these clients will do.     *)
connectionOpenConfirm_anyOpen(c, id) ==
  LET end == connections[c][id] IN
  /\ id \in DOMAIN connections[c] /\ end.state = "TRYOPEN"
  /\ \E open \in committed[counterparty(c)] :
       open.end.state = "OPEN" /\ open.id = end.counterparty.connection_id
  /\ commitConnection(c, id, [end EXCEPT !.state = "OPEN"])

connectionOpenConfirm(c, id) ==
  LET end == connections[c][id] IN
  /\ id \in DOMAIN connections[c] /\ end.state = "TRYOPEN"
  /\ verifyConnectionState(c, end.client_id, end.counterparty.connection_id,
       [state |-> "OPEN", client_id |-> end.counterparty.client_id,
        versions |-> end.versions, delay_period |-> end.delay_period,
        counterparty |-> [client_id |-> end.client_id, connection_id |-> id]])
  /\ commitConnection(c, id, [end EXCEPT !.state = "OPEN"])

-----------------------------------------------------------------------------
(* A message that carries a proof is only tried with what can be proven.   *)
ConnectionStep(c) ==
  \/ \E client, cpClient \in ClientId, delay \in DelayPeriod, cpId \in ConnectionId,
        versions \in {getCompatibleVersions[c]} \cup {<<v>> : v \in ProposedVersion} :
       connectionOpenInit(c, client, versions, delay,
                          [client_id |-> cpClient, connection_id |-> cpId])
  \/ \E init \in committed[counterparty(c)] :
       connectionOpenTry(c, init.end.counterparty.client_id, init.end.versions,
                         init.end.delay_period,
                         [client_id |-> init.end.client_id, connection_id |-> init.id])
  \/ \E id \in DOMAIN connections[c], try \in committed[counterparty(c)] :
       \E i \in DOMAIN try.end.versions :
         connectionOpenAck(c, id, try.end.versions[i], try.id)
  \/ \E id \in DOMAIN connections[c] : connectionOpenConfirm(c, id)

ConnectionNext == \E c \in Chain : ConnectionStep(c)

ConnectionSpec == InitConnections /\ [][ConnectionNext]_connectionVars

-----------------------------------------------------------------------------
(* Properties *)

(* The end of the other chain that this end names.                         *)
otherConnection(c, end) == connections[counterparty(c)][end.counterparty.connection_id]

(* An open end names an end of the other chain that names it back, over    *)
(* the same pair of clients, with the one version both negotiated and the  *)
(* same delay, and that cannot become anything but open                    *)
(* (connectionOpenAck, connectionOpenConfirm).                             *)
ConnectionsAgree ==
  \A c \in Chain : \A id \in DOMAIN connections[c] :
    LET end == connections[c][id]
        other == otherConnection(c, end)
    IN end.state = "OPEN" =>
         /\ end.counterparty.connection_id \in DOMAIN connections[counterparty(c)]
         /\ other.state \in {"TRYOPEN", "OPEN"}
         /\ other.counterparty = [client_id |-> end.client_id, connection_id |-> id]
         /\ other.client_id = end.counterparty.client_id
         /\ other.versions = end.versions
         /\ other.delay_period = end.delay_period

(* However often a handshake message is repeated, at most one end per      *)
(* chain opens towards an end of the other: the surplus of a repeated      *)
(* connectionOpenTry never does.                                           *)
ConnectionsPairUp ==
  \A c \in Chain : \A i, j \in DOMAIN connections[c] :
    /\ connections[c][i].state = "OPEN" /\ connections[c][j].state = "OPEN"
    /\ connections[c][i].counterparty.connection_id = connections[c][j].counterparty.connection_id
    => i = j

=============================================================================
