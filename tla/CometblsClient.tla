--------------------------- MODULE CometblsClient ---------------------------
(***************************************************************************)
(* A CometBLS light client (clients/CometblsClientV2.sol) on an EVM chain, *)
(* with the part of the IBC handler that creates and updates it            *)
(* (core/02-client/IBCClient.sol).                                         *)
(*                                                                         *)
(* Signed holds the headers enough validators of the tracked chain signed, *)
(* its own at each height and, if they ever signed two, the others; a zero *)
(* knowledge proof exists for a header over a trusted validator set if a   *)
(* third of that set signed it too.  Heights are of one revision.          *)
(***************************************************************************)
EXTENDS Integers, FiniteSets

CONSTANTS
  Signed,          \* the signed headers
  Proves,          \* <<validators, header>> for which a proof can be made
  TrustingPeriod, MaxClockDrift,
  DelayTime, DelayBlocks, \* the delay periods connections ask for
  TimeStep,        \* how much later than its parent a block may be
  MaxBlock,        \* bound: blocks of the host chain
  NoClient, NoProof

ASSUME ClientAssumption ==
  /\ \A hd \in Signed : hd.height \in Nat \ {0} /\ hd.time \in Nat \ {0}
  /\ TrustingPeriod \in Nat /\ MaxClockDrift \in Nat
  /\ DelayTime \subseteq Nat /\ DelayBlocks \subseteq Nat
  /\ TimeStep \subseteq Nat \ {0} /\ MaxBlock \in Nat

VARIABLES
  block,             \* the host chain's block: its number and timestamp
  clientState,       \* latest_height and whether frozen_height is set
  consensusStates, processedMoments,  \* by height
  commitments,       \* the client and consensus states the handler committed
  heldSince,         \* when the client first held the state it has, by height
  proof              \* the last proof that was verified

clientVars == <<clientState, consensusStates, processedMoments, commitments, heldSince>>
lightClientVars == <<block, clientVars, proof>>

Height == {hd.height : hd \in Signed}

stateOf(hd) == [timestamp |-> hd.time, appHash |-> hd.app_hash,
                nextValidatorsHash |-> hd.next_validators_hash]

put(f, h, value) == [x \in DOMAIN f \cup {h} |-> IF x = h THEN value ELSE f[x]]

noHeights == [h \in {} |-> 0]

InitLightClient ==
  /\ block = [number |-> 1, timestamp |-> 1]
  /\ clientState = NoClient
  /\ consensusStates = noHeights /\ processedMoments = noHeights
  /\ commitments = [client |-> NoClient, consensus |-> noHeights]
  /\ heldSince = noHeights
  /\ proof = NoProof

-----------------------------------------------------------------------------
(* Mutant: the moment of a height that is known already is kept.           *)
store_firstMoment(h, cs) ==
  /\ consensusStates' = put(consensusStates, h, cs)
  /\ processedMoments' = IF h \in DOMAIN processedMoments THEN processedMoments
                         ELSE put(processedMoments, h, block)
  /\ heldSince' = IF h \in DOMAIN consensusStates /\ consensusStates[h] = cs
                  THEN heldSince ELSE put(heldSince, h, block)

(* The client stores cs at h, whatever it had there.                       *)
store(h, cs) ==
  /\ consensusStates' = put(consensusStates, h, cs)
  /\ processedMoments' = put(processedMoments, h, block)
  /\ heldSince' = IF h \in DOMAIN consensusStates /\ consensusStates[h] = cs
                  THEN heldSince ELSE put(heldSince, h, block)

(* Mutant: a consensus state is only committed the first time.             *)
commit_once(h, cs, client) ==
  commitments' = [client |-> client,
                  consensus |-> IF h \in DOMAIN commitments.consensus
                                THEN commitments.consensus
                                ELSE put(commitments.consensus, h, cs)]

(* The handler commits what the client returned.                           *)
commit(h, cs, client) ==
  commitments' = [client |-> client, consensus |-> put(commitments.consensus, h, cs)]

isExpired(headerTime) == block.timestamp > headerTime + TrustingPeriod

(* The header hd is accepted over the state trusted at height h.           *)
verifyHeader(hd, h) ==
  /\ h \in DOMAIN consensusStates
  /\ hd.height > h
  /\ hd.time > consensusStates[h].timestamp
  /\ ~isExpired(hd.time)
  /\ hd.time < block.timestamp + MaxClockDrift
  /\ hd.height = h + 1 => hd.validators_hash = consensusStates[h].nextValidatorsHash
  /\ <<consensusStates[h].nextValidatorsHash, hd>> \in Proves

-----------------------------------------------------------------------------
(* Whoever creates the client chooses the state it starts from: one of the *)
(* chain's.                                                                *)
createClient(hd) ==
  LET client == [latest_height |-> hd.height, frozen |-> FALSE] IN
  /\ clientState = NoClient
  /\ clientState' = client
  /\ store(hd.height, stateOf(hd))
  /\ commit(hd.height, stateOf(hd), client)
  /\ UNCHANGED <<block, proof>>

(* Mutant: the new state overwrites the trusted one.                       *)
updateClient_overTrusted(hd, trusted) ==
  LET client == [clientState EXCEPT
        !.latest_height = IF hd.height > @ THEN hd.height ELSE @] IN
  /\ clientState # NoClient /\ ~clientState.frozen
  /\ verifyHeader(hd, trusted)
  /\ clientState' = client
  /\ store(trusted, stateOf(hd))
  /\ commit(trusted, stateOf(hd), client)
  /\ UNCHANGED <<block, proof>>

updateClient(hd, trusted) ==
  LET client == [clientState EXCEPT
        !.latest_height = IF hd.height > @ THEN hd.height ELSE @] IN
  /\ clientState # NoClient /\ ~clientState.frozen
  /\ verifyHeader(hd, trusted)
  /\ clientState' = client
  /\ store(hd.height, stateOf(hd))
  /\ commit(hd.height, stateOf(hd), client)
  /\ UNCHANGED <<block, proof>>

(* Two headers that an update would accept are taken for a fork if they    *)
(* differ over one trusted height, and for a violation of time if the one  *)
(* over the higher trusted height is not the later.                        *)
checkMisbehavior(a, trustedA, b, trustedB) ==
  \/ trustedA = trustedB /\ a # b
  \/ trustedA # trustedB /\ a.time <= b.time

(* The client is frozen, the handler not told.                             *)
misbehavior(a, trustedA, b, trustedB) ==
  /\ clientState # NoClient
  /\ trustedA >= trustedB
  /\ verifyHeader(a, trustedA) /\ verifyHeader(b, trustedB)
  /\ checkMisbehavior(a, trustedA, b, trustedB)
  /\ clientState' = [clientState EXCEPT !.frozen = TRUE]
  /\ UNCHANGED <<block, consensusStates, processedMoments, commitments, heldSince, proof>>

validateDelayPeriod(h, delayTime, delayBlocks) ==
  /\ h \in DOMAIN consensusStates
  /\ delayTime # 0 => block.timestamp >= processedMoments[h].timestamp + delayTime
  /\ delayBlocks # 0 => block.number >= processedMoments[h].number + delayBlocks

(* A module's proof, of membership or of non-membership, is verified.      *)
verifyMembership(h, delayTime, delayBlocks) ==
  /\ clientState # NoClient /\ ~clientState.frozen
  /\ validateDelayPeriod(h, delayTime, delayBlocks)
  /\ proof' = [height |-> h, delayTime |-> delayTime, delayBlocks |-> delayBlocks,
               heldTime |-> block.timestamp - heldSince[h].timestamp,
               heldBlocks |-> block.number - heldSince[h].number]
  /\ UNCHANGED <<block, clientVars>>

NewBlock ==
  /\ block.number < MaxBlock
  /\ \E step \in TimeStep :
       block' = [number |-> block.number + 1, timestamp |-> block.timestamp + step]
  /\ UNCHANGED <<clientVars, proof>>

LightClientNext ==
  \/ NewBlock
  \/ \E hd \in Signed : createClient(hd)
  \/ \E hd \in Signed, h \in Height : updateClient(hd, h)
  \/ \E a, b \in Signed, h, g \in Height : misbehavior(a, h, b, g)
  \/ \E h \in Height, time \in DelayTime, blocks \in DelayBlocks :
       verifyMembership(h, time, blocks)

LightClientSpec == InitLightClient /\ [][LightClientNext]_lightClientVars

-----------------------------------------------------------------------------
(* Properties *)

ConsensusState == {stateOf(hd) : hd \in Signed}

(* A proof is only verified against a root the client has held, unchanged, *)
(* for the delay the connection asks for, also when an update replaced the *)
(* state at a height that was known (updateClient, validateDelayPeriod).   *)
DelayRespected ==
  proof # NoProof => proof.heldTime >= proof.delayTime /\ proof.heldBlocks >= proof.delayBlocks

(* The handler has committed exactly the states the client goes by, but    *)
(* that a freeze is never committed: misbehavior does not go through the   *)
(* handler.                                                                *)
CommittedIsCurrent ==
  /\ commitments.consensus = consensusStates
  /\ clientState # NoClient =>
       commitments.client = [clientState EXCEPT !.frozen = FALSE]

(* A state the client has stored never changes, as the packet layer relies *)
(* on when it reads a root twice, unless the chain signed two headers for  *)
(* its height.                                                             *)
RootsAreStable ==
  [][\A h \in DOMAIN consensusStates :
       \/ consensusStates'[h] = consensusStates[h]
       \/ \E a, b \in Signed : a # b /\ a.height = h /\ b.height = h]_lightClientVars

=============================================================================
