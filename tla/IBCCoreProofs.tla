---------------------------- MODULE IBCCoreProofs ----------------------------
(***************************************************************************)
(* What packets rest on.  First the light client of CometblsClient, for    *)
(* every set of signed headers and of proofs that can be made, any periods *)
(* and any number of blocks.  Then the two handshakes of IBCConnection and *)
(* IBCChannelHandshake, for every number of ends, clients, versions and    *)
(* ports: an end that has opened was proven to be the one the other        *)
(* chain's end names, and stays so.  The two have no state in common.      *)
(***************************************************************************)
EXTENDS CometblsClient, IBCChannelHandshake, TLAPS

-----------------------------------------------------------------------------
(* The light client *)

Moment == [number : Nat, timestamp : Nat]
Client == [latest_height : Nat, frozen : BOOLEAN]

(* The client keeps a moment and a state for the same heights.             *)
LightClientTypeOK ==
  /\ block \in Moment
  /\ clientState # NoClient => clientState \in Client
  /\ DOMAIN processedMoments = DOMAIN consensusStates
  /\ DOMAIN heldSince = DOMAIN consensusStates
  /\ \A h \in DOMAIN consensusStates : processedMoments[h] \in Moment /\ heldSince[h] \in Moment

(* A state has been held at least since the moment the client goes by,     *)
(* which an update may have set again.                                     *)
HeldBeforeProcessed ==
  \A h \in DOMAIN consensusStates :
    /\ heldSince[h].number <= processedMoments[h].number
    /\ heldSince[h].timestamp <= processedMoments[h].timestamp
    /\ processedMoments[h].number <= block.number
    /\ processedMoments[h].timestamp <= block.timestamp

(* What is stored at a height is the state of a header of that height.     *)
StoredIsSigned ==
  \A h \in DOMAIN consensusStates :
    \E hd \in Signed : hd.height = h /\ consensusStates[h] = stateOf(hd)

(* The inductive invariant.                                                *)
LightClientInv ==
  /\ LightClientTypeOK
  /\ HeldBeforeProcessed
  /\ StoredIsSigned
  /\ DelayRespected
  /\ CommittedIsCurrent

-----------------------------------------------------------------------------
(* Nothing is stored at the start.                                         *)
LEMMA InitLightClientInv == InitLightClient => LightClientInv
<1> SUFFICES ASSUME InitLightClient
             PROVE  LightClientInv
  OBVIOUS
<1>1. DOMAIN noHeights = {}
  BY DEF noHeights
<1>2. LightClientTypeOK
  BY <1>1 DEF InitLightClient, LightClientTypeOK, Moment
<1>3. HeldBeforeProcessed /\ StoredIsSigned
  BY <1>1 DEF InitLightClient, HeldBeforeProcessed, StoredIsSigned
<1>4. DelayRespected /\ CommittedIsCurrent
  BY DEF InitLightClient, DelayRespected, CommittedIsCurrent
<1> QED
  BY <1>2, <1>3, <1>4 DEF LightClientInv

(* An update stores the state of a header at its height, committed with    *)
(* the client; a state the client had already keeps the moment since which *)
(* it is held.                                                             *)
LEMMA StoreInv ==
  ASSUME LightClientInv, NEW hd \in Signed, NEW client \in Client, client.frozen = FALSE,
         clientState' = client,
         store(hd.height, stateOf(hd)), commit(hd.height, stateOf(hd), client),
         UNCHANGED <<block, proof>>
  PROVE  LightClientInv'
<1> USE DEF LightClientInv
<1> DEFINE h == hd.height
           cs == stateOf(hd)
<1>1. /\ consensusStates' = put(consensusStates, h, cs)
      /\ processedMoments' = put(processedMoments, h, block)
      /\ \/ heldSince' = heldSince /\ h \in DOMAIN consensusStates
         \/ heldSince' = put(heldSince, h, block)
  BY DEF store
<1>2. /\ DOMAIN consensusStates' = DOMAIN consensusStates \cup {h}
      /\ consensusStates'[h] = cs
      /\ \A x \in DOMAIN consensusStates \ {h} : consensusStates'[x] = consensusStates[x]
  BY <1>1 DEF put
<1>3. /\ DOMAIN processedMoments' = DOMAIN consensusStates'
      /\ processedMoments'[h] = block
      /\ \A x \in DOMAIN consensusStates \ {h} : processedMoments'[x] = processedMoments[x]
  BY <1>1, <1>2 DEF LightClientTypeOK, put
<1>4. /\ DOMAIN heldSince' = DOMAIN consensusStates'
      /\ \/ heldSince'[h] = block
         \/ heldSince'[h] = heldSince[h] /\ h \in DOMAIN consensusStates
      /\ \A x \in DOMAIN consensusStates \ {h} : heldSince'[x] = heldSince[x]
  BY <1>1, <1>2 DEF LightClientTypeOK, put
<1> HIDE DEF h, cs
<1>5. LightClientTypeOK'
  BY <1>2, <1>3, <1>4 DEF LightClientTypeOK
<1>6. HeldBeforeProcessed'
  <2> SUFFICES ASSUME NEW x \in DOMAIN consensusStates'
               PROVE  /\ heldSince'[x].number <= processedMoments'[x].number
                      /\ heldSince'[x].timestamp <= processedMoments'[x].timestamp
                      /\ processedMoments'[x].number <= block.number
                      /\ processedMoments'[x].timestamp <= block.timestamp
    BY DEF HeldBeforeProcessed
  <2>1. CASE x = h
    <3>1. \/ heldSince'[x] = block
          \/ /\ heldSince'[x] = heldSince[x]
             /\ heldSince[x] \in Moment /\ processedMoments[x] \in Moment
             /\ heldSince[x].number <= processedMoments[x].number
             /\ heldSince[x].timestamp <= processedMoments[x].timestamp
             /\ processedMoments[x].number <= block.number
             /\ processedMoments[x].timestamp <= block.timestamp
      BY <1>4, <2>1 DEF LightClientTypeOK, HeldBeforeProcessed
    <3> QED
      BY <1>3, <2>1, <3>1 DEF LightClientTypeOK, Moment
  <2>2. CASE x # h
    BY <1>2, <1>3, <1>4, <2>2 DEF HeldBeforeProcessed
  <2> QED
    BY <2>1, <2>2
<1>7. StoredIsSigned'
  BY <1>2 DEF StoredIsSigned, h, cs, stateOf
<1>8. DelayRespected'
  BY DEF DelayRespected
<1>9. CommittedIsCurrent'
  <2>1. commitments' = [client |-> client, consensus |-> put(consensusStates, h, cs)]
    BY DEF commit, CommittedIsCurrent, h, cs
  <2>2. [client EXCEPT !.frozen = FALSE] = client
    BY DEF Client
  <2> QED
    BY <1>1, <2>1, <2>2 DEF CommittedIsCurrent
<1> QED
  BY <1>5, <1>6, <1>7, <1>8, <1>9

(* Every step preserves the invariant.                                     *)
LEMMA LightClientNextInv ==
  ASSUME LightClientInv, [LightClientNext]_lightClientVars
  PROVE  LightClientInv'
<1> USE DEF LightClientInv
<1>1. CASE NewBlock
  <2>1. PICK step \in TimeStep :
          block' = [number |-> block.number + 1, timestamp |-> block.timestamp + step]
    BY <1>1 DEF NewBlock
  <2>2. UNCHANGED <<clientVars, proof>>
    BY <1>1 DEF NewBlock
  <2>3. block' \in Moment /\ block.number <= block'.number /\ block.timestamp <= block'.timestamp
    BY <2>1, ClientAssumption DEF LightClientTypeOK, Moment
  <2>4. LightClientTypeOK'
    BY <2>2, <2>3 DEF LightClientTypeOK, clientVars
  <2>5. HeldBeforeProcessed'
    BY <2>2, <2>3 DEF LightClientTypeOK, Moment, HeldBeforeProcessed, clientVars
  <2>6. (StoredIsSigned /\ DelayRespected /\ CommittedIsCurrent)'
    BY <2>2 DEF StoredIsSigned, DelayRespected, CommittedIsCurrent, clientVars
  <2> QED
    BY <2>4, <2>5, <2>6
<1>2. ASSUME NEW hd \in Signed, createClient(hd) PROVE LightClientInv'
  <2> DEFINE client == [latest_height |-> hd.height, frozen |-> FALSE]
  <2>1. client \in Client /\ client.frozen = FALSE
    BY ClientAssumption DEF Client
  <2> QED
    BY <1>2, <2>1, StoreInv DEF createClient
<1>3. ASSUME NEW hd \in Signed, NEW h \in Height, updateClient(hd, h) PROVE LightClientInv'
  <2> DEFINE client == [clientState EXCEPT
               !.latest_height = IF hd.height > @ THEN hd.height ELSE @]
  <2>1. clientState \in Client /\ clientState.frozen = FALSE
    BY <1>3 DEF updateClient, LightClientTypeOK, Client
  <2>2. client \in Client /\ client.frozen = FALSE
    BY <2>1, ClientAssumption DEF Client
  <2> QED
    BY <1>3, <2>2, StoreInv DEF updateClient
<1>4. ASSUME NEW a \in Signed, NEW b \in Signed, NEW h \in Height, NEW g \in Height,
             misbehavior(a, h, b, g)
      PROVE  LightClientInv'
  <2>1. clientState' = [clientState EXCEPT !.frozen = TRUE] /\ clientState \in Client
    BY <1>4 DEF misbehavior, LightClientTypeOK
  <2>2. clientState' \in Client /\ [clientState' EXCEPT !.frozen = FALSE]
                                     = [clientState EXCEPT !.frozen = FALSE]
    BY <2>1 DEF Client
  <2>3. UNCHANGED <<block, consensusStates, processedMoments, commitments, heldSince, proof>>
    BY <1>4 DEF misbehavior
  <2>4. (LightClientTypeOK /\ HeldBeforeProcessed /\ StoredIsSigned /\ DelayRespected)'
    BY <2>2, <2>3 DEF LightClientTypeOK, HeldBeforeProcessed, StoredIsSigned, DelayRespected
  <2>5. CommittedIsCurrent'
    BY <1>4, <2>2, <2>3 DEF CommittedIsCurrent, misbehavior
  <2> QED
    BY <2>4, <2>5
<1>5. ASSUME NEW h \in Height, NEW time \in DelayTime, NEW blocks \in DelayBlocks,
             verifyMembership(h, time, blocks)
      PROVE  LightClientInv'
  <2>1. /\ h \in DOMAIN consensusStates
        /\ time # 0 => block.timestamp >= processedMoments[h].timestamp + time
        /\ blocks # 0 => block.number >= processedMoments[h].number + blocks
    BY <1>5 DEF verifyMembership, validateDelayPeriod
  <2>2. /\ proof'.delayTime = time /\ proof'.delayBlocks = blocks
        /\ proof'.heldTime = block.timestamp - heldSince[h].timestamp
        /\ proof'.heldBlocks = block.number - heldSince[h].number
    BY <1>5 DEF verifyMembership
  <2>3. time \in Nat /\ blocks \in Nat
    BY ClientAssumption
  <2>4. /\ block \in Moment /\ heldSince[h] \in Moment /\ processedMoments[h] \in Moment
        /\ heldSince[h].number <= processedMoments[h].number
        /\ heldSince[h].timestamp <= processedMoments[h].timestamp
        /\ processedMoments[h].number <= block.number
        /\ processedMoments[h].timestamp <= block.timestamp
    BY <2>1 DEF LightClientTypeOK, HeldBeforeProcessed
  <2>5. DelayRespected'
    BY <2>1, <2>2, <2>3, <2>4 DEF DelayRespected, Moment
  <2>6. UNCHANGED <<block, clientVars>>
    BY <1>5 DEF verifyMembership
  <2>7. (LightClientTypeOK /\ HeldBeforeProcessed /\ StoredIsSigned /\ CommittedIsCurrent)'
    BY <2>6 DEF LightClientTypeOK, HeldBeforeProcessed, StoredIsSigned, CommittedIsCurrent, clientVars
  <2> QED
    BY <2>5, <2>7
<1>6. CASE UNCHANGED lightClientVars
  BY <1>6 DEF lightClientVars, clientVars, LightClientTypeOK, HeldBeforeProcessed, StoredIsSigned, DelayRespected,
              CommittedIsCurrent
<1> QED
  BY <1>1, <1>2, <1>3, <1>4, <1>5, <1>6 DEF LightClientNext

(* The inductive invariant holds in every state of the client.             *)
THEOREM LightClientInvHolds == LightClientSpec => []LightClientInv
BY InitLightClientInv, LightClientNextInv, PTL DEF LightClientSpec

(* No proof is accepted by a root that was held, unchanged, for less than  *)
(* the delays its connection asks for.                                     *)
THEOREM DelaysKept == LightClientSpec => []DelayRespected
<1>1. LightClientInv => DelayRespected
  BY DEF LightClientInv
<1> QED
  BY <1>1, LightClientInvHolds, PTL

(* The states the handler committed are the ones the client goes by, but   *)
(* for a freeze.                                                           *)
THEOREM CommitmentsCurrent == LightClientSpec => []CommittedIsCurrent
<1>1. LightClientInv => CommittedIsCurrent
  BY DEF LightClientInv
<1> QED
  BY <1>1, LightClientInvHolds, PTL

(* A root only changes where two headers were signed: whatever order and   *)
(* however often updates come, each stores the state of a header of its    *)
(* height.                                                                 *)
THEOREM RootsStable == LightClientSpec => RootsAreStable
<1> DEFINE stable ==
      \A h \in DOMAIN consensusStates :
        \/ consensusStates'[h] = consensusStates[h]
        \/ \E a, b \in Signed : a # b /\ a.height = h /\ b.height = h
<1>1. ASSUME LightClientInv, NEW hd \in Signed, store(hd.height, stateOf(hd))
      PROVE  stable
  <2> SUFFICES ASSUME NEW h \in DOMAIN consensusStates, consensusStates'[h] # consensusStates[h]
               PROVE  \E a, b \in Signed : a # b /\ a.height = h /\ b.height = h
    OBVIOUS
  <2>1. h = hd.height /\ consensusStates'[h] = stateOf(hd)
    BY <1>1 DEF store, put
  <2>2. PICK old \in Signed : old.height = h /\ consensusStates[h] = stateOf(old)
    BY <1>1 DEF LightClientInv, StoredIsSigned
  <2> QED
    BY <2>1, <2>2
<1>2. ASSUME UNCHANGED consensusStates
      PROVE  stable
  BY <1>2
<1> HIDE DEF stable
<1>3. ASSUME LightClientInv, [LightClientNext]_lightClientVars
      PROVE  [stable]_lightClientVars
  BY <1>1, <1>2, <1>3 DEF LightClientNext, NewBlock, createClient, updateClient, misbehavior,
                          verifyMembership, clientVars
<1>4. LightClientSpec => [][stable]_lightClientVars
  BY <1>3, LightClientInvHolds, PTL DEF LightClientSpec
<1> QED
  BY <1>4 DEF RootsAreStable, stable

-----------------------------------------------------------------------------
(* The handshakes *)

(* The counterparty of a chain is the other one, and back.                 *)
LEMMA BothChains ==
  ASSUME NEW c \in Chain
  PROVE  /\ counterparty(c) \in Chain /\ counterparty(c) # c
         /\ counterparty(counterparty(c)) = c
BY ChainsAssumption DEF Chain, counterparty

(* Writing at an identifier of a list of ends, or after the last one.      *)
LEMMA Written ==
  ASSUME NEW S, NEW ends \in Seq(S), NEW id \in DOMAIN ends \cup {Len(ends) + 1},
         NEW end \in S, NEW new,
         new = IF id \in DOMAIN ends THEN [ends EXCEPT ![id] = end] ELSE Append(ends, end)
  PROVE  /\ new \in Seq(S)
         /\ Len(new) = IF id \in DOMAIN ends THEN Len(ends) ELSE Len(ends) + 1
         /\ DOMAIN new = DOMAIN ends \cup {id}
         /\ new[id] = end
         /\ \A other \in DOMAIN ends : other # id => new[other] = ends[other]
<1>1. DOMAIN ends = 1..Len(ends) /\ Len(ends) \in Nat
  OBVIOUS
<1>2. CASE id \in DOMAIN ends
  BY <1>1, <1>2
<1>3. CASE id \notin DOMAIN ends
  BY <1>1, <1>3
<1> QED
  BY <1>2, <1>3

(* The same on one chain, when there is room for one more: what a handler  *)
(* does to the lists of both chains, and what they are afterwards.         *)
EndWritten(lists, max, c, id, end, new) ==
  /\ id \in 0..max
  /\ Len(new[ChainA]) + Len(new[ChainB]) <= max
  /\ DOMAIN new[c] = DOMAIN lists[c] \cup {id}
  /\ new[c][id] = end
  /\ \A other \in DOMAIN lists[c] : other # id => new[c][other] = lists[c][other]
  /\ \A d \in Chain : d # c => new[d] = lists[d]

WritesEnd(S, lists, max, c, id, end, new) ==
  /\ lists \in [Chain -> Seq(S)] /\ max \in Nat /\ c \in Chain /\ end \in S
  /\ Len(lists[ChainA]) + Len(lists[ChainB]) <= max
  /\ \/ id \in DOMAIN lists[c]
     \/ id = Len(lists[c]) + 1 /\ Len(lists[ChainA]) + Len(lists[ChainB]) < max
  /\ new = [lists EXCEPT ![c] = IF id \in DOMAIN lists[c]
                                THEN [lists[c] EXCEPT ![id] = end]
                                ELSE Append(lists[c], end)]

(* The one follows from the other.                                         *)
LEMMA OneEndWritten ==
  ASSUME NEW S, NEW lists, NEW max, NEW c, NEW end, NEW id, NEW new,
         WritesEnd(S, lists, max, c, id, end, new)
  PROVE  new \in [Chain -> Seq(S)] /\ EndWritten(lists, max, c, id, end, new)
<1> USE DEF WritesEnd
<1>1. /\ lists[c] \in Seq(S)
      /\ ChainA \in Chain /\ ChainB \in Chain /\ ChainA # ChainB
      /\ Chain = {ChainA, ChainB}
  BY ChainsAssumption DEF Chain
<1>2. /\ Len(lists[ChainA]) \in Nat /\ Len(lists[ChainB]) \in Nat
      /\ DOMAIN lists[c] = 1..Len(lists[c]) /\ Len(lists[c]) \in Nat
      /\ Len(lists[c]) <= Len(lists[ChainA]) + Len(lists[ChainB])
  <2>1. lists[ChainA] \in Seq(S) /\ lists[ChainB] \in Seq(S)
    BY <1>1
  <2>2. \A s \in Seq(S) : Len(s) \in Nat /\ DOMAIN s = 1..Len(s)
    OBVIOUS
  <2>3. c = ChainA \/ c = ChainB
    BY <1>1
  <2>4. /\ Len(lists[ChainA]) \in Nat /\ Len(lists[ChainB]) \in Nat
        /\ DOMAIN lists[c] = 1..Len(lists[c]) /\ Len(lists[c]) \in Nat
    BY <1>1, <2>1, <2>2
  <2>5. Len(lists[c]) = Len(lists[ChainA]) \/ Len(lists[c]) = Len(lists[ChainB])
    BY <2>3
  <2>6. \A m, n, k \in Nat : k = m \/ k = n => k <= m + n
    OBVIOUS
  <2> QED
    BY <2>4, <2>5, <2>6
<1> DEFINE list == IF id \in DOMAIN lists[c] THEN [lists[c] EXCEPT ![id] = end]
                   ELSE Append(lists[c], end)
<1>3. /\ list \in Seq(S)
      /\ Len(list) = IF id \in DOMAIN lists[c] THEN Len(lists[c]) ELSE Len(lists[c]) + 1
      /\ DOMAIN list = DOMAIN lists[c] \cup {id}
      /\ list[id] = end
      /\ \A other \in DOMAIN lists[c] : other # id => list[other] = lists[c][other]
  <2>1. id \in DOMAIN lists[c] \cup {Len(lists[c]) + 1}
    OBVIOUS
  <2> QED
    BY <1>1, <2>1, Written
<1> HIDE DEF list
<1>4. new = [lists EXCEPT ![c] = list]
  BY DEF list
<1>5. new[c] = list /\ \A d \in Chain : d # c => new[d] = lists[d]
  BY <1>4
<1>6. \A m, n \in Nat : m + n < max => (m + 1) + n <= max /\ m + (n + 1) <= max
  OBVIOUS
<1>7. Len(new[ChainA]) + Len(new[ChainB]) <= max
  <2>1. CASE id \in DOMAIN lists[c]
    BY <1>1, <1>3, <1>5, <2>1
  <2>2. CASE id \notin DOMAIN lists[c]
    <3>1. Len(lists[ChainA]) + Len(lists[ChainB]) < max
      BY <2>2
    <3>2. CASE c = ChainA
      <4>1. Len(new[ChainA]) = Len(lists[ChainA]) + 1
        BY <1>3, <1>5, <2>2, <3>2
      <4>2. Len(new[ChainB]) = Len(lists[ChainB])
        BY <1>1, <1>5, <3>2
      <4> QED
        BY <1>2, <1>6, <3>1, <4>1, <4>2
    <3>3. CASE c = ChainB
      <4>1. Len(new[ChainB]) = Len(lists[ChainB]) + 1
        BY <1>3, <1>5, <2>2, <3>3
      <4>2. Len(new[ChainA]) = Len(lists[ChainA])
        BY <1>1, <1>5, <3>3
      <4> QED
        BY <1>2, <1>6, <3>1, <4>1, <4>2
    <3> QED
      BY <1>1, <3>2, <3>3
  <2> QED
    BY <2>1, <2>2
<1>8. id \in 0..max
  <2>1. \A k, m, n \in Nat : k <= m + n =>
          /\ m + n <= max => \A i \in 1..k : i \in 0..max
          /\ m + n < max => k + 1 \in 0..max
    OBVIOUS
  <2>2. CASE id \in DOMAIN lists[c]
    BY <1>2, <2>1, <2>2
  <2>3. CASE id = Len(lists[c]) + 1 /\ Len(lists[ChainA]) + Len(lists[ChainB]) < max
    BY <1>2, <2>1, <2>3
  <2> QED
    BY <2>2, <2>3
<1>9. new \in [Chain -> Seq(S)]
  BY <1>3, <1>4
<1> QED
  BY <1>3, <1>5, <1>7, <1>8, <1>9 DEF EndWritten

-----------------------------------------------------------------------------
(* Connections: the inductive invariant *)

CommittedConnection == [id : ConnectionId, end : ConnectionEnd]

ConnectionTypes ==
  /\ connections \in [Chain -> Seq(ConnectionEnd)]
  /\ committed \in [Chain -> SUBSET CommittedConnection]
  /\ Len(connections[ChainA]) + Len(connections[ChainB]) <= MaxConnections

(* An end that was ever committed as tried or open is the one the chain    *)
(* has, but that a tried one may have opened since.                        *)
ConnectionsKept ==
  \A c \in Chain : \A was \in committed[c] :
    /\ was.id \in DOMAIN connections[c]
    /\ was.end.state = "TRYOPEN" =>
         \/ connections[c][was.id] = was.end
         \/ connections[c][was.id] = [was.end EXCEPT !.state = "OPEN"]
    /\ was.end.state = "OPEN" => connections[c][was.id] = was.end

(* The other chain committed, in state, the end that end under id names.   *)
namedConnection(id, end, state) ==
  [id |-> end.counterparty.connection_id,
   end |-> [state |-> state, client_id |-> end.counterparty.client_id,
            versions |-> end.versions, delay_period |-> end.delay_period,
            counterparty |-> [client_id |-> end.client_id, connection_id |-> id]]]

ProvenAmong(ends, id, end) ==
  \E state \in {"TRYOPEN", "OPEN"} : namedConnection(id, end, state) \in ends

ConnectionProven(c, id, end) == ProvenAmong(committed[counterparty(c)], id, end)

OpenWasProven ==
  \A c \in Chain : \A id \in DOMAIN connections[c] :
    connections[c][id].state = "OPEN" => ConnectionProven(c, id, connections[c][id])

ConnectionInv == ConnectionTypes /\ ConnectionsKept /\ OpenWasProven

-----------------------------------------------------------------------------
(* Connections: what the handlers do *)

(* Chain c has end under id, and the provable store says so.               *)
Commits(c, id, end) ==
  /\ DOMAIN connections'[c] = DOMAIN connections[c] \cup {id}
  /\ connections'[c][id] = end
  /\ \A other \in DOMAIN connections[c] :
       other # id => connections'[c][other] = connections[c][other]
  /\ committed'[c] = committed[c] \cup {[id |-> id, end |-> end]}
  /\ \A d \in Chain : d # c => connections'[d] = connections[d] /\ committed'[d] = committed[d]

(* The end is a new one, or opens one that is not open, on a proof.        *)
Advances(c, id, end) ==
  \/ id \notin DOMAIN connections[c] /\ end.state \in {"INIT", "TRYOPEN"}
  \/ /\ id \in DOMAIN connections[c] /\ connections[c][id].state = "INIT"
     /\ end.state = "OPEN" /\ ConnectionProven(c, id, end)
  \/ /\ id \in DOMAIN connections[c] /\ connections[c][id].state = "TRYOPEN"
     /\ end = [connections[c][id] EXCEPT !.state = "OPEN"]
     /\ ConnectionProven(c, id, end)

(* commitConnection keeps the types.                                       *)
LEMMA CommitEffect ==
  ASSUME ConnectionTypes, ConnectionAssumption, NEW c \in Chain, NEW end \in ConnectionEnd,
         NEW id, commitConnection(c, id, end),
         \/ id \in DOMAIN connections[c]
         \/ id = nextConnectionId(c) /\ roomForConnection
  PROVE  ConnectionTypes' /\ Commits(c, id, end)
<1>1. /\ connections' \in [Chain -> Seq(ConnectionEnd)]
      /\ EndWritten(connections, MaxConnections, c, id, end, connections')
  <2>1. connections' = [connections EXCEPT
          ![c] = IF id \in DOMAIN connections[c] THEN [connections[c] EXCEPT ![id] = end]
                 ELSE Append(connections[c], end)]
    BY DEF commitConnection
  <2>2. \/ id \in DOMAIN connections[c]
        \/ /\ id = Len(connections[c]) + 1
           /\ Len(connections[ChainA]) + Len(connections[ChainB]) < MaxConnections
    BY DEF nextConnectionId, roomForConnection
  <2>3. /\ connections \in [Chain -> Seq(ConnectionEnd)]
        /\ Len(connections[ChainA]) + Len(connections[ChainB]) <= MaxConnections
        /\ MaxConnections \in Nat
    BY ConnectionAssumption DEF ConnectionTypes, ConnectionAssumption
  <2>4. WritesEnd(ConnectionEnd, connections, MaxConnections, c, id, end, connections')
    BY <2>1, <2>2, <2>3 DEF WritesEnd
  <2> QED
    BY <2>4, OneEndWritten
<1>2. committed' = [committed EXCEPT ![c] = committed[c] \cup {[id |-> id, end |-> end]}]
  BY DEF commitConnection
<1>3. [id |-> id, end |-> end] \in CommittedConnection
  BY <1>1 DEF CommittedConnection, ConnectionId, EndWritten
<1>4. /\ committed' \in [Chain -> SUBSET CommittedConnection]
      /\ committed'[c] = committed[c] \cup {[id |-> id, end |-> end]}
      /\ \A d \in Chain : d # c => committed'[d] = committed[d]
  BY <1>2, <1>3 DEF ConnectionTypes
<1> QED
  BY <1>1, <1>4 DEF ConnectionTypes, Commits, EndWritten

(* The version that is picked is one.                                      *)
LEMMA PickedIsVersion ==
  ASSUME NEW supported \in Seq(Version), NEW offered \in Seq(Version),
         NEW version \in pickVersion(supported, offered)
  PROVE  version \in Version
<1>1. PICK i \in DOMAIN supported : version \in commonVersion(supported[i], offered)
  BY DEF pickVersion
<1>2. PICK j \in DOMAIN offered :
        version = [identifier |-> supported[i].identifier,
                   features |-> supported[i].features \cap offered[j].features]
  BY <1>1 DEF commonVersion
<1>3. supported[i] \in Version /\ offered[j] \in Version
  OBVIOUS
<1> QED
  BY <1>2, <1>3 DEF Version

(* Each message creates an end, or opens one that was proven.              *)
LEMMA ConnectionEffect ==
  ASSUME ConnectionTypes, ConnectionAssumption, NEW c \in Chain, ConnectionStep(c)
  PROVE  /\ ConnectionTypes'
         /\ \E id, end : Commits(c, id, end) /\ Advances(c, id, end)
<1>1. /\ connections[c] \in Seq(ConnectionEnd)
      /\ counterparty(c) \in Chain
      /\ \A was \in committed[counterparty(c)] :
           was.id \in ConnectionId /\ was.end \in ConnectionEnd
      /\ Clients[c] \subseteq ClientId
      /\ getCompatibleVersions[c] \in Seq(Version)
      /\ 0 \in ConnectionId
  BY BothChains, ConnectionAssumption
     DEF ConnectionTypes, CommittedConnection, ConnectionAssumption, ConnectionId
<1>2. \A id \in DOMAIN connections[c] : connections[c][id] \in ConnectionEnd
  BY <1>1
<1>3. nextConnectionId(c) \notin DOMAIN connections[c]
  <2>1. DOMAIN connections[c] = 1..Len(connections[c]) /\ Len(connections[c]) \in Nat
    BY <1>1
  <2> QED
    BY <2>1 DEF nextConnectionId
<1>4. \A v \in Version : <<v>> \in Seq(Version)
  OBVIOUS
<1>5. ASSUME NEW client \in ClientId, NEW cpClient \in ClientId, NEW delay \in DelayPeriod,
             NEW cpId \in ConnectionId,
             NEW versions \in {getCompatibleVersions[c]} \cup {<<v>> : v \in ProposedVersion},
             connectionOpenInit(c, client, versions, delay,
                                [client_id |-> cpClient, connection_id |-> cpId])
      PROVE  /\ ConnectionTypes'
             /\ \E id, end : Commits(c, id, end) /\ Advances(c, id, end)
  <2> DEFINE end == [state |-> "INIT", client_id |-> client, versions |-> versions,
                     delay_period |-> delay,
                     counterparty |-> [client_id |-> cpClient, connection_id |-> cpId]]
  <2>1. versions \in Seq(Version)
    BY <1>1, <1>4, ConnectionAssumption DEF ConnectionAssumption
  <2>2. end \in ConnectionEnd
    BY <2>1 DEF ConnectionEnd, ConnectionState
  <2>3. commitConnection(c, nextConnectionId(c), end) /\ roomForConnection
    BY <1>5 DEF connectionOpenInit
  <2>4. end.state = "INIT"
    OBVIOUS
  <2> HIDE DEF end
  <2>5. ConnectionTypes' /\ Commits(c, nextConnectionId(c), end)
    BY <2>2, <2>3, CommitEffect, ConnectionAssumption
  <2> QED
    BY <1>3, <2>4, <2>5 DEF Advances
<1>6. ASSUME NEW init \in committed[counterparty(c)],
             connectionOpenTry(c, init.end.counterparty.client_id, init.end.versions,
                               init.end.delay_period,
                               [client_id |-> init.end.client_id, connection_id |-> init.id])
      PROVE  /\ ConnectionTypes'
             /\ \E id, end : Commits(c, id, end) /\ Advances(c, id, end)
  <2>1. PICK version \in pickVersion(getCompatibleVersions[c], init.end.versions) :
          commitConnection(c, nextConnectionId(c),
            [state |-> "TRYOPEN", client_id |-> init.end.counterparty.client_id,
             versions |-> <<version>>, delay_period |-> init.end.delay_period,
             counterparty |-> [client_id |-> init.end.client_id, connection_id |-> init.id]])
    BY <1>6 DEF connectionOpenTry
  <2> DEFINE end == [state |-> "TRYOPEN", client_id |-> init.end.counterparty.client_id,
                     versions |-> <<version>>, delay_period |-> init.end.delay_period,
                     counterparty |-> [client_id |-> init.end.client_id,
                                       connection_id |-> init.id]]
  <2>2. /\ init.id \in ConnectionId /\ init.end.client_id \in ClientId
        /\ init.end.delay_period \in DelayPeriod
        /\ init.end.versions \in Seq(Version)
        /\ init.end.counterparty.client_id \in ClientId
    BY <1>1 DEF ConnectionEnd
  <2>3. version \in Version
    BY <1>1, <2>1, <2>2, PickedIsVersion
  <2>4. end \in ConnectionEnd
    BY <1>4, <2>2, <2>3 DEF ConnectionEnd, ConnectionState
  <2>5. end.state = "TRYOPEN"
    OBVIOUS
  <2> HIDE DEF end
  <2>6. commitConnection(c, nextConnectionId(c), end) /\ roomForConnection
    BY <1>6, <2>1 DEF connectionOpenTry, end
  <2>7. ConnectionTypes' /\ Commits(c, nextConnectionId(c), end)
    BY <2>4, <2>6, CommitEffect, ConnectionAssumption
  <2> QED
    BY <1>3, <2>5, <2>7 DEF Advances
<1>7. ASSUME NEW id \in DOMAIN connections[c], NEW try \in committed[counterparty(c)],
             NEW i \in DOMAIN try.end.versions,
             connectionOpenAck(c, id, try.end.versions[i], try.id)
      PROVE  /\ ConnectionTypes'
             /\ \E end : Commits(c, id, end) /\ Advances(c, id, end)
  <2> DEFINE old == connections[c][id]
             version == try.end.versions[i]
             end == [old EXCEPT !.state = "OPEN", !.versions = <<version>>,
                                !.counterparty.connection_id = try.id]
  <2>1. old \in ConnectionEnd /\ try.id \in ConnectionId /\ try.end \in ConnectionEnd
    BY <1>1, <1>2
  <2>2. version \in Version
    <3>1. try.end.versions \in Seq(Version)
      BY <2>1 DEF ConnectionEnd
    <3> QED
      BY <3>1
  <2>3. /\ end \in ConnectionEnd
        /\ end.state = "OPEN" /\ end.versions = <<version>>
        /\ end.client_id = old.client_id /\ end.delay_period = old.delay_period
        /\ end.counterparty.client_id = old.counterparty.client_id
        /\ end.counterparty.connection_id = try.id
    BY <1>4, <2>1, <2>2 DEF ConnectionEnd, ConnectionState
  <2>4. /\ commitConnection(c, id, end) /\ old.state = "INIT"
        /\ [id |-> try.id,
            end |-> [state |-> "TRYOPEN", client_id |-> old.counterparty.client_id,
                     versions |-> <<version>>, delay_period |-> old.delay_period,
                     counterparty |-> [client_id |-> old.client_id, connection_id |-> id]]]
             \in committed[counterparty(c)]
    BY <1>7 DEF connectionOpenAck, verifyConnectionState
  <2> HIDE DEF old, version, end
  <2>5. ConnectionTypes' /\ Commits(c, id, end)
    BY <2>3, <2>4, CommitEffect, ConnectionAssumption
  <2>6. ConnectionProven(c, id, end)
    BY <2>3, <2>4 DEF ConnectionProven, ProvenAmong, namedConnection
  <2> QED
    BY <2>3, <2>4, <2>5, <2>6 DEF Advances, old
<1>8. ASSUME NEW id \in DOMAIN connections[c], connectionOpenConfirm(c, id)
      PROVE  /\ ConnectionTypes'
             /\ \E end : Commits(c, id, end) /\ Advances(c, id, end)
  <2> DEFINE old == connections[c][id]
             end == [old EXCEPT !.state = "OPEN"]
  <2>1. old \in ConnectionEnd
    BY <1>2
  <2>2. /\ end \in ConnectionEnd
        /\ end.versions = old.versions /\ end.client_id = old.client_id
        /\ end.delay_period = old.delay_period /\ end.counterparty = old.counterparty
    BY <2>1 DEF ConnectionEnd, ConnectionState
  <2>3. /\ commitConnection(c, id, end) /\ old.state = "TRYOPEN"
        /\ namedConnection(id, old, "OPEN") \in committed[counterparty(c)]
    BY <1>8 DEF connectionOpenConfirm, verifyConnectionState, namedConnection
  <2>4. end = [connections[c][id] EXCEPT !.state = "OPEN"]
    OBVIOUS
  <2> HIDE DEF old, end
  <2>5. ConnectionTypes' /\ Commits(c, id, end)
    BY <2>2, <2>3, CommitEffect, ConnectionAssumption
  <2>6. namedConnection(id, end, "OPEN") = namedConnection(id, old, "OPEN")
    BY <2>2 DEF namedConnection
  <2>7. ConnectionProven(c, id, end)
    BY <2>3, <2>6 DEF ConnectionProven, ProvenAmong
  <2> QED
    BY <2>3, <2>4, <2>5, <2>7 DEF Advances, old
<1> QED
  BY <1>5, <1>6, <1>7, <1>8 DEF ConnectionStep

(* A step of a handshake leaves what was committed true.                   *)
LEMMA CommitKeeps ==
  ASSUME ConnectionTypes, ConnectionsKept, OpenWasProven, NEW c \in Chain, NEW id, NEW end,
         Commits(c, id, end), Advances(c, id, end)
  PROVE  ConnectionsKept' /\ OpenWasProven'
<1>1. \A d \in Chain : committed[d] \subseteq committed'[d] /\ counterparty(d) \in Chain
  BY BothChains DEF Commits
<1>2. ASSUME NEW d \in Chain, NEW other, NEW e, ConnectionProven(d, other, e)
      PROVE  ProvenAmong(committed'[counterparty(d)], other, e)
  BY <1>1, <1>2 DEF ConnectionProven, ProvenAmong
<1>3. OpenWasProven'
  <2> SUFFICES ASSUME NEW d \in Chain, NEW other \in DOMAIN connections'[d],
                      connections'[d][other].state = "OPEN"
               PROVE  ProvenAmong(committed'[counterparty(d)], other, connections'[d][other])
    BY DEF OpenWasProven, ConnectionProven, ProvenAmong, namedConnection, counterparty
  <2>1. CASE d = c /\ other = id
    <3>1. end.state = "OPEN" /\ connections'[d][other] = end
      BY <2>1 DEF Commits
    <3>2. ConnectionProven(c, id, end)
      BY <3>1 DEF Advances
    <3> QED
      BY <1>2, <2>1, <3>1, <3>2
  <2>2. CASE ~(d = c /\ other = id)
    <3>1. other \in DOMAIN connections[d] /\ connections'[d][other] = connections[d][other]
      BY <2>2 DEF Commits
    <3>2. ConnectionProven(d, other, connections[d][other])
      BY <3>1 DEF OpenWasProven
    <3> QED
      BY <1>2, <3>1, <3>2
  <2> QED
    BY <2>1, <2>2
<1>4. ConnectionsKept'
  <2> SUFFICES ASSUME NEW d \in Chain, NEW was \in committed'[d]
               PROVE  /\ was.id \in DOMAIN connections'[d]
                      /\ was.end.state = "TRYOPEN" =>
                           \/ connections'[d][was.id] = was.end
                           \/ connections'[d][was.id] = [was.end EXCEPT !.state = "OPEN"]
                      /\ was.end.state = "OPEN" => connections'[d][was.id] = was.end
    BY DEF ConnectionsKept
  <2>1. CASE d = c /\ was = [id |-> id, end |-> end]
    BY <2>1 DEF Commits
  <2>2. CASE was \in committed[d]
    <3>1. /\ was.id \in DOMAIN connections[d]
          /\ was.end.state = "TRYOPEN" =>
               \/ connections[d][was.id] = was.end
               \/ connections[d][was.id] = [was.end EXCEPT !.state = "OPEN"]
          /\ was.end.state = "OPEN" => connections[d][was.id] = was.end
      BY <2>2 DEF ConnectionsKept
    <3>2. CASE d = c /\ was.id = id
      <4> DEFINE opened == [was.end EXCEPT !.state = "OPEN"]
      <4>1. was.end \in ConnectionEnd
        BY <2>2 DEF ConnectionTypes, CommittedConnection
      <4>2. opened.state = "OPEN" /\ [opened EXCEPT !.state = "OPEN"] = opened
        BY <4>1 DEF ConnectionEnd
      <4>3. connections'[d][was.id] = end /\ was.id \in DOMAIN connections'[d]
        BY <3>1, <3>2 DEF Commits
      <4> HIDE DEF opened
      <4>4. was.end.state # "OPEN" /\ (was.end.state = "TRYOPEN" => end = opened)
        <5>1. CASE connections[c][id].state = "INIT"
          BY <3>1, <3>2, <4>2, <5>1 DEF opened
        <5>2. CASE /\ connections[c][id].state = "TRYOPEN"
                   /\ end = [connections[c][id] EXCEPT !.state = "OPEN"]
          BY <3>1, <3>2, <4>2, <5>2 DEF opened
        <5> QED
          BY <3>1, <3>2, <5>1, <5>2 DEF Advances
      <4> QED
        BY <4>3, <4>4 DEF opened
    <3>3. CASE ~(d = c /\ was.id = id)
      BY <3>1, <3>3 DEF Commits
    <3> QED
      BY <3>2, <3>3
  <2> QED
    BY <2>1, <2>2 DEF Commits
<1> QED
  BY <1>3, <1>4

(* The channel handshake leaves connections alone.                         *)
LEMMA ChannelStepFrame ==
  ASSUME NEW c \in Chain, ChannelStep(c) PROVE UNCHANGED connectionVars
BY DEF ChannelStep, channelOpenInit, channelOpenTry, channelOpenAck, channelOpenConfirm,
   channelCloseInit, channelCloseConfirm, updateChannelCommitment

(* So the invariant of the connections is inductive.                       *)
LEMMA ConnectionInvStep ==
  ASSUME ConnectionInv, ConnectionAssumption, [Next]_vars PROVE ConnectionInv'
<1>1. CASE UNCHANGED connectionVars
  BY <1>1 DEF connectionVars, ConnectionInv, ConnectionTypes, ConnectionsKept, OpenWasProven,
     ConnectionProven
<1>2. ASSUME NEW c \in Chain, ConnectionStep(c) PROVE ConnectionInv'
  BY <1>2, ConnectionEffect, CommitKeeps, ConnectionAssumption DEF ConnectionInv
<1> QED
  BY <1>1, <1>2, ChannelStepFrame DEF Next, vars

(* An open end is never changed again.                                     *)
LEMMA OpenStays ==
  ASSUME ConnectionInv, ConnectionAssumption, [Next]_vars,
         NEW c \in Chain, NEW id \in DOMAIN connections[c], connections[c][id].state = "OPEN"
  PROVE  id \in DOMAIN connections'[c] /\ connections'[c][id] = connections[c][id]
<1>1. CASE UNCHANGED connectionVars
  BY <1>1 DEF connectionVars
<1>2. ASSUME NEW d \in Chain, ConnectionStep(d)
      PROVE  id \in DOMAIN connections'[c] /\ connections'[c][id] = connections[c][id]
  <2>1. PICK other, end : Commits(d, other, end) /\ Advances(d, other, end)
    BY <1>2, ConnectionEffect, ConnectionAssumption DEF ConnectionInv
  <2>2. ~(d = c /\ other = id)
    BY <2>1 DEF Advances
  <2> QED
    BY <2>1, <2>2 DEF Commits
<1> QED
  BY <1>1, <1>2, ChannelStepFrame DEF Next, vars

(* What was proven of the other end is true of the one it is now.          *)
LEMMA AgreementFollows == ASSUME ConnectionInv PROVE ConnectionsAgree /\ ConnectionsPairUp
<1>1. ASSUME NEW c \in Chain, NEW id \in DOMAIN connections[c], connections[c][id].state = "OPEN"
      PROVE  LET end == connections[c][id]
                 other == otherConnection(c, end)
             IN /\ end.counterparty.connection_id \in DOMAIN connections[counterparty(c)]
                /\ other.state \in {"TRYOPEN", "OPEN"}
                /\ other.counterparty = [client_id |-> end.client_id, connection_id |-> id]
                /\ other.client_id = end.counterparty.client_id
                /\ other.versions = end.versions
                /\ other.delay_period = end.delay_period
  <2> DEFINE end == connections[c][id]
             other == otherConnection(c, end)
  <2>1. PICK state \in {"TRYOPEN", "OPEN"} :
          namedConnection(id, end, state) \in committed[counterparty(c)]
    BY <1>1 DEF ConnectionInv, OpenWasProven, ConnectionProven, ProvenAmong
  <2> DEFINE was == namedConnection(id, end, state)
  <2>2. /\ was.id = end.counterparty.connection_id
        /\ was.end = [state |-> state, client_id |-> end.counterparty.client_id,
                      versions |-> end.versions, delay_period |-> end.delay_period,
                      counterparty |-> [client_id |-> end.client_id, connection_id |-> id]]
    BY DEF namedConnection
  <2>3. counterparty(c) \in Chain
    BY BothChains
  <2>4. was \in committed[counterparty(c)]
    BY <2>1
  <2> HIDE DEF was, end
  <2>5. /\ was.id \in DOMAIN connections[counterparty(c)]
        /\ other = was.end \/ other = [was.end EXCEPT !.state = "OPEN"]
    BY <2>1, <2>2, <2>3, <2>4 DEF ConnectionInv, ConnectionsKept, otherConnection
  <2> QED
    BY <2>2, <2>5 DEF end
<1>2. ConnectionsAgree
  BY <1>1 DEF ConnectionsAgree
<1>3. ConnectionsPairUp
  <2> SUFFICES ASSUME NEW c \in Chain, NEW i \in DOMAIN connections[c],
                      NEW j \in DOMAIN connections[c],
                      connections[c][i].state = "OPEN", connections[c][j].state = "OPEN",
                      connections[c][i].counterparty.connection_id
                        = connections[c][j].counterparty.connection_id
               PROVE  i = j
    BY DEF ConnectionsPairUp
  <2>1. otherConnection(c, connections[c][i]) = otherConnection(c, connections[c][j])
    BY DEF otherConnection
  <2>2. /\ otherConnection(c, connections[c][i]).counterparty.connection_id = i
        /\ otherConnection(c, connections[c][j]).counterparty.connection_id = j
    <3>1. \A k \in DOMAIN connections[c] : connections[c][k].state = "OPEN" =>
            otherConnection(c, connections[c][k]).counterparty
              = [client_id |-> connections[c][k].client_id, connection_id |-> k]
      BY <1>2 DEF ConnectionsAgree
    <3>2. /\ otherConnection(c, connections[c][i]).counterparty
               = [client_id |-> connections[c][i].client_id, connection_id |-> i]
          /\ otherConnection(c, connections[c][j]).counterparty
               = [client_id |-> connections[c][j].client_id, connection_id |-> j]
      BY <3>1
    <3> QED
      BY <3>2
  <2> QED
    BY <2>1, <2>2
<1> QED
  BY <1>2, <1>3

-----------------------------------------------------------------------------
(* Channels: the inductive invariant *)

ChannelRow == [port : Port, end : ChannelEnd]
CommittedChannel == [port : Port, id : ChannelId, end : ChannelEnd]

ChannelTypes ==
  /\ channels \in [Chain -> Seq(ChannelRow)]
  /\ committedChannels \in [Chain -> SUBSET CommittedChannel]
  /\ Len(channels[ChainA]) + Len(channels[ChainB]) <= MaxChannels

(* An end that was ever committed as more than initialised is the one the  *)
(* chain has, but for its state, which only moves on.                      *)
ChannelsKept ==
  \A c \in Chain : \A was \in committedChannels[c] :
    /\ was.id \in DOMAIN channels[c]
    /\ channels[c][was.id].port = was.port
    /\ was.end.state # "INIT" =>
         /\ channels[c][was.id].end.state # "INIT"
         /\ channels[c][was.id].end
              = [was.end EXCEPT !.state = channels[c][was.id].end.state]
    /\ was.end.state \in {"OPEN", "CLOSED"} =>
         channels[c][was.id].end.state \in {"OPEN", "CLOSED"}

(* Every end is over a connection that is open.                            *)
HopsOpen ==
  \A c \in Chain : \A id \in DOMAIN channels[c] :
    ensureConnectionState(c, channels[c][id].end.connection_hop)

(* The other chain committed, in state and over its connection hop, the    *)
(* end that end, under port and id, names.                                 *)
namedChannel(port, id, end, hop, state) ==
  [port |-> end.counterparty.port_id, id |-> end.counterparty.channel_id,
   end |-> [state |-> state, ordering |-> end.ordering,
            counterparty |-> [port_id |-> port, channel_id |-> id],
            connection_hop |-> hop, version |-> end.version]]

ChannelProvenAmong(ends, hop, port, id, end) ==
  \E state \in {"TRYOPEN", "OPEN", "CLOSED"} : namedChannel(port, id, end, hop, state) \in ends

ChannelProven(c, port, id, end) ==
  ChannelProvenAmong(committedChannels[counterparty(c)],
                     getCounterpartyHops(c, end.connection_hop), port, id, end)

OpenedWasProven ==
  \A c \in Chain : \A id \in DOMAIN channels[c] :
    channels[c][id].end.state \in {"OPEN", "CLOSED"} =>
      ChannelProven(c, channels[c][id].port, id, channels[c][id].end)

ChannelInv == ChannelTypes /\ ChannelsKept /\ HopsOpen /\ OpenedWasProven

(* The inductive invariant of both handshakes.                             *)
HandshakeInv == ConnectionInv /\ ChannelInv

-----------------------------------------------------------------------------
(* Channels: what the handlers do *)

(* Chain c has end under port and id, and the provable store says so.      *)
ChannelCommits(c, port, id, end) ==
  /\ DOMAIN channels'[c] = DOMAIN channels[c] \cup {id}
  /\ channels'[c][id] = [port |-> port, end |-> end]
  /\ \A other \in DOMAIN channels[c] : other # id => channels'[c][other] = channels[c][other]
  /\ committedChannels'[c] = committedChannels[c] \cup {[port |-> port, id |-> id, end |-> end]}
  /\ \A d \in Chain : d # c =>
       channels'[d] = channels[d] /\ committedChannels'[d] = committedChannels[d]
  /\ UNCHANGED connectionVars

(* The end is a new one, opens one that is not open, on a proof, or closes *)
(* one that is.                                                            *)
ChannelAdvances(c, port, id, end) ==
  /\ ensureConnectionState(c, end.connection_hop)
  /\ \/ id \notin DOMAIN channels[c] /\ end.state \in {"INIT", "TRYOPEN"}
     \/ /\ id \in DOMAIN channels[c] /\ port = channels[c][id].port
        /\ channels[c][id].end.state = "INIT" /\ end.state = "OPEN"
        /\ ChannelProven(c, port, id, end)
     \/ /\ id \in DOMAIN channels[c] /\ port = channels[c][id].port
        /\ channels[c][id].end.state = "TRYOPEN"
        /\ end = [channels[c][id].end EXCEPT !.state = "OPEN"]
        /\ ChannelProven(c, port, id, end)
     \/ /\ id \in DOMAIN channels[c] /\ port = channels[c][id].port
        /\ channels[c][id].end.state = "OPEN"
        /\ end = [channels[c][id].end EXCEPT !.state = "CLOSED"]

(* updateChannelCommitment keeps the types.                                *)
LEMMA ChannelCommitEffect ==
  ASSUME ChannelTypes, ChannelAssumption, NEW c \in Chain, NEW port \in Port,
         NEW end \in ChannelEnd, NEW id, updateChannelCommitment(c, port, id, end),
         \/ id \in DOMAIN channels[c] /\ port = channels[c][id].port
         \/ id = nextChannelId(c) /\ roomForChannel
  PROVE  ChannelTypes' /\ ChannelCommits(c, port, id, end)
<1> DEFINE row == [port |-> port, end |-> end]
<1>1. /\ channels' \in [Chain -> Seq(ChannelRow)]
      /\ EndWritten(channels, MaxChannels, c, id, row, channels')
  <2>1. channels[c] \in Seq(ChannelRow) /\ row \in ChannelRow
    BY DEF ChannelTypes, ChannelRow
  <2>2. id \in DOMAIN channels[c] => [channels[c][id] EXCEPT !.end = end] = row
    <3>1. DOMAIN channels[c] = 1..Len(channels[c]) /\ Len(channels[c]) \in Nat
      BY <2>1
    <3>2. id \in DOMAIN channels[c] => port = channels[c][id].port
      BY <3>1 DEF nextChannelId
    <3>3. id \in DOMAIN channels[c] => channels[c][id] \in ChannelRow
      BY <2>1
    <3>4. \A r \in ChannelRow : [r EXCEPT !.end = end] = [port |-> r.port, end |-> end]
      BY DEF ChannelRow
    <3> QED
      BY <3>2, <3>3, <3>4
  <2>3. channels' = [channels EXCEPT
          ![c] = IF id \in DOMAIN channels[c]
                 THEN [channels[c] EXCEPT ![id] = [channels[c][id] EXCEPT !.end = end]]
                 ELSE Append(channels[c], row)]
    BY DEF updateChannelCommitment
  <2>4. channels' = [channels EXCEPT
          ![c] = IF id \in DOMAIN channels[c] THEN [channels[c] EXCEPT ![id] = row]
                 ELSE Append(channels[c], row)]
    BY <2>2, <2>3
  <2>5. \/ id \in DOMAIN channels[c]
        \/ /\ id = Len(channels[c]) + 1
           /\ Len(channels[ChainA]) + Len(channels[ChainB]) < MaxChannels
    BY DEF nextChannelId, roomForChannel
  <2>6. /\ channels \in [Chain -> Seq(ChannelRow)]
        /\ Len(channels[ChainA]) + Len(channels[ChainB]) <= MaxChannels
        /\ MaxChannels \in Nat
    BY ChannelAssumption DEF ChannelTypes, ChannelAssumption
  <2> HIDE DEF row
  <2>7. WritesEnd(ChannelRow, channels, MaxChannels, c, id, row, channels')
    BY <2>1, <2>4, <2>5, <2>6 DEF WritesEnd
  <2> QED
    BY <2>7, OneEndWritten
<1>2. /\ committedChannels' = [committedChannels EXCEPT
           ![c] = committedChannels[c] \cup {[port |-> port, id |-> id, end |-> end]}]
      /\ UNCHANGED connectionVars
  BY DEF updateChannelCommitment
<1>3. [port |-> port, id |-> id, end |-> end] \in CommittedChannel
  BY <1>1 DEF CommittedChannel, ChannelId, EndWritten
<1>4. /\ committedChannels' \in [Chain -> SUBSET CommittedChannel]
      /\ committedChannels'[c] = committedChannels[c]
                                   \cup {[port |-> port, id |-> id, end |-> end]}
      /\ \A d \in Chain : d # c => committedChannels'[d] = committedChannels[d]
  BY <1>2, <1>3 DEF ChannelTypes
<1> QED
  BY <1>1, <1>2, <1>4 DEF ChannelTypes, ChannelCommits, EndWritten

(* The identifiers of connections are among those that may be handed out.  *)
LEMMA HopIsConnection ==
  ASSUME ConnectionTypes, ConnectionAssumption, NEW c \in Chain
  PROVE  DOMAIN connections[c] \subseteq ConnectionId
<1>1. /\ connections[ChainA] \in Seq(ConnectionEnd) /\ connections[ChainB] \in Seq(ConnectionEnd)
      /\ c = ChainA \/ c = ChainB
      /\ MaxConnections \in Nat
  BY ConnectionAssumption DEF ConnectionTypes, Chain, ConnectionAssumption
<1>2. \A s \in Seq(ConnectionEnd) : Len(s) \in Nat /\ DOMAIN s = 1..Len(s)
  OBVIOUS
<1>3. \A m, n \in Nat : m + n <= MaxConnections =>
        1..m \subseteq 0..MaxConnections /\ 1..n \subseteq 0..MaxConnections
  BY <1>1
<1>4. Len(connections[ChainA]) + Len(connections[ChainB]) <= MaxConnections
  BY DEF ConnectionTypes
<1> QED
  BY <1>1, <1>2, <1>3, <1>4 DEF ConnectionId

(* Each message creates an end, opens one that was proven, or closes one.  *)
LEMMA ChannelEffect ==
  ASSUME ConnectionTypes, ChannelTypes, HopsOpen, ConnectionAssumption, ChannelAssumption,
         NEW c \in Chain, ChannelStep(c)
  PROVE  /\ ChannelTypes'
         /\ \E port, id, end : ChannelCommits(c, port, id, end) /\ ChannelAdvances(c, port, id, end)
<1>1. /\ channels[c] \in Seq(ChannelRow)
      /\ counterparty(c) \in Chain
      /\ \A was \in committedChannels[counterparty(c)] :
           was.port \in Port /\ was.id \in ChannelId /\ was.end \in ChannelEnd
      /\ 0 \in ChannelId
  BY BothChains, ChannelAssumption DEF ChannelTypes, CommittedChannel, ChannelAssumption, ChannelId
<1>2. \A id \in DOMAIN channels[c] :
        /\ channels[c][id].port \in Port /\ channels[c][id].end \in ChannelEnd
        /\ ensureConnectionState(c, channels[c][id].end.connection_hop)
  <2>1. \A row \in ChannelRow : row.port \in Port /\ row.end \in ChannelEnd
    BY DEF ChannelRow
  <2>2. \A id \in DOMAIN channels[c] : channels[c][id] \in ChannelRow
    BY <1>1
  <2>3. \A id \in DOMAIN channels[c] :
          ensureConnectionState(c, channels[c][id].end.connection_hop)
    BY DEF HopsOpen
  <2> QED
    BY <2>1, <2>2, <2>3
<1>3. nextChannelId(c) \notin DOMAIN channels[c]
  <2>1. DOMAIN channels[c] = 1..Len(channels[c]) /\ Len(channels[c]) \in Nat
    BY <1>1
  <2> QED
    BY <2>1 DEF nextChannelId
<1>4. DOMAIN connections[c] \subseteq ConnectionId
  BY HopIsConnection
<1>5. ASSUME NEW port \in Port, NEW counterpartyPort \in Port, NEW ordering \in Feature,
             NEW hop \in DOMAIN connections[c], NEW version \in ChannelVersion,
             channelOpenInit(c, port, ordering, counterpartyPort, hop, version)
      PROVE  /\ ChannelTypes'
             /\ \E id, end : /\ ChannelCommits(c, port, id, end)
                             /\ ChannelAdvances(c, port, id, end)
  <2> DEFINE end == [state |-> "INIT", ordering |-> ordering,
                     counterparty |-> [port_id |-> counterpartyPort, channel_id |-> 0],
                     connection_hop |-> hop, version |-> version]
  <2>1. end \in ChannelEnd
    BY <1>1, <1>4 DEF ChannelEnd
  <2>2. end.state = "INIT" /\ end.connection_hop = hop
    OBVIOUS
  <2>3. /\ updateChannelCommitment(c, port, nextChannelId(c), end) /\ roomForChannel
        /\ ensureConnectionState(c, hop)
    BY <1>5 DEF channelOpenInit, ensureConnectionFeature
  <2> HIDE DEF end
  <2>4. ChannelTypes' /\ ChannelCommits(c, port, nextChannelId(c), end)
    BY <2>1, <2>3, ChannelCommitEffect, ChannelAssumption
  <2> QED
    BY <1>3, <2>2, <2>3, <2>4 DEF ChannelAdvances
<1>6. ASSUME NEW init \in committedChannels[counterparty(c)], NEW hop \in DOMAIN connections[c],
             NEW version \in ChannelVersion,
             channelOpenTry(c, init.end.counterparty.port_id, init.end.ordering,
                            [port_id |-> init.port, channel_id |-> init.id], hop,
                            version, init.end.version)
      PROVE  /\ ChannelTypes'
             /\ \E port, id, end : /\ ChannelCommits(c, port, id, end)
                                   /\ ChannelAdvances(c, port, id, end)
  <2> DEFINE port == init.end.counterparty.port_id
             end == [state |-> "TRYOPEN", ordering |-> init.end.ordering,
                     counterparty |-> [port_id |-> init.port, channel_id |-> init.id],
                     connection_hop |-> hop, version |-> version]
  <2>1. /\ init.end.ordering \in Feature /\ port \in Port
        /\ init.port \in Port /\ init.id \in ChannelId
    BY <1>1 DEF ChannelEnd
  <2>2. end \in ChannelEnd
    BY <1>4, <2>1 DEF ChannelEnd
  <2>3. end.state = "TRYOPEN" /\ end.connection_hop = hop
    OBVIOUS
  <2>4. /\ updateChannelCommitment(c, port, nextChannelId(c), end) /\ roomForChannel
        /\ ensureConnectionState(c, hop)
    BY <1>6 DEF channelOpenTry, ensureConnectionFeature
  <2> HIDE DEF end, port
  <2>5. ChannelTypes' /\ ChannelCommits(c, port, nextChannelId(c), end)
    BY <2>1, <2>2, <2>4, ChannelCommitEffect, ChannelAssumption
  <2> QED
    BY <1>3, <2>3, <2>4, <2>5 DEF ChannelAdvances
<1>7. ASSUME NEW id \in DOMAIN channels[c], NEW try \in committedChannels[counterparty(c)],
             channelOpenAck(c, id, try.id, try.end.version)
      PROVE  /\ ChannelTypes'
             /\ \E port, end : /\ ChannelCommits(c, port, id, end)
                               /\ ChannelAdvances(c, port, id, end)
  <2> DEFINE port == channels[c][id].port
             old == channels[c][id].end
             end == [old EXCEPT !.state = "OPEN", !.version = try.end.version,
                                !.counterparty.channel_id = try.id]
             hop == getCounterpartyHops(c, old.connection_hop)
  <2>1. old \in ChannelEnd /\ port \in Port /\ try.id \in ChannelId /\ try.end \in ChannelEnd
    BY <1>1, <1>2
  <2>2. try.end.version \in ChannelVersion
    BY <2>1 DEF ChannelEnd
  <2>3. /\ end \in ChannelEnd
        /\ end.state = "OPEN" /\ end.version = try.end.version
        /\ end.ordering = old.ordering /\ end.connection_hop = old.connection_hop
        /\ end.counterparty.port_id = old.counterparty.port_id
        /\ end.counterparty.channel_id = try.id
    BY <2>1, <2>2 DEF ChannelEnd
  <2>4. /\ updateChannelCommitment(c, port, id, end) /\ old.state = "INIT"
        /\ ensureConnectionState(c, old.connection_hop)
        /\ [port |-> old.counterparty.port_id, id |-> try.id,
            end |-> [state |-> "TRYOPEN", ordering |-> old.ordering,
                     counterparty |-> [port_id |-> port, channel_id |-> id],
                     connection_hop |-> hop, version |-> try.end.version]]
             \in committedChannels[counterparty(c)]
    BY <1>7 DEF channelOpenAck, verifyChannelState, expectedChannel
  <2> HIDE DEF end
  <2>5. ChannelProven(c, port, id, end)
    BY <2>3, <2>4 DEF ChannelProven, ChannelProvenAmong, namedChannel
  <2>6. ChannelTypes' /\ ChannelCommits(c, port, id, end)
    BY <2>1, <2>3, <2>4, ChannelCommitEffect, ChannelAssumption
  <2> QED
    BY <2>3, <2>4, <2>5, <2>6 DEF ChannelAdvances
<1>8. ASSUME NEW id \in DOMAIN channels[c], NEW state \in {"OPEN", "CLOSED"},
             LET old == channels[c][id].end
                 end == [old EXCEPT !.state = state]
             IN /\ updateChannelCommitment(c, channels[c][id].port, id, end)
                /\ \/ state = "CLOSED" /\ old.state = "OPEN"
                   \/ /\ state = "OPEN" /\ old.state = "TRYOPEN"
                      /\ verifyChannelState(c, old.counterparty.port_id,
                           old.counterparty.channel_id,
                           expectedChannel(c, channels[c][id].port, id, old, "OPEN", old.version))
      PROVE  /\ ChannelTypes'
             /\ \E port, end : /\ ChannelCommits(c, port, id, end)
                               /\ ChannelAdvances(c, port, id, end)
  <2> DEFINE port == channels[c][id].port
             old == channels[c][id].end
             end == [old EXCEPT !.state = state]
  <2>1. old \in ChannelEnd /\ port \in Port /\ ensureConnectionState(c, old.connection_hop)
    BY <1>2
  <2>2. /\ end \in ChannelEnd
        /\ end.state = state /\ end.version = old.version
        /\ end.ordering = old.ordering /\ end.connection_hop = old.connection_hop
        /\ end.counterparty = old.counterparty
    BY <2>1 DEF ChannelEnd
  <2>3. updateChannelCommitment(c, port, id, end)
    BY <1>8
  <2>4. ChannelTypes' /\ ChannelCommits(c, port, id, end)
    BY <2>1, <2>2, <2>3, ChannelCommitEffect, ChannelAssumption
  <2>5. CASE state = "CLOSED" /\ old.state = "OPEN"
    BY <2>1, <2>2, <2>4, <2>5 DEF ChannelAdvances
  <2>6. CASE /\ state = "OPEN" /\ old.state = "TRYOPEN"
             /\ verifyChannelState(c, old.counterparty.port_id, old.counterparty.channel_id,
                  expectedChannel(c, port, id, old, "OPEN", old.version))
    <3>1. end = [channels[c][id].end EXCEPT !.state = "OPEN"]
      BY <2>6
    <3> HIDE DEF end
    <3>2. ChannelProven(c, port, id, end)
      BY <2>2, <2>6 DEF ChannelProven, ChannelProvenAmong, namedChannel, verifyChannelState,
         expectedChannel
    <3> QED
      BY <2>1, <2>2, <2>4, <2>6, <3>1, <3>2 DEF ChannelAdvances
  <2> QED
    BY <1>8, <2>5, <2>6
<1>9. ASSUME NEW id \in DOMAIN channels[c],
             channelOpenConfirm(c, id) \/ channelCloseInit(c, id) \/ channelCloseConfirm(c, id)
      PROVE  /\ ChannelTypes'
             /\ \E port, end : /\ ChannelCommits(c, port, id, end)
                               /\ ChannelAdvances(c, port, id, end)
  <2>1. CASE channelOpenConfirm(c, id)
    BY <1>8, <2>1 DEF channelOpenConfirm
  <2>2. CASE channelCloseInit(c, id)
    BY <1>8, <2>2 DEF channelCloseInit
  <2>3. CASE channelCloseConfirm(c, id)
    BY <1>8, <2>3 DEF channelCloseConfirm
  <2> QED
    BY <1>9, <2>1, <2>2, <2>3
<1> QED
  BY <1>5, <1>6, <1>7, <1>9 DEF ChannelStep

(* A step of a channel's handshake leaves what was committed true.         *)
LEMMA ChannelCommitKeeps ==
  ASSUME ChannelTypes, ChannelTypes', ChannelsKept, HopsOpen, OpenedWasProven,
         NEW c \in Chain, NEW port, NEW id, NEW end,
         ChannelCommits(c, port, id, end), ChannelAdvances(c, port, id, end)
  PROVE  ChannelsKept' /\ HopsOpen' /\ OpenedWasProven'
<1>1. /\ connections' = connections
      /\ \A d \in Chain : /\ committedChannels[d] \subseteq committedChannels'[d]
                          /\ counterparty(d) \in Chain
  BY BothChains DEF ChannelCommits, connectionVars
<1>2. \A d \in Chain : \A other \in DOMAIN channels[d] : channels[d][other].end \in ChannelEnd
  <2>1. \A row \in ChannelRow : row.end \in ChannelEnd
    BY DEF ChannelRow
  <2>2. \A d \in Chain : \A other \in DOMAIN channels[d] : channels[d][other] \in ChannelRow
    BY DEF ChannelTypes
  <2> QED
    BY <2>1, <2>2
<1>3. \A was \in ChannelEnd : \A now \in {"OPEN", "CLOSED"} :
        LET moved == [was EXCEPT !.state = now]
        IN /\ moved.state = now /\ moved.ordering = was.ordering
           /\ moved.counterparty = was.counterparty /\ moved.version = was.version
           /\ moved.connection_hop = was.connection_hop
           /\ \A first : [[was EXCEPT !.state = first] EXCEPT !.state = now] = moved
  BY DEF ChannelEnd
<1>4. HopsOpen'
  <2> SUFFICES ASSUME NEW d \in Chain, NEW other \in DOMAIN channels'[d]
               PROVE  ensureConnectionState(d, channels'[d][other].end.connection_hop)
    BY <1>1 DEF HopsOpen, ensureConnectionState
  <2>1. CASE d = c /\ other = id
    <3>1. channels'[d][other].end = end
      BY <2>1 DEF ChannelCommits
    <3> QED
      BY <2>1, <3>1 DEF ChannelAdvances
  <2>2. CASE ~(d = c /\ other = id)
    BY <2>2 DEF ChannelCommits, HopsOpen
  <2> QED
    BY <2>1, <2>2
<1>5. OpenedWasProven'
  <2>1. ASSUME NEW d \in Chain, NEW p, NEW other, NEW e, ChannelProven(d, p, other, e)
        PROVE  ChannelProvenAmong(committedChannels'[counterparty(d)],
                                  getCounterpartyHops(d, e.connection_hop), p, other, e)
    BY <1>1, <2>1 DEF ChannelProven, ChannelProvenAmong
  <2> SUFFICES ASSUME NEW d \in Chain, NEW other \in DOMAIN channels'[d],
                      channels'[d][other].end.state \in {"OPEN", "CLOSED"}
               PROVE  ChannelProvenAmong(committedChannels'[counterparty(d)],
                        getCounterpartyHops(d, channels'[d][other].end.connection_hop),
                        channels'[d][other].port, other, channels'[d][other].end)
    BY <1>1 DEF OpenedWasProven, ChannelProven, ChannelProvenAmong, namedChannel, counterparty,
       getCounterpartyHops
  <2>2. CASE d = c /\ other = id
    <3>1. channels'[d][other].end = end /\ channels'[d][other].port = port
      BY <2>2 DEF ChannelCommits
    <3>2. ChannelProven(c, port, id, end)
      <4>1. CASE /\ id \in DOMAIN channels[c] /\ port = channels[c][id].port
                 /\ channels[c][id].end.state = "OPEN"
                 /\ end = [channels[c][id].end EXCEPT !.state = "CLOSED"]
        <5> DEFINE old == channels[c][id].end
        <5>1. ChannelProven(c, port, id, old)
          BY <4>1 DEF OpenedWasProven
        <5>2. /\ end.ordering = old.ordering /\ end.version = old.version
              /\ end.counterparty = old.counterparty
              /\ end.connection_hop = old.connection_hop
          BY <1>2, <1>3, <4>1
        <5> HIDE DEF old
        <5> QED
          BY <5>1, <5>2 DEF ChannelProven, ChannelProvenAmong, namedChannel
      <4> QED
        BY <3>1, <4>1 DEF ChannelAdvances
    <3> QED
      BY <2>1, <2>2, <3>1, <3>2
  <2>3. CASE ~(d = c /\ other = id)
    <3>1. other \in DOMAIN channels[d] /\ channels'[d][other] = channels[d][other]
      BY <2>3 DEF ChannelCommits
    <3>2. ChannelProven(d, channels[d][other].port, other, channels[d][other].end)
      BY <3>1 DEF OpenedWasProven
    <3> QED
      BY <2>1, <3>1, <3>2
  <2> QED
    BY <2>2, <2>3
<1>6. ChannelsKept'
  <2> SUFFICES ASSUME NEW d \in Chain, NEW was \in committedChannels'[d]
               PROVE  /\ was.id \in DOMAIN channels'[d]
                      /\ channels'[d][was.id].port = was.port
                      /\ was.end.state # "INIT" =>
                           /\ channels'[d][was.id].end.state # "INIT"
                           /\ channels'[d][was.id].end
                                = [was.end EXCEPT !.state = channels'[d][was.id].end.state]
                      /\ was.end.state \in {"OPEN", "CLOSED"} =>
                           channels'[d][was.id].end.state \in {"OPEN", "CLOSED"}
    BY DEF ChannelsKept
  <2>1. was.end \in ChannelEnd
    BY DEF ChannelTypes, CommittedChannel
  <2>2. was.end = [was.end EXCEPT !.state = was.end.state]
    BY <2>1 DEF ChannelEnd
  <2>3. CASE d = c /\ was = [port |-> port, id |-> id, end |-> end]
    <3>1. was.id = id /\ was.port = port /\ was.end = end
      BY <2>3
    <3>2. /\ was.id \in DOMAIN channels'[d]
          /\ channels'[d][was.id].port = was.port /\ channels'[d][was.id].end = was.end
      BY <2>3, <3>1 DEF ChannelCommits
    <3> QED
      BY <2>2, <3>2
  <2>4. CASE was \in committedChannels[d]
    <3> DEFINE old == channels[d][was.id]
               new == channels'[d][was.id]
    <3>1. /\ was.id \in DOMAIN channels[d] /\ old.port = was.port
          /\ was.end.state # "INIT" =>
               /\ old.end.state # "INIT"
               /\ old.end = [was.end EXCEPT !.state = old.end.state]
          /\ was.end.state \in {"OPEN", "CLOSED"} => old.end.state \in {"OPEN", "CLOSED"}
      BY <2>4 DEF ChannelsKept
    <3>2. was.id \in DOMAIN channels'[d]
      BY <3>1 DEF ChannelCommits
    <3>3. CASE ~(d = c /\ was.id = id)
      <4>1. new = old
        BY <3>1, <3>3 DEF ChannelCommits
      <4> HIDE DEF old, new
      <4> QED
        BY <3>1, <3>2, <4>1 DEF old, new
    <3>4. CASE d = c /\ was.id = id
      <4>1. new = [port |-> port, end |-> end] /\ new.port = port /\ new.end = end
        BY <3>4 DEF ChannelCommits
      <4>2. id \in DOMAIN channels[c] /\ old = channels[c][id]
        BY <3>1, <3>4
      <4>3. /\ port = old.port
            /\ \/ old.end.state = "INIT" /\ end.state = "OPEN"
               \/ old.end.state = "TRYOPEN" /\ end = [old.end EXCEPT !.state = "OPEN"]
               \/ old.end.state = "OPEN" /\ end = [old.end EXCEPT !.state = "CLOSED"]
        BY <4>2 DEF ChannelAdvances
      <4> HIDE DEF old, new
      <4>4. ASSUME was.end.state # "INIT"
            PROVE  \E now \in {"OPEN", "CLOSED"} : end = [was.end EXCEPT !.state = now]
        <5>1. /\ old.end.state # "INIT"
              /\ old.end = [was.end EXCEPT !.state = old.end.state]
          BY <3>1, <4>4
        <5>2. \A now \in {"OPEN", "CLOSED"} :
                [old.end EXCEPT !.state = now] = [was.end EXCEPT !.state = now]
          BY <1>3, <2>1, <5>1
        <5> QED
          BY <4>3, <5>1, <5>2
      <4>5. was.end.state # "INIT" =>
              /\ end.state \in {"OPEN", "CLOSED"}
              /\ end = [was.end EXCEPT !.state = end.state]
        <5> SUFFICES ASSUME was.end.state # "INIT"
                     PROVE  /\ end.state \in {"OPEN", "CLOSED"}
                            /\ end = [was.end EXCEPT !.state = end.state]
          OBVIOUS
        <5>1. PICK now \in {"OPEN", "CLOSED"} : end = [was.end EXCEPT !.state = now]
          BY <4>4
        <5>2. end.state = now
          BY <1>3, <2>1, <5>1
        <5> QED
          BY <5>1, <5>2
      <4>6. new.port = was.port
        BY <3>1, <4>1, <4>3
      <4>7. /\ was.end.state # "INIT" =>
                 /\ new.end.state # "INIT"
                 /\ new.end = [was.end EXCEPT !.state = new.end.state]
            /\ was.end.state \in {"OPEN", "CLOSED"} => new.end.state \in {"OPEN", "CLOSED"}
        BY <4>1, <4>5
      <4> QED
        BY <3>2, <4>6, <4>7 DEF new
    <3> QED
      BY <3>3, <3>4
  <2> QED
    BY <2>3, <2>4 DEF ChannelCommits
<1> QED
  BY <1>4, <1>5, <1>6

(* The connection handshake does too: an end that a channel is over stays. *)
LEMMA ConnectionKeepsChannels ==
  ASSUME ConnectionInv, ConnectionAssumption, [Next]_vars, UNCHANGED channelVars,
         ChannelInv
  PROVE  ChannelInv'
<1>1. channels' = channels /\ committedChannels' = committedChannels
  BY DEF channelVars
<1>2. \A c \in Chain : \A id \in DOMAIN channels[c] :
        LET hop == channels[c][id].end.connection_hop
        IN /\ hop \in DOMAIN connections[c] /\ connections[c][hop].state = "OPEN"
           /\ hop \in DOMAIN connections'[c] /\ connections'[c][hop] = connections[c][hop]
  <2>1. \A c \in Chain : \A id \in DOMAIN channels[c] :
          LET hop == channels[c][id].end.connection_hop
          IN hop \in DOMAIN connections[c] /\ connections[c][hop].state = "OPEN"
    BY DEF ChannelInv, HopsOpen, ensureConnectionState
  <2> QED
    BY <2>1, OpenStays, ConnectionAssumption
<1>3. ChannelTypes' /\ ChannelsKept'
  BY <1>1 DEF ChannelInv, ChannelTypes, ChannelsKept
<1>4. HopsOpen'
  BY <1>1, <1>2 DEF HopsOpen, ensureConnectionState
<1>5. OpenedWasProven'
  <2>1. ASSUME NEW c \in Chain, NEW id \in DOMAIN channels[c],
               ChannelProvenAmong(committedChannels[counterparty(c)],
                 connections'[c][channels[c][id].end.connection_hop].counterparty.connection_id,
                 channels[c][id].port, id, channels[c][id].end)
        PROVE  ChannelProven(c, channels[c][id].port, id, channels[c][id].end)'
    <3>1. PICK state \in {"TRYOPEN", "OPEN", "CLOSED"} :
            namedChannel(channels[c][id].port, id, channels[c][id].end,
              connections'[c][channels[c][id].end.connection_hop].counterparty.connection_id,
              state) \in committedChannels[counterparty(c)]
      BY <2>1 DEF ChannelProvenAmong
    <3> QED
      BY <1>1, <3>1 DEF ChannelProven, ChannelProvenAmong, namedChannel, counterparty,
         getCounterpartyHops
  <2> SUFFICES ASSUME NEW c \in Chain, NEW id \in DOMAIN channels[c],
                      channels[c][id].end.state \in {"OPEN", "CLOSED"}
               PROVE  ChannelProvenAmong(committedChannels[counterparty(c)],
                        connections'[c][channels[c][id].end.connection_hop]
                          .counterparty.connection_id,
                        channels[c][id].port, id, channels[c][id].end)
    BY <1>1, <2>1 DEF OpenedWasProven
  <2>2. ChannelProven(c, channels[c][id].port, id, channels[c][id].end)
    BY DEF ChannelInv, OpenedWasProven
  <2> QED
    BY <1>2, <2>2 DEF ChannelProven, getCounterpartyHops
<1> QED
  BY <1>3, <1>4, <1>5 DEF ChannelInv

(* So the invariant of both is inductive.                                  *)
LEMMA HandshakeInvStep ==
  ASSUME HandshakeInv, ConnectionAssumption, ChannelAssumption, [Next]_vars
  PROVE  HandshakeInv'
<1>1. ConnectionInv'
  BY ConnectionInvStep, ConnectionAssumption DEF HandshakeInv
<1>2. ASSUME UNCHANGED channelVars PROVE ChannelInv'
  BY <1>2, ConnectionKeepsChannels, ConnectionAssumption DEF HandshakeInv
<1>3. ASSUME NEW c \in Chain, ChannelStep(c) PROVE ChannelInv'
  BY <1>3, ChannelEffect, ChannelCommitKeeps, ConnectionAssumption, ChannelAssumption
     DEF HandshakeInv, ConnectionInv, ChannelInv
<1>4. ChannelInv'
  BY <1>2, <1>3 DEF Next, vars
<1> QED
  BY <1>1, <1>4 DEF HandshakeInv

(* It holds before anything was sent.                                      *)
LEMMA InitHandshake ==
  ASSUME Init, ConnectionAssumption, ChannelAssumption PROVE HandshakeInv
<1>1. /\ connections = [c \in Chain |-> <<>>] /\ committed = [c \in Chain |-> {}]
      /\ channels = [c \in Chain |-> <<>>] /\ committedChannels = [c \in Chain |-> {}]
      /\ ChainA \in Chain /\ ChainB \in Chain
      /\ MaxConnections \in Nat /\ MaxChannels \in Nat
      /\ \A c \in Chain : counterparty(c) \in Chain
  BY BothChains, ConnectionAssumption, ChannelAssumption
     DEF Init, InitConnections, InitChannels, Chain, ConnectionAssumption, ChannelAssumption
<1>2. ConnectionTypes /\ ChannelTypes
  BY <1>1 DEF ConnectionTypes, ChannelTypes
<1>3. ConnectionsKept /\ ChannelsKept
  BY <1>1 DEF ConnectionsKept, ChannelsKept
<1>4. OpenWasProven /\ HopsOpen /\ OpenedWasProven
  BY <1>1 DEF OpenWasProven, HopsOpen, OpenedWasProven
<1> QED
  BY <1>2, <1>3, <1>4 DEF HandshakeInv, ConnectionInv, ChannelInv

(* Whatever either chain is told, in whatever order: what opened was       *)
(* proven, and stays what it was.                                          *)
THEOREM HandshakeInvHolds == Spec => []HandshakeInv
<1>1. Init => HandshakeInv
  BY InitHandshake, ConnectionAssumption, ChannelAssumption
<1>2. HandshakeInv /\ [Next]_vars => HandshakeInv'
  BY HandshakeInvStep, ConnectionAssumption, ChannelAssumption
<1> QED
  BY <1>1, <1>2, PTL DEF Spec

(* An open connection end and the one it names have the same clients, one  *)
(* version and one delay, whatever handshakes ran beside theirs            *)
(* (connectionOpenAck, connectionOpenConfirm).                             *)
THEOREM ConnectionsAgreeHolds == Spec => []ConnectionsAgree
<1>1. HandshakeInv => ConnectionsAgree
  BY AgreementFollows DEF HandshakeInv
<1> QED
  BY <1>1, HandshakeInvHolds, PTL

(* At most one connection end of a chain opens towards an end of the other *)
(* (connectionOpenTry repeated, connectionOpenAck).                        *)
THEOREM ConnectionsPairUpHolds == Spec => []ConnectionsPairUp
<1>1. HandshakeInv => ConnectionsPairUp
  BY AgreementFollows DEF HandshakeInv
<1> QED
  BY <1>1, HandshakeInvHolds, PTL

(* What was proven of the other channel end is true of the one it is now.  *)
LEMMA ChannelAgreementFollows == ASSUME HandshakeInv PROVE ChannelsAgree /\ ChannelsPairUp
<1>1. ConnectionsAgree
  BY AgreementFollows DEF HandshakeInv
<1>2. ASSUME NEW c \in Chain, NEW id \in DOMAIN channels[c], HasOpened(c, id)
      PROVE  LET port == channels[c][id].port
                 end == channels[c][id].end
                 otherId == end.counterparty.channel_id
                 other == channels[counterparty(c)][otherId].end
             IN /\ otherId \in DOMAIN channels[counterparty(c)]
                /\ channels[counterparty(c)][otherId].port = end.counterparty.port_id
                /\ other = expectedChannel(c, port, id, end, other.state, end.version)
                /\ other.state # "INIT"
                /\ other.counterparty = [port_id |-> port, channel_id |-> id]
                /\ getCounterpartyHops(counterparty(c), other.connection_hop)
                     = end.connection_hop
  <2> DEFINE port == channels[c][id].port
             end == channels[c][id].end
             hop == getCounterpartyHops(c, end.connection_hop)
             row == channels[counterparty(c)][end.counterparty.channel_id]
  <2>1. ChannelProven(c, port, id, end)
    BY <1>2 DEF HandshakeInv, ChannelInv, OpenedWasProven, HasOpened
  <2>2. PICK state \in {"TRYOPEN", "OPEN", "CLOSED"} :
          namedChannel(port, id, end, hop, state) \in committedChannels[counterparty(c)]
    BY <2>1 DEF ChannelProven, ChannelProvenAmong
  <2> DEFINE was == namedChannel(port, id, end, hop, state)
  <2>3. /\ was.port = end.counterparty.port_id
        /\ was.id = end.counterparty.channel_id
        /\ was.end = [state |-> state, ordering |-> end.ordering,
                      counterparty |-> [port_id |-> port, channel_id |-> id],
                      connection_hop |-> hop, version |-> end.version]
    BY DEF namedChannel
  <2>4. counterparty(c) \in Chain /\ counterparty(counterparty(c)) = c
    BY BothChains
  <2>5. was \in committedChannels[counterparty(c)]
    BY <2>2
  <2>6. /\ end.connection_hop \in DOMAIN connections[c]
        /\ connections[c][end.connection_hop].state = "OPEN"
    BY DEF HandshakeInv, ChannelInv, HopsOpen, ensureConnectionState
  <2>7. connections[counterparty(c)][hop].counterparty.connection_id = end.connection_hop
    <3>1. otherConnection(c, connections[c][end.connection_hop]).counterparty
            = [client_id |-> connections[c][end.connection_hop].client_id,
               connection_id |-> end.connection_hop]
      BY <1>1, <2>6 DEF ConnectionsAgree
    <3> HIDE DEF end
    <3> QED
      BY <3>1 DEF otherConnection, getCounterpartyHops
  <2> HIDE DEF was, end, port, hop
  <2>8. /\ was.id \in DOMAIN channels[counterparty(c)]
        /\ channels[counterparty(c)][was.id].port = was.port
        /\ channels[counterparty(c)][was.id].end.state # "INIT"
        /\ channels[counterparty(c)][was.id].end
             = [was.end EXCEPT !.state = channels[counterparty(c)][was.id].end.state]
    <3>1. was.end.state # "INIT"
      BY <2>2, <2>3
    <3> QED
      BY <2>4, <2>5, <3>1 DEF HandshakeInv, ChannelInv, ChannelsKept
  <2>9. row.end = [state |-> row.end.state, ordering |-> end.ordering,
                   counterparty |-> [port_id |-> port, channel_id |-> id],
                   connection_hop |-> hop, version |-> end.version]
    BY <2>3, <2>8
  <2>10. /\ row.end.counterparty = [port_id |-> port, channel_id |-> id]
         /\ row.end.connection_hop = hop
    BY <2>9
  <2>11. row.end = expectedChannel(c, port, id, end, row.end.state, end.version)
    BY <2>9 DEF expectedChannel, hop
  <2>12. getCounterpartyHops(counterparty(c), row.end.connection_hop) = end.connection_hop
    BY <2>7, <2>10 DEF getCounterpartyHops
  <2> QED
    BY <2>3, <2>8, <2>10, <2>11, <2>12 DEF end, port
<1>3. ChannelsAgree
  <2> SUFFICES ASSUME NEW c \in Chain, NEW id \in DOMAIN channels[c], HasOpened(c, id)
               PROVE  LET port == channels[c][id].port
                          end == channels[c][id].end
                          otherId == end.counterparty.channel_id
                          other == channels[counterparty(c)][otherId].end
                      IN /\ otherId \in DOMAIN channels[counterparty(c)]
                         /\ channels[counterparty(c)][otherId].port = end.counterparty.port_id
                         /\ other = expectedChannel(c, port, id, end, other.state, end.version)
                         /\ other.state # "INIT"
                         /\ getCounterpartyHops(counterparty(c), other.connection_hop)
                              = end.connection_hop
    BY DEF ChannelsAgree
  <2> QED
    BY <1>2
<1>4. ChannelsPairUp
  <2> SUFFICES ASSUME NEW c \in Chain, NEW i \in DOMAIN channels[c], NEW j \in DOMAIN channels[c],
                      HasOpened(c, i), HasOpened(c, j),
                      channels[c][i].end.counterparty = channels[c][j].end.counterparty
               PROVE  i = j
    BY DEF ChannelsPairUp
  <2> DEFINE other(k) == channels[counterparty(c)][channels[c][k].end.counterparty.channel_id]
  <2>1. /\ other(i).end.counterparty = [port_id |-> channels[c][i].port, channel_id |-> i]
        /\ other(j).end.counterparty = [port_id |-> channels[c][j].port, channel_id |-> j]
    BY <1>2
  <2>2. other(i) = other(j)
    OBVIOUS
  <2> HIDE DEF other
  <2> QED
    BY <2>1, <2>2
<1> QED
  BY <1>3, <1>4

(* A channel end that has opened and the one it names agree, and are over  *)
(* the two ends of one connection (channelOpenAck, channelOpenConfirm).    *)
THEOREM ChannelsAgreeHolds == Spec => []ChannelsAgree
<1>1. HandshakeInv => ChannelsAgree
  BY ChannelAgreementFollows
<1> QED
  BY <1>1, HandshakeInvHolds, PTL

(* At most one channel end of a chain opens towards an end of the other    *)
(* (channelOpenTry repeated, channelOpenAck).                              *)
THEOREM ChannelsPairUpHolds == Spec => []ChannelsPairUp
<1>1. HandshakeInv => ChannelsPairUp
  BY ChannelAgreementFollows
<1> QED
  BY <1>1, HandshakeInvHolds, PTL

=============================================================================
