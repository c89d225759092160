-------------------------- MODULE IBCPacketProofs --------------------------
(***************************************************************************)
(* IBCPacket, for every value of its constants.  First what the receiving  *)
(* modules see: nothing is delivered twice, or once it was timed out.      *)
(* Then what the sending modules are told: one outcome for each packet, in *)
(* order on an ordered channel.  Then, that an unordered channel           *)
(* implements PacketLifecycle; and last, what Voyager, which relays its    *)
(* packets (RelayMessage), can rely on and gives up.                       *)
(***************************************************************************)
EXTENDS RelayMessage, TLAPS

USE DEF Chain, counterparty

(* Steps of IBCPacket, and of RelayMessage, which has blocks past MaxHeight *)
(* when one is waited for.                                                 *)
BlockStep == \E c \in Chain : EndBlock(c, commitments[c]) /\ UNCHANGED packetVars

Step == [Next]_vars \/ BlockStep

-----------------------------------------------------------------------------
(* Types *)

(* What an action does to the blocks and the clients.                      *)
LEMMA ClientStepType ==
  ASSUME TypeOK, ClientViewAssumption, NEW c \in Chain,
         \/ EndBlock(c, commitments[c])
         \/ updateClient(c)
  PROVE  /\ block' \in [Chain -> [number : Nat, timestamp : Nat]]
         /\ headers' \in [Chain -> SUBSET Header]
         /\ consensus' \in [Chain -> SUBSET Header]
<1>1. CASE EndBlock(c, commitments[c])
  <2>1. commitments[c] \in Store
    BY DEF TypeOK
  <2>2. PICK step \in TimeStep :
          LET after == [number |-> block[c].number + 1,
                        timestamp |-> block[c].timestamp + step]
              head == IF RootLag[c] = 0 THEN block[c] ELSE after
          IN /\ block' = [block EXCEPT ![c] = after]
             /\ headers' = [headers EXCEPT
                  ![c] = @ \cup {[height |-> head.number,
                                  timestamp |-> head.timestamp,
                                  root |-> commitments[c]]}]
    BY <1>1 DEF EndBlock
  <2>3. block[c] \in [number : Nat, timestamp : Nat] /\ step \in Nat
    BY ClientViewAssumption DEF TypeOK
  <2> DEFINE after == [number |-> block[c].number + 1,
                       timestamp |-> block[c].timestamp + step]
             head == IF RootLag[c] = 0 THEN block[c] ELSE after
             hd == [height |-> head.number, timestamp |-> head.timestamp,
                    root |-> commitments[c]]
  <2>4. after \in [number : Nat, timestamp : Nat]
    BY <2>3
  <2>5. head \in [number : Nat, timestamp : Nat]
    BY <2>3, <2>4
  <2>6. hd \in Header
    BY <2>1, <2>5 DEF Header
  <2>7. block' = [block EXCEPT ![c] = after] /\ headers' = [headers EXCEPT ![c] = @ \cup {hd}]
    BY <2>2
  <2> HIDE DEF after, head, hd
  <2>8. QED
    BY <1>1, <2>4, <2>6, <2>7 DEF EndBlock, TypeOK
<1>2. CASE updateClient(c)
  BY <1>2 DEF updateClient, TypeOK
<1>3. QED
  BY <1>1, <1>2

(* The state channelOpenAck leaves has the types.                          *)
LEMMA InitType == ASSUME ClientViewAssumption, PacketAssumption, Init PROVE TypeOK
<1>1. ASSUME NEW state \in ChannelState PROVE InitStore(state) \in Store
  BY PacketAssumption DEF InitStore, Store
<1>2. ASSUME NEW c \in Chain, NEW r \in Store PROVE FirstHeader(c, r) \in Header
  BY ClientViewAssumption DEF FirstHeader, Header
<1>3. QED
  BY <1>1, <1>2 DEF Init, InitClientView, TypeOK, ChannelState

(* Writing a chain's store, or setting its channel state, keeps the types. *)
LEMMA StoreType ==
  ASSUME TypeOK, NEW c \in Chain, NEW store \in Store,
         commitments' = [commitments EXCEPT ![c] = store]
  PROVE  commitments' \in [Chain -> Store]
BY DEF TypeOK

(* What sendPacket writes is a store again.                                *)
LEMMA WithPacketType ==
  ASSUME NEW s \in Store, NEW p \in Packet, PacketAssumption
  PROVE  withPacket(s, p) \in Store
<1>1. put(s.packets, p) \in SUBSET Packet /\ p.sequence + 1 \in Nat
  BY DEF Store, put, Packet, Sequence
<1>2. [s EXCEPT !.packets = put(@, p)] \in Store
  BY <1>1 DEF Store
<1>3. [[s EXCEPT !.packets = put(@, p)] EXCEPT !.nextSequenceSend = p.sequence + 1] \in Store
  BY <1>1, <1>2 DEF Store
<1>4. QED
  BY <1>3 DEF withPacket

(* So is what acknowledgePacket and timeoutPacket leave.                   *)
LEMMA WithoutPacketType ==
  ASSUME NEW s \in Store, NEW p \in Packet, PacketAssumption
  PROVE  /\ withoutPacket(s, p) \in Store
         /\ withAcknowledged(s, p) \in Store
<1>1. p.sequence + 1 \in Nat
  BY DEF Packet, Sequence
<1>2. [s EXCEPT !.packets = @ \ {p}] \in Store
  BY DEF Store
<1>3. [[s EXCEPT !.packets = @ \ {p}] EXCEPT !.nextSequenceAck = p.sequence + 1] \in Store
  BY <1>1, <1>2 DEF Store
<1>4. QED
  BY <1>2, <1>3 DEF withoutPacket, withAcknowledged

(* Writing a channel's state and its commitment keeps both types.          *)
LEMMA SetChannelType ==
  ASSUME TypeOK, NEW c \in Chain, NEW state \in ChannelState, setChannel(c, state)
  PROVE  /\ channels' \in [Chain -> ChannelState]
         /\ commitments' \in [Chain -> Store]
<1> DEFINE new == [commitments[c] EXCEPT !.channel = state]
<1>1. commitments[c] \in Store
  BY DEF TypeOK
<1>2. new \in Store
  BY <1>1 DEF Store
<1>3. commitments' = [commitments EXCEPT ![c] = new]
  BY DEF setChannel
<1>4. QED
  BY <1>2, <1>3, StoreType DEF setChannel, TypeOK

(* Every handler, block and client update keeps the types.                 *)
LEMMA StepType ==
  ASSUME TypeOK, ClientViewAssumption, PacketAssumption, Step
  PROVE  TypeOK'
<1>0. CASE UNCHANGED vars
  BY <1>0 DEF vars, clientVars, packetVars, TypeOK
<1>1. ASSUME NEW c \in Chain, EndBlock(c, commitments[c]) \/ updateClient(c),
             UNCHANGED packetVars
      PROVE  TypeOK'
  BY <1>1, ClientStepType DEF TypeOK, packetVars
<1>2. ASSUME NEW c \in Chain,
             channelOpenConfirm(c) \/ channelCloseInit(c) \/ channelCloseConfirm(c)
      PROVE  TypeOK'
  <2>1. PICK state \in ChannelState : setChannel(c, state)
    BY <1>2 DEF channelOpenConfirm, channelCloseInit, channelCloseConfirm, ChannelState
  <2>2. UNCHANGED <<clientVars, onRecv, outcomes>>
    BY <1>2 DEF channelOpenConfirm, channelCloseInit, channelCloseConfirm
  <2>3. QED
    BY <2>1, <2>2, SetChannelType DEF TypeOK, clientVars
<1>3. ASSUME NEW c \in Chain, NEW h \in TimeoutHeight, NEW t \in TimeoutTimestamp,
             sendPacket(c, h, t)
      PROVE  TypeOK'
  <2> DEFINE p == [sequence |-> commitments[c].nextSequenceSend,
                   timeout_height |-> h, timeout_timestamp |-> t]
  <2>1. commitments[c] \in Store
    BY DEF TypeOK
  <2>2. p \in Packet
    BY <1>3 DEF sendPacket, Packet
  <2>3. commitments' = [commitments EXCEPT ![c] = withPacket(@, p)]
    BY <1>3 DEF sendPacket
  <2>5. commitments' \in [Chain -> Store]
    BY <2>1, <2>2, <2>3, WithPacketType, StoreType
  <2>6. QED
    BY <1>3, <2>5 DEF sendPacket, TypeOK, clientVars
<1>4. ASSUME NEW c \in Chain, NEW p \in Packet, NEW ack \in Acknowledgement \cup {EmptyAck},
             recvPacket(c, p, ack)
      PROVE  TypeOK'
  <2>1. commitments[c] \in Store /\ p.sequence \in Sequence
    BY DEF TypeOK, Packet
  <2>2. withReceipt(commitments[c], p.sequence) \in Store
    BY <2>1, PacketAssumption DEF withReceipt, Store, Sequence
  <2>3. withAck(withReceipt(commitments[c], p.sequence), p.sequence, ack) \in Store
    BY <2>1, <2>2 DEF withAck, Store
  <2>4. QED
    BY <1>4, <2>3 DEF recvPacket, TypeOK, clientVars
<1>5. ASSUME NEW c \in Chain, NEW p \in Packet, NEW ack \in Acknowledgement,
             writeAcknowledgement(c, p, ack)
      PROVE  TypeOK'
  <2>1. commitments[c] \in Store /\ p.sequence \in Sequence
    BY DEF TypeOK, Packet
  <2>2. withAck(commitments[c], p.sequence, ack) \in Store
    BY <2>1 DEF withAck, Store
  <2>3. QED
    BY <1>5, <2>2 DEF writeAcknowledgement, TypeOK, clientVars
<1>6. ASSUME NEW c \in Chain, NEW p \in Packet, NEW outcome \in Outcome, tell(c, p, outcome)
      PROVE  outcomes' \in [Chain -> [Packet -> Seq(Outcome)]]
  BY <1>6 DEF tell, TypeOK
<1>7. ASSUME NEW c \in Chain, NEW p \in Packet, NEW ack \in Acknowledgement,
             acknowledgePacket(c, p, ack)
      PROVE  TypeOK'
  <2>1. withAcknowledged(commitments[c], p) \in Store
    BY WithoutPacketType, PacketAssumption DEF TypeOK
  <2>2. commitments' \in [Chain -> Store]
    BY <1>7, <2>1, StoreType DEF acknowledgePacket
  <2>3. QED
    BY <1>6, <1>7, <2>2 DEF acknowledgePacket, TypeOK, clientVars, Outcome
<1>8. ASSUME NEW c \in Chain, NEW p \in Packet, timeoutPacket(c, p)
      PROVE  TypeOK'
  <2>1. withoutPacket(commitments[c], p) \in Store
    BY WithoutPacketType, PacketAssumption DEF TypeOK
  <2>2. commitments' \in [Chain -> Store]
    BY <1>8, <2>1, StoreType DEF timeoutPacket
  <2>3. channels' \in [Chain -> ChannelState]
    BY <1>8 DEF timeoutPacket, TypeOK, ChannelState
  <2>4. QED
    BY <1>6, <1>8, <2>2, <2>3 DEF timeoutPacket, TypeOK, clientVars, Outcome
<1>9. QED
  BY <1>0, <1>1, <1>2, <1>3, <1>4, <1>5, <1>7, <1>8 DEF Step, BlockStep, Next, NewBlock

(* Every variable keeps its type: in particular the provable store never   *)
(* holds an empty acknowledgement.                                         *)
THEOREM TypeCorrect == Spec => []TypeOK
<1>1. Init => TypeOK
  BY InitType, ClientViewAssumption, PacketAssumption
<1>2. TypeOK /\ [Next]_vars => TypeOK'
  BY StepType, ClientViewAssumption, PacketAssumption DEF Step
<1>3. QED
  BY <1>1, <1>2, PTL DEF Spec

HIDE DEF Chain, counterparty

-----------------------------------------------------------------------------
(* The two chains *)

(* The counterparty of a chain is the other one, and back.                 *)
LEMMA TwoChains ==
  ASSUME NEW c \in Chain
  PROVE  /\ counterparty(c) \in Chain /\ counterparty(c) # c
         /\ counterparty(counterparty(c)) = c
BY ChainsAssumption DEF Chain, counterparty

-----------------------------------------------------------------------------
(* What each action does to the provable stores, field by field *)

SameFields(d) ==
  /\ commitments'[d].packets = commitments[d].packets
  /\ commitments'[d].receipts = commitments[d].receipts
  /\ commitments'[d].acks = commitments[d].acks
  /\ commitments'[d].nextSequenceSend = commitments[d].nextSequenceSend
  /\ commitments'[d].nextSequenceRecv = commitments[d].nextSequenceRecv
  /\ commitments'[d].nextSequenceAck = commitments[d].nextSequenceAck

(* The stores but the one of chain c stay as they are.                     *)
OnlyStoreOf(c) == \A d \in Chain : d # c => SameFields(d)

(* The channel's own handlers write nothing but its state.                 *)
LEMMA ChannelEffect ==
  ASSUME TypeOK, NEW c \in Chain,
         channelOpenConfirm(c) \/ channelCloseInit(c) \/ channelCloseConfirm(c)
  PROVE  \A d \in Chain : SameFields(d)
<1>1. PICK state \in ChannelState :
        commitments' = [commitments EXCEPT ![c] = [@ EXCEPT !.channel = state]]
  BY DEF channelOpenConfirm, channelCloseInit, channelCloseConfirm, setChannel, ChannelState
<1>2. ASSUME NEW d \in Chain PROVE commitments[d] \in Store
  BY DEF TypeOK
<1>3. QED
  BY <1>1, <1>2 DEF SameFields, TypeOK, Store

(* The fields of a store after each helper of the handlers.                *)
OtherFieldsSame(s, r, changed) ==
  /\ "packets" \notin changed => r.packets = s.packets
  /\ "receipts" \notin changed => r.receipts = s.receipts
  /\ "acks" \notin changed => r.acks = s.acks
  /\ "nextSequenceSend" \notin changed => r.nextSequenceSend = s.nextSequenceSend
  /\ "nextSequenceRecv" \notin changed => r.nextSequenceRecv = s.nextSequenceRecv
  /\ "nextSequenceAck" \notin changed => r.nextSequenceAck = s.nextSequenceAck

(* sendPacket's writes.                                                    *)
LEMMA WithPacketFields ==
  ASSUME NEW s \in Store, NEW p
  PROVE  /\ withPacket(s, p).packets = put(s.packets, p)
         /\ withPacket(s, p).nextSequenceSend = p.sequence + 1
         /\ OtherFieldsSame(s, withPacket(s, p), {"packets", "nextSequenceSend"})
<1> DEFINE s1 == [s EXCEPT !.packets = put(@, p)]
           s2 == [s1 EXCEPT !.nextSequenceSend = p.sequence + 1]
<1>1. /\ s1.packets = put(s.packets, p)
      /\ OtherFieldsSame(s, s1, {"packets"})
      /\ DOMAIN s1 = DOMAIN s /\ "nextSequenceSend" \in DOMAIN s
  BY DEF Store, OtherFieldsSame
<1>2. /\ s2.nextSequenceSend = p.sequence + 1
      /\ s2.packets = s1.packets
      /\ OtherFieldsSame(s1, s2, {"nextSequenceSend"})
  BY <1>1 DEF OtherFieldsSame
<1>3. withPacket(s, p) = s2
  BY DEF withPacket
<1>4. QED
  BY <1>1, <1>2, <1>3 DEF OtherFieldsSame

(* The writes of timeoutPacket and of acknowledgePacket.                   *)
LEMMA WithAcknowledgedFields ==
  ASSUME NEW s \in Store, NEW p
  PROVE  /\ withoutPacket(s, p).packets = s.packets \ {p}
         /\ OtherFieldsSame(s, withoutPacket(s, p), {"packets"})
         /\ withAcknowledged(s, p).packets = s.packets \ {p}
         /\ Ordering = "ORDER_ORDERED" =>
              withAcknowledged(s, p).nextSequenceAck = p.sequence + 1
         /\ OtherFieldsSame(s, withAcknowledged(s, p), {"packets", "nextSequenceAck"})
<1> DEFINE s1 == [s EXCEPT !.packets = @ \ {p}]
           s2 == [s1 EXCEPT !.nextSequenceAck = p.sequence + 1]
<1>1. /\ s1.packets = s.packets \ {p}
      /\ OtherFieldsSame(s, s1, {"packets"})
      /\ DOMAIN s1 = DOMAIN s /\ "nextSequenceAck" \in DOMAIN s
  BY DEF Store, OtherFieldsSame
<1>2. /\ s2.nextSequenceAck = p.sequence + 1
      /\ s2.packets = s1.packets
      /\ OtherFieldsSame(s1, s2, {"nextSequenceAck"})
  BY <1>1 DEF OtherFieldsSame
<1>3. withoutPacket(s, p) = s1
  BY DEF withoutPacket
<1>4. withAcknowledged(s, p) = IF Ordering = "ORDER_ORDERED" THEN s2 ELSE s1
  BY <1>3 DEF withAcknowledged
<1>5. QED
  BY <1>1, <1>2, <1>3, <1>4 DEF OtherFieldsSame

(* recvPacket's receipt, or its next sequence.                             *)
LEMMA WithReceiptFields ==
  ASSUME NEW s \in Store, NEW seq, PacketAssumption
  PROVE  /\ Ordering = "ORDER_UNORDERED" =>
              /\ withReceipt(s, seq).receipts = s.receipts \cup {seq}
              /\ OtherFieldsSame(s, withReceipt(s, seq), {"receipts"})
         /\ Ordering = "ORDER_ORDERED" =>
              /\ withReceipt(s, seq).nextSequenceRecv = seq + 1
              /\ OtherFieldsSame(s, withReceipt(s, seq), {"nextSequenceRecv"})
BY DEF withReceipt, Store, OtherFieldsSame, PacketAssumption

(* The acknowledgement, if it is not empty.                                *)
LEMMA WithAckFields ==
  ASSUME NEW s \in Store, NEW seq, NEW ack
  PROVE  /\ withAck(s, seq, ack).acks =
              s.acks \cup IF ack = EmptyAck THEN {} ELSE {[sequence |-> seq, ack |-> ack]}
         /\ OtherFieldsSame(s, withAck(s, seq, ack), {"acks"})
BY DEF withAck, Store, OtherFieldsSame

(* Writing one chain's store.                                              *)
LEMMA StoreWritten ==
  ASSUME TypeOK, NEW c \in Chain, NEW store,
         commitments' = [commitments EXCEPT ![c] = store]
  PROVE  commitments'[c] = store /\ OnlyStoreOf(c)
BY DEF TypeOK, OnlyStoreOf, SameFields

-----------------------------------------------------------------------------
(* What each action does to the stores *)

(* sendPacket commits to one packet, under the next sequence.              *)
LEMMA SendEffect ==
  ASSUME TypeOK, NEW c \in Chain, NEW h \in TimeoutHeight, NEW t \in TimeoutTimestamp,
         sendPacket(c, h, t)
  PROVE  \E p \in Packet :
           /\ p.sequence = commitments[c].nextSequenceSend
           /\ p.timeout_height = h /\ p.timeout_timestamp = t
           /\ commitments'[c].packets = put(commitments[c].packets, p)
           /\ commitments'[c].nextSequenceSend = p.sequence + 1
           /\ OtherFieldsSame(commitments[c], commitments'[c], {"packets", "nextSequenceSend"})
           /\ OnlyStoreOf(c)
<1> DEFINE p == [sequence |-> commitments[c].nextSequenceSend,
                 timeout_height |-> h, timeout_timestamp |-> t]
<1>1. commitments[c] \in Store
  BY DEF TypeOK
<1>2. p \in Packet
  BY DEF sendPacket, Packet
<1>3. commitments' = [commitments EXCEPT ![c] = withPacket(commitments[c], p)]
  BY DEF sendPacket
<1>4. commitments'[c] = withPacket(commitments[c], p) /\ OnlyStoreOf(c)
  BY <1>3, StoreWritten
<1>5. p.sequence = commitments[c].nextSequenceSend /\ p.timeout_height = h
      /\ p.timeout_timestamp = t
  OBVIOUS
<1> HIDE DEF p
<1>6. QED
  BY <1>1, <1>2, <1>4, <1>5, WithPacketFields

(* recvPacket writes what says that the packet was received, and the       *)
(* acknowledgement.                                                        *)
LEMMA RecvEffect ==
  ASSUME TypeOK, PacketAssumption, NEW c \in Chain, NEW p \in Packet, NEW ack,
         recvPacket(c, p, ack)
  PROVE  /\ OtherFieldsSame(commitments[c], commitments'[c],
                            {"receipts", "nextSequenceRecv", "acks"})
         /\ Ordering = "ORDER_UNORDERED" =>
              /\ commitments'[c].receipts = commitments[c].receipts \cup {p.sequence}
              /\ commitments'[c].nextSequenceRecv = commitments[c].nextSequenceRecv
         /\ Ordering = "ORDER_ORDERED" =>
              /\ commitments'[c].receipts = commitments[c].receipts
              /\ commitments'[c].nextSequenceRecv = p.sequence + 1
         /\ commitments'[c].acks = commitments[c].acks \cup
              IF ack = EmptyAck THEN {} ELSE {[sequence |-> p.sequence, ack |-> ack]}
         /\ OnlyStoreOf(c)
<1> DEFINE s == commitments[c]
           r == withReceipt(s, p.sequence)
           a == withAck(r, p.sequence, ack)
<1>1. s \in Store /\ p.sequence \in Sequence
  BY DEF TypeOK, Packet
<1>2. r \in Store
  BY <1>1, PacketAssumption DEF withReceipt, Store, Sequence
<1>3. commitments'[c] = a /\ OnlyStoreOf(c)
  BY StoreWritten DEF recvPacket
<1>4. /\ a.acks = r.acks \cup IF ack = EmptyAck THEN {}
                              ELSE {[sequence |-> p.sequence, ack |-> ack]}
      /\ OtherFieldsSame(r, a, {"acks"})
  BY <1>2, WithAckFields
<1>5. /\ Ordering = "ORDER_UNORDERED" =>
           /\ r.receipts = s.receipts \cup {p.sequence}
           /\ OtherFieldsSame(s, r, {"receipts"})
      /\ Ordering = "ORDER_ORDERED" =>
           /\ r.nextSequenceRecv = p.sequence + 1
           /\ OtherFieldsSame(s, r, {"nextSequenceRecv"})
  BY <1>1, WithReceiptFields, PacketAssumption
<1> HIDE DEF r, a
<1>6. QED
  BY <1>3, <1>4, <1>5, PacketAssumption DEF OtherFieldsSame, PacketAssumption

(* writeAcknowledgement adds one acknowledgement.                          *)
LEMMA WriteAckEffect ==
  ASSUME TypeOK, PacketAssumption, NEW c \in Chain, NEW p \in Packet,
         NEW ack \in Acknowledgement, writeAcknowledgement(c, p, ack)
  PROVE  /\ OtherFieldsSame(commitments[c], commitments'[c], {"acks"})
         /\ commitments'[c].acks =
              commitments[c].acks \cup {[sequence |-> p.sequence, ack |-> ack]}
         /\ OnlyStoreOf(c)
<1>1. commitments[c] \in Store /\ ack # EmptyAck
  BY PacketAssumption DEF TypeOK, PacketAssumption
<1>2. commitments'[c] = withAck(commitments[c], p.sequence, ack) /\ OnlyStoreOf(c)
  BY StoreWritten DEF writeAcknowledgement
<1>3. QED
  BY <1>1, <1>2, WithAckFields

(* acknowledgePacket and timeoutPacket delete the packet's commitment.     *)
LEMMA ResolveEffect ==
  ASSUME TypeOK, NEW c \in Chain, NEW p \in Packet, NEW ack,
         acknowledgePacket(c, p, ack) \/ timeoutPacket(c, p)
  PROVE  /\ OtherFieldsSame(commitments[c], commitments'[c], {"packets", "nextSequenceAck"})
         /\ commitments'[c].packets = commitments[c].packets \ {p}
         /\ OnlyStoreOf(c)
<1>1. commitments[c] \in Store
  BY DEF TypeOK
<1>2. CASE acknowledgePacket(c, p, ack)
  BY <1>1, <1>2, StoreWritten, WithAcknowledgedFields DEF acknowledgePacket
<1>3. CASE timeoutPacket(c, p)
  <2>1. commitments' = [commitments EXCEPT ![c] = withoutPacket(commitments[c], p)]
    BY <1>3 DEF timeoutPacket
  <2>2. commitments'[c] = withoutPacket(commitments[c], p) /\ OnlyStoreOf(c)
    BY <2>1, StoreWritten
  <2>3. /\ withoutPacket(commitments[c], p).packets = commitments[c].packets \ {p}
        /\ OtherFieldsSame(commitments[c], withoutPacket(commitments[c], p), {"packets"})
    BY <1>1, WithAcknowledgedFields
  <2>4. QED
    BY <2>2, <2>3 DEF OtherFieldsSame
<1>4. QED
  BY <1>2, <1>3

-----------------------------------------------------------------------------
(* The inductive invariant *)

(* A client holds headers the counterparty published, and has a latest one.*)
ClientsBehind ==
  \A c \in Chain :
    /\ consensus[c] \subseteq headers[counterparty(c)]
    /\ \E cs \in consensus[c] : \A other \in consensus[c] : other.height <= cs.height

(* A header is not ahead of its chain.                                     *)
HeadersPast ==
  \A c \in Chain : \A hd \in headers[c] :
    hd.height <= block[c].number /\ hd.timestamp <= block[c].timestamp

(* A module was handed a packet at most once, and its receipt, or the next *)
(* sequence of an ordered channel, says so.                                *)
ReceivedIsRecorded ==
  \A c \in Chain, p \in Packet :
    /\ onRecv[c][p] <= 1
    /\ onRecv[c][p] > 0 =>
         IF Ordering = "ORDER_UNORDERED"
         THEN p.sequence \in commitments[c].receipts
         ELSE p.sequence < commitments[c].nextSequenceRecv

(* A timeout that the other chain can tell has passed: no height timeout   *)
(* of a revision older than the other chain's.                             *)
Sendable(c, p) ==
  \/ p.timeout_timestamp > 0
  \/ p.timeout_height.revision_number > Revision[counterparty(c)]
  \/ /\ p.timeout_height.revision_number = Revision[counterparty(c)]
     /\ p.timeout_height.revision_height > 0

SentIsSendable ==
  \A c \in Chain :
    /\ \A p \in commitments[c].packets : Sendable(c, p)
    /\ \A hd \in headers[c] : \A p \in hd.root.packets : Sendable(c, p)

(* Once the timeouts of a packet have passed in a header of the receiving  *)
(* chain, the header's root holds the receipt if the packet was received.  *)
ReceiptIsSeen ==
  Ordering = "ORDER_UNORDERED" =>
    \A c \in Chain, p \in Packet : \A hd \in headers[counterparty(c)] :
      timeoutReached(c, p, hd) /\ Sendable(c, p) /\ onRecv[counterparty(c)][p] > 0
        => p.sequence \in hd.root.receipts

WasTimedOut(c, p) == \E i \in DOMAIN outcomes[c][p] : outcomes[c][p][i] = TimedOut

TimeoutIsSeen ==
  \A c \in Chain, p \in Packet : WasTimedOut(c, p) =>
    /\ Sendable(c, p)
    /\ \E hd \in headers[counterparty(c)] : timeoutReached(c, p, hd)

DeliveryInv ==
  /\ TypeOK
  /\ ClientsBehind
  /\ HeadersPast
  /\ ReceivedIsRecorded
  /\ ExactlyOnceDelivery

TimeoutInv ==
  /\ SentIsSendable
  /\ ReceiptIsSeen
  /\ TimeoutIsSeen
  /\ Ordering = "ORDER_UNORDERED" => TimedOutNeverDelivered

IInv == DeliveryInv /\ TimeoutInv

-----------------------------------------------------------------------------
(* Steps, by what they change *)

UpdateStep == \E c \in Chain : updateClient(c) /\ UNCHANGED packetVars

(* Nothing but channel states and new acknowledgements.                    *)
QuietStep ==
  /\ UNCHANGED <<clientVars, onRecv, outcomes>>
  /\ \A d \in Chain :
       OtherFieldsSame(commitments[d], commitments'[d], {"acks"})

SendStep ==
  \E c \in Chain, h \in TimeoutHeight, t \in TimeoutTimestamp : sendPacket(c, h, t)

RecvStep ==
  \E c \in Chain, p \in Packet : \E ack \in Acknowledgement \cup {EmptyAck} :
    recvPacket(c, p, ack)

ResolveStep ==
  \E c \in Chain, p \in Packet :
    (\E ack \in Acknowledgement : acknowledgePacket(c, p, ack)) \/ timeoutPacket(c, p)

(* Every step is of one of the kinds above.                                *)
LEMMA StepKinds ==
  ASSUME TypeOK, PacketAssumption, Step
  PROVE  BlockStep \/ UpdateStep \/ QuietStep \/ SendStep \/ RecvStep \/ ResolveStep
<1>0. CASE UNCHANGED vars
  BY <1>0 DEF vars, clientVars, packetVars, QuietStep, OtherFieldsSame
<1>1. ASSUME NEW c \in Chain,
             channelOpenConfirm(c) \/ channelCloseInit(c) \/ channelCloseConfirm(c)
      PROVE  QuietStep
  <2>1. UNCHANGED <<clientVars, onRecv, outcomes>>
    BY <1>1 DEF channelOpenConfirm, channelCloseInit, channelCloseConfirm
  <2>2. QED
    BY <1>1, <2>1, ChannelEffect DEF QuietStep, SameFields, OtherFieldsSame
<1>2. ASSUME NEW c \in Chain, NEW p \in Packet, NEW ack \in Acknowledgement,
             writeAcknowledgement(c, p, ack)
      PROVE  QuietStep
  <2>1. UNCHANGED <<clientVars, onRecv, outcomes>>
    BY <1>2 DEF writeAcknowledgement, clientVars
  <2>2. /\ OtherFieldsSame(commitments[c], commitments'[c], {"acks"})
        /\ OnlyStoreOf(c)
    BY <1>2, WriteAckEffect
  <2>3. QED
    BY <2>1, <2>2 DEF QuietStep, SameFields, OtherFieldsSame, OnlyStoreOf
<1>3. ASSUME Next
      PROVE  BlockStep \/ UpdateStep \/ QuietStep \/ SendStep \/ RecvStep \/ ResolveStep
  BY <1>1, <1>2, <1>3 DEF Next, NewBlock, BlockStep, UpdateStep, SendStep, RecvStep,
     ResolveStep
<1>4. QED
  BY <1>0, <1>3 DEF Step, BlockStep

-----------------------------------------------------------------------------
(* Headers and clients *)

(* Clients stay behind the chains they follow, and no header is withdrawn. *)
LEMMA ClientsStep ==
  ASSUME TypeOK, ClientViewAssumption, PacketAssumption, ClientsBehind, HeadersPast,
         Step
  PROVE  /\ ClientsBehind' /\ HeadersPast'
         /\ \A c \in Chain : headers[c] \subseteq headers'[c]
<1>1. CASE BlockStep
  <2>1. PICK c \in Chain : EndBlock(c, commitments[c])
    BY <1>1 DEF BlockStep
  <2>2. PICK step \in TimeStep, hd \in headers'[c] :
          /\ block' = [block EXCEPT ![c] = [number |-> block[c].number + 1,
                                            timestamp |-> block[c].timestamp + step]]
          /\ headers' = [headers EXCEPT ![c] = @ \cup {hd}]
          /\ hd.height <= block[c].number + 1
          /\ hd.timestamp <= block[c].timestamp + step
    <3>1. PICK step \in TimeStep :
            LET after == [number |-> block[c].number + 1,
                          timestamp |-> block[c].timestamp + step]
                head == IF RootLag[c] = 0 THEN block[c] ELSE after
            IN /\ block' = [block EXCEPT ![c] = after]
               /\ headers' = [headers EXCEPT
                    ![c] = @ \cup {[height |-> head.number,
                                    timestamp |-> head.timestamp,
                                    root |-> commitments[c]]}]
      BY <2>1 DEF EndBlock
    <3>2. block[c] \in [number : Nat, timestamp : Nat] /\ step \in Nat
      BY ClientViewAssumption DEF TypeOK
    <3> DEFINE after == [number |-> block[c].number + 1,
                         timestamp |-> block[c].timestamp + step]
               head == IF RootLag[c] = 0 THEN block[c] ELSE after
               hd == [height |-> head.number, timestamp |-> head.timestamp,
                      root |-> commitments[c]]
    <3>3. head.number <= block[c].number + 1 /\ head.timestamp <= block[c].timestamp + step
      BY <3>2
    <3>4. hd.height = head.number /\ hd.timestamp = head.timestamp
      OBVIOUS
    <3>5. block' = [block EXCEPT ![c] = after] /\ headers' = [headers EXCEPT ![c] = @ \cup {hd}]
      BY <3>1
    <3> HIDE DEF hd, head
    <3>6. hd \in headers'[c]
      BY <3>5 DEF TypeOK
    <3>7. QED
      BY <3>3, <3>4, <3>5, <3>6
  <2>3. /\ block \in [Chain -> [number : Nat, timestamp : Nat]] /\ step \in Nat
        /\ headers \in [Chain -> SUBSET Header]
    BY ClientViewAssumption DEF TypeOK
  <2>4. UNCHANGED consensus /\ \A d \in Chain : headers[d] \subseteq headers'[d]
    BY <2>1, <2>2, <2>3 DEF EndBlock
  <2>5. ClientsBehind'
    <3>1. \A d \in Chain : consensus[d] \subseteq headers[counterparty(d)]
                           /\ counterparty(d) \in Chain
      BY TwoChains, ClientViewAssumption DEF ClientsBehind
    <3>2. \A d \in Chain : consensus'[d] \subseteq headers'[counterparty(d)]
      BY <2>4, <3>1
    <3>3. QED
      BY <2>4, <3>2 DEF ClientsBehind
  <2>6. HeadersPast'
    <3> SUFFICES ASSUME NEW d \in Chain, NEW g \in headers'[d]
                 PROVE  g.height <= block'[d].number /\ g.timestamp <= block'[d].timestamp
      BY DEF HeadersPast
    <3>1. CASE d # c
      BY <2>2, <2>3, <3>1 DEF HeadersPast
    <3>2. CASE d = c /\ g = hd
      BY <2>2, <2>3, <3>2
    <3>3. CASE d = c /\ g \in headers[c]
      <4>1. g.height \in Nat /\ g.timestamp \in Nat
        BY <2>3, <3>3 DEF Header
      <4>2. g.height <= block[c].number /\ g.timestamp <= block[c].timestamp
        BY <3>3 DEF HeadersPast
      <4>3. /\ block'[c].number = block[c].number + 1
            /\ block'[c].timestamp = block[c].timestamp + step
            /\ block[c].number \in Nat /\ block[c].timestamp \in Nat
        BY <2>2, <2>3
      <4>4. QED
        BY <2>3, <3>3, <4>1, <4>2, <4>3
    <3>4. QED
      BY <2>2, <2>3, <3>1, <3>2, <3>3
  <2>7. QED
    BY <2>4, <2>5, <2>6
<1>2. CASE UpdateStep
  <2>1. PICK c \in Chain : updateClient(c)
    BY <1>2 DEF UpdateStep
  <2>2. PICK hd \in headers[counterparty(c)] :
          consensus' = [consensus EXCEPT ![c] = @ \cup {hd}]
    BY <2>1 DEF updateClient
  <2>3. UNCHANGED <<block, headers>>
    BY <2>1 DEF updateClient
  <2>4. PICK cs \in consensus[c] : \A other \in consensus[c] : other.height <= cs.height
    BY DEF ClientsBehind
  <2>5. hd.height \in Nat /\ \A other \in consensus[c] : other.height \in Nat
    <3>1. hd \in Header /\ consensus[c] \subseteq Header
      BY <2>2, TwoChains, ClientViewAssumption DEF TypeOK
    <3>2. QED
      BY <3>1 DEF Header
  <2>6. consensus'[c] = consensus[c] \cup {hd}
        /\ \A d \in Chain : d # c => consensus'[d] = consensus[d]
    BY <2>2 DEF TypeOK
  <2>7. \E new \in consensus'[c] : \A other \in consensus'[c] : other.height <= new.height
    <3>1. CASE hd.height <= cs.height
      BY <2>4, <2>6, <3>1
    <3>2. CASE cs.height <= hd.height
      <4>1. \A other \in consensus[c] : other.height <= hd.height
        BY <2>4, <2>5, <3>2
      <4>2. QED
        BY <2>5, <2>6, <4>1
    <3>3. QED
      BY <2>4, <2>5, <3>1, <3>2
  <2>8. QED
    BY <2>2, <2>3, <2>6, <2>7 DEF ClientsBehind, HeadersPast
<1>3. CASE UNCHANGED clientVars
  BY <1>3 DEF clientVars, ClientsBehind, HeadersPast
<1>4. QED
  BY <1>1, <1>2, <1>3, StepKinds
     DEF QuietStep, SendStep, sendPacket, RecvStep, recvPacket, ResolveStep,
         acknowledgePacket, timeoutPacket, clientVars

-----------------------------------------------------------------------------
(* Deliveries *)

(* recvPacket hands over one packet, once.                                 *)
LEMMA RecvCounts ==
  ASSUME TypeOK, NEW c \in Chain, NEW p \in Packet, NEW ack, recvPacket(c, p, ack)
  PROVE  /\ onRecv[c][p] \in Nat /\ onRecv'[c][p] = onRecv[c][p] + 1
         /\ \A d \in Chain, q \in Packet :
              ~(d = c /\ q = p) => onRecv'[d][q] = onRecv[d][q]
BY DEF TypeOK, recvPacket

(* What the receiving side keeps as it is in every step but recvPacket.    *)
LEMMA ReceivingSideSame ==
  ASSUME TypeOK, BlockStep \/ UpdateStep \/ QuietStep \/ SendStep \/ ResolveStep
  PROVE  /\ UNCHANGED onRecv
         /\ \A d \in Chain :
              /\ commitments'[d].receipts = commitments[d].receipts
              /\ commitments'[d].nextSequenceRecv = commitments[d].nextSequenceRecv
<1>1. CASE BlockStep \/ UpdateStep
  BY <1>1 DEF BlockStep, UpdateStep, packetVars
<1>2. CASE QuietStep
  BY <1>2 DEF QuietStep, OtherFieldsSame
<1>3. CASE SendStep
  <2>1. PICK c \in Chain, h \in TimeoutHeight, t \in TimeoutTimestamp : sendPacket(c, h, t)
    BY <1>3 DEF SendStep
  <2>2. /\ OtherFieldsSame(commitments[c], commitments'[c], {"packets", "nextSequenceSend"})
        /\ OnlyStoreOf(c)
    BY <2>1, SendEffect
  <2>3. QED
    BY <2>1, <2>2 DEF sendPacket, OnlyStoreOf, SameFields, OtherFieldsSame
<1>4. CASE ResolveStep
  <2>1. PICK c \in Chain, p \in Packet :
          (\E ack \in Acknowledgement : acknowledgePacket(c, p, ack)) \/ timeoutPacket(c, p)
    BY <1>4 DEF ResolveStep
  <2>2. /\ OtherFieldsSame(commitments[c], commitments'[c], {"packets", "nextSequenceAck"})
        /\ OnlyStoreOf(c)
    BY <2>1, ResolveEffect
  <2>3. UNCHANGED onRecv
    BY <2>1 DEF acknowledgePacket, timeoutPacket
  <2>4. QED
    BY <2>2, <2>3 DEF OnlyStoreOf, SameFields, OtherFieldsSame
<1>5. QED
  BY <1>1, <1>2, <1>3, <1>4

(* The first half of the invariant, which only recvPacket can disturb.     *)
LEMMA DeliveryStep ==
  ASSUME DeliveryInv, ClientViewAssumption, PacketAssumption, Step
  PROVE  ReceivedIsRecorded' /\ ExactlyOnceDelivery'
<1>0. TypeOK /\ ReceivedIsRecorded /\ ExactlyOnceDelivery
  BY DEF DeliveryInv
<1>1. CASE RecvStep
  <2>1. PICK c \in Chain, p \in Packet, ack \in Acknowledgement \cup {EmptyAck} :
          recvPacket(c, p, ack)
    BY <1>1 DEF RecvStep
  <2>2. receiptAllowed(c, p.sequence)
    BY <2>1 DEF recvPacket
  <2>3. /\ Ordering \in {"ORDER_UNORDERED", "ORDER_ORDERED"}
        /\ commitments[c].nextSequenceRecv \in Nat
        /\ \A q \in Packet : q.sequence \in Nat
    BY <1>0, PacketAssumption DEF PacketAssumption, TypeOK, Store, Packet, Sequence
  (* Nothing with this sequence was received before. *)
  <2>4. \A q \in Packet : q.sequence = p.sequence => onRecv[c][q] = 0
    <3>1. ASSUME NEW q \in Packet, q.sequence = p.sequence, onRecv[c][q] > 0
          PROVE  FALSE
      BY <1>0, <2>2, <2>3, <3>1 DEF ReceivedIsRecorded, receiptAllowed
    <3>2. \A q \in Packet : onRecv[c][q] \in Nat
      BY <1>0 DEF TypeOK
    <3>3. QED
      BY <3>1, <3>2
  <2>5. /\ onRecv'[c][p] = 1
        /\ \A d \in Chain, q \in Packet :
             ~(d = c /\ q = p) => onRecv'[d][q] = onRecv[d][q]
    BY <1>0, <2>1, <2>4, RecvCounts
  <2>6. /\ Ordering = "ORDER_UNORDERED" =>
             commitments'[c].receipts = commitments[c].receipts \cup {p.sequence}
        /\ Ordering = "ORDER_ORDERED" => commitments'[c].nextSequenceRecv = p.sequence + 1
        /\ OnlyStoreOf(c)
    BY <1>0, <2>1, RecvEffect, PacketAssumption
  <2>7. ReceivedIsRecorded'
    <3> SUFFICES ASSUME NEW d \in Chain, NEW q \in Packet
                 PROVE  /\ onRecv'[d][q] <= 1
                        /\ onRecv'[d][q] > 0 =>
                             IF Ordering = "ORDER_UNORDERED"
                             THEN q.sequence \in commitments'[d].receipts
                             ELSE q.sequence < commitments'[d].nextSequenceRecv
      BY DEF ReceivedIsRecorded
    <3>1. CASE d # c
      <4>1. /\ commitments'[d].receipts = commitments[d].receipts
            /\ commitments'[d].nextSequenceRecv = commitments[d].nextSequenceRecv
        BY <2>6, <3>1 DEF OnlyStoreOf, SameFields
      <4>2. onRecv'[d][q] = onRecv[d][q]
        BY <2>5, <3>1
      <4>3. QED
        BY <1>0, <4>1, <4>2 DEF ReceivedIsRecorded
    <3>2. CASE d = c /\ q = p
      BY <2>3, <2>5, <2>6, <3>2
    <3>3. CASE d = c /\ q # p
      <4>1. onRecv'[c][q] = onRecv[c][q]
        BY <2>5, <3>3
      <4>2. /\ onRecv[c][q] <= 1
            /\ onRecv[c][q] > 0 =>
                 IF Ordering = "ORDER_UNORDERED"
                 THEN q.sequence \in commitments[c].receipts
                 ELSE q.sequence < commitments[c].nextSequenceRecv
        BY <1>0 DEF ReceivedIsRecorded
      <4>3. Ordering = "ORDER_ORDERED" =>
              commitments'[c].nextSequenceRecv = commitments[c].nextSequenceRecv + 1
        BY <2>2, <2>6 DEF receiptAllowed
      <4>4. QED
        BY <2>3, <2>6, <3>3, <4>1, <4>2, <4>3
    <3>4. QED
      BY <3>1, <3>2, <3>3
  <2>8. ExactlyOnceDelivery'
    <3> SUFFICES ASSUME NEW d \in Chain, NEW q \in Packet, NEW r \in Packet
                 PROVE  /\ onRecv'[d][q] <= 1
                        /\ /\ q.sequence = r.sequence
                           /\ onRecv'[d][q] > 0 /\ onRecv'[d][r] > 0
                           => q = r
      BY DEF ExactlyOnceDelivery
    <3>1. onRecv'[d][q] <= 1
      BY <2>7 DEF ReceivedIsRecorded
    <3>2. CASE d # c
      BY <1>0, <2>5, <3>1, <3>2 DEF ExactlyOnceDelivery
    <3>3. CASE d = c
      BY <1>0, <2>4, <2>5, <3>1, <3>3 DEF ExactlyOnceDelivery
    <3>4. QED
      BY <3>2, <3>3
  <2>9. QED
    BY <2>7, <2>8
<1>2. CASE BlockStep \/ UpdateStep \/ QuietStep \/ SendStep \/ ResolveStep
  <2>1. /\ UNCHANGED onRecv
        /\ \A d \in Chain :
             /\ commitments'[d].receipts = commitments[d].receipts
             /\ commitments'[d].nextSequenceRecv = commitments[d].nextSequenceRecv
    BY <1>0, <1>2, ReceivingSideSame
  <2>2. QED
    BY <1>0, <2>1 DEF ReceivedIsRecorded, ExactlyOnceDelivery
<1>3. QED
  BY <1>0, <1>1, <1>2, StepKinds, PacketAssumption

-----------------------------------------------------------------------------
(* Timeouts *)

(* The header a new block publishes commits to the chain's store.          *)
LEMMA BlockRoot ==
  ASSUME TypeOK, NEW c \in Chain, EndBlock(c, commitments[c])
  PROVE  \E hd : /\ hd.root = commitments[c]
                 /\ headers'[c] = headers[c] \cup {hd}
                 /\ \A d \in Chain : d # c => headers'[d] = headers[d]
<1>1. PICK step \in TimeStep :
        LET after == [number |-> block[c].number + 1,
                      timestamp |-> block[c].timestamp + step]
            head == IF RootLag[c] = 0 THEN block[c] ELSE after
        IN headers' = [headers EXCEPT
                ![c] = @ \cup {[height |-> head.number,
                                timestamp |-> head.timestamp,
                                root |-> commitments[c]]}]
  BY DEF EndBlock
<1> DEFINE after == [number |-> block[c].number + 1,
                     timestamp |-> block[c].timestamp + step]
           head == IF RootLag[c] = 0 THEN block[c] ELSE after
           hd == [height |-> head.number, timestamp |-> head.timestamp,
                  root |-> commitments[c]]
<1>2. headers' = [headers EXCEPT ![c] = @ \cup {hd}] /\ hd.root = commitments[c]
  BY <1>1
<1> HIDE DEF hd
<1>3. QED
  BY <1>2 DEF TypeOK

(* A timeout that has passed in a header has passed on the chain itself.   *)
LEMMA TimeoutMeansLate ==
  ASSUME TypeOK, ClientViewAssumption, PacketAssumption, HeadersPast,
         NEW c \in Chain, NEW p \in Packet, NEW hd \in headers[counterparty(c)],
         Sendable(c, p), timeoutReached(c, p, hd)
  PROVE  timedOutHere(counterparty(c), p)
<1> DEFINE d == counterparty(c)
           th == p.timeout_height
<1>1. d \in Chain /\ Revision[d] \in Nat
  BY TwoChains, ClientViewAssumption DEF ClientViewAssumption
<1>2. hd.height \in Nat /\ hd.timestamp \in Nat
  <2>1. hd \in Header
    BY <1>1 DEF TypeOK
  <2>2. QED
    BY <2>1 DEF Header
<1>3. /\ block[d].number \in Nat /\ block[d].timestamp \in Nat
      /\ hd.height <= block[d].number /\ hd.timestamp <= block[d].timestamp
  BY <1>1 DEF TypeOK, HeadersPast
<1>4. /\ p.timeout_timestamp \in Nat
      /\ th.revision_number \in Nat /\ th.revision_height \in Nat
  BY PacketAssumption DEF PacketAssumption, Packet, Height
<1>5. /\ heightOf(d, hd).revision_number = Revision[d]
      /\ heightOf(d, hd).revision_height = hd.height
  BY DEF heightOf
<1>6. CASE p.timeout_timestamp > 0
  BY <1>2, <1>3, <1>4, <1>6 DEF timeoutReached, timedOutHere
<1>7. CASE p.timeout_timestamp = 0
  <2>1. ~isZero(th)
    BY <1>1, <1>4, <1>7 DEF Sendable, isZero
  <2>2. ~gte(th, heightOf(d, hd))
    BY <2>1 DEF timeoutReached
  <2>3. th.revision_number = Revision[d] /\ th.revision_height > 0
        /\ th.revision_height < hd.height
    BY <1>1, <1>2, <1>4, <1>5, <1>7, <2>2 DEF Sendable, gte
  <2>4. QED
    BY <1>2, <1>3, <1>4, <2>3 DEF timedOutHere
<1>8. QED
  BY <1>4, <1>6, <1>7

(* A height timeout of an older revision is past the client's latest       *)
(* height, so sendPacket refuses it.                                       *)
LEMMA NewPacketSendable ==
  ASSUME TypeOK, ClientViewAssumption, PacketAssumption, ClientsBehind,
         NEW c \in Chain, NEW h \in TimeoutHeight, NEW t \in TimeoutTimestamp,
         sendPacket(c, h, t), NEW p, p.timeout_height = h, p.timeout_timestamp = t
  PROVE  Sendable(c, p)
<1> DEFINE latest == latestConsensus(c)
           rev == Revision[counterparty(c)]
<1>1. latest \in consensus[c]
  BY DEF ClientsBehind, latestConsensus
<1>2. latest.height \in Nat
  <2>1. latest \in Header
    BY <1>1 DEF TypeOK
  <2>2. QED
    BY <2>1 DEF Header
<1>3. rev \in Nat
  BY TwoChains, ClientViewAssumption DEF ClientViewAssumption
<1>4. h.revision_number \in Nat /\ h.revision_height \in Nat /\ t \in Nat
  BY PacketAssumption DEF PacketAssumption, Height
<1>5. /\ heightOf(counterparty(c), latest).revision_number = rev
      /\ heightOf(counterparty(c), latest).revision_height = latest.height
  BY DEF heightOf
<1>6. /\ ~(t = 0 /\ isZero(h))
      /\ isZero(h) \/ ~gte(heightOf(counterparty(c), latest), h)
  BY DEF sendPacket
<1> HIDE DEF latest
<1>7. QED
  BY <1>2, <1>3, <1>4, <1>5, <1>6 DEF Sendable, gte

(* A packet comes into a store by sendPacket, and into a root from a       *)
(* store.                                                                  *)
LEMMA SendableStep ==
  ASSUME IInv, ClientViewAssumption, PacketAssumption, Step
  PROVE  SentIsSendable'
<1>0. TypeOK /\ ClientsBehind /\ SentIsSendable
  BY DEF IInv, DeliveryInv, TimeoutInv
<1>1. CASE BlockStep
  <2>1. PICK c \in Chain : EndBlock(c, commitments[c]) /\ UNCHANGED packetVars
    BY <1>1 DEF BlockStep
  <2>2. PICK hd : /\ hd.root = commitments[c]
                  /\ headers'[c] = headers[c] \cup {hd}
                  /\ \A d \in Chain : d # c => headers'[d] = headers[d]
    BY <1>0, <2>1, BlockRoot
  <2>3. QED
    BY <1>0, <2>1, <2>2 DEF SentIsSendable, Sendable, packetVars
<1>2. CASE UpdateStep \/ QuietStep \/ RecvStep \/ ResolveStep
  <2>1. UNCHANGED headers
    BY <1>2 DEF UpdateStep, updateClient, QuietStep, RecvStep, recvPacket, ResolveStep,
                acknowledgePacket, timeoutPacket, clientVars
  <2>2. \A d \in Chain : commitments'[d].packets \subseteq commitments[d].packets
    <3>1. CASE UpdateStep
      BY <3>1 DEF UpdateStep, packetVars
    <3>2. CASE QuietStep
      BY <3>2 DEF QuietStep, OtherFieldsSame
    <3>3. CASE RecvStep
      <4>1. PICK c \in Chain, p \in Packet, ack \in Acknowledgement \cup {EmptyAck} : recvPacket(c, p, ack)
        BY <3>3 DEF RecvStep
      <4>2. /\ OtherFieldsSame(commitments[c], commitments'[c],
                               {"receipts", "nextSequenceRecv", "acks"})
            /\ OnlyStoreOf(c)
        BY <1>0, <4>1, RecvEffect, PacketAssumption
      <4>3. QED
        BY <4>2 DEF OtherFieldsSame, OnlyStoreOf, SameFields
    <3>4. CASE ResolveStep
      <4>1. PICK c \in Chain, p \in Packet :
              (\E ack \in Acknowledgement : acknowledgePacket(c, p, ack)) \/ timeoutPacket(c, p)
        BY <3>4 DEF ResolveStep
      <4>2. commitments'[c].packets = commitments[c].packets \ {p} /\ OnlyStoreOf(c)
        BY <1>0, <4>1, ResolveEffect
      <4>3. QED
        BY <4>2 DEF OnlyStoreOf, SameFields
    <3>5. QED
      BY <1>2, <3>1, <3>2, <3>3, <3>4
  <2>3. QED
    BY <1>0, <2>1, <2>2 DEF SentIsSendable, Sendable
<1>3. CASE SendStep
  <2>1. PICK c \in Chain, h \in TimeoutHeight, t \in TimeoutTimestamp : sendPacket(c, h, t)
    BY <1>3 DEF SendStep
  <2>2. PICK p \in Packet :
          /\ p.timeout_height = h /\ p.timeout_timestamp = t
          /\ commitments'[c].packets = put(commitments[c].packets, p)
          /\ OnlyStoreOf(c)
    BY <1>0, <2>1, SendEffect
  <2>3. Sendable(c, p)
    BY <1>0, <2>1, <2>2, NewPacketSendable, ClientViewAssumption, PacketAssumption
  <2>4. UNCHANGED headers
    BY <2>1 DEF sendPacket, clientVars
  <2>5. \A d \in Chain : d # c => commitments'[d].packets = commitments[d].packets
    BY <2>2 DEF OnlyStoreOf, SameFields
  <2>6. \A d \in Chain : \A q \in commitments'[d].packets : Sendable(d, q)
    BY <1>0, <2>2, <2>3, <2>5 DEF SentIsSendable, put
  <2>7. QED
    BY <1>0, <2>4, <2>6 DEF SentIsSendable, Sendable
<1>4. QED
  BY <1>0, <1>1, <1>2, <1>3, StepKinds, PacketAssumption

(* A header that shows the timeouts passed is published after the last     *)
(* moment the packet could be received.                                    *)
LEMMA ReceiptSeenStep ==
  ASSUME IInv, ClientViewAssumption, PacketAssumption, Step
  PROVE  ReceiptIsSeen'
<1>0. TypeOK /\ HeadersPast /\ ReceivedIsRecorded /\ ReceiptIsSeen
  BY DEF IInv, DeliveryInv, TimeoutInv
<1> SUFFICES ASSUME Ordering = "ORDER_UNORDERED",
                    NEW c \in Chain, NEW p \in Packet, NEW hd \in headers'[counterparty(c)],
                    timeoutReached(c, p, hd), Sendable(c, p), onRecv'[counterparty(c)][p] > 0
             PROVE  p.sequence \in hd.root.receipts
  BY DEF ReceiptIsSeen, timeoutReached, Sendable, isZero, gte, heightOf, counterparty
<1> DEFINE d == counterparty(c)
<1>1. d \in Chain
  BY TwoChains, ClientViewAssumption
<1>2. CASE BlockStep
  <2>1. PICK b \in Chain : EndBlock(b, commitments[b]) /\ UNCHANGED packetVars
    BY <1>2 DEF BlockStep
  <2>2. PICK new : /\ new.root = commitments[b]
                   /\ headers'[b] = headers[b] \cup {new}
                   /\ \A e \in Chain : e # b => headers'[e] = headers[e]
    BY <1>0, <2>1, BlockRoot
  <2>3. onRecv[d][p] > 0
    BY <2>1 DEF packetVars
  <2>4. CASE hd \in headers[d]
    BY <1>0, <2>3, <2>4 DEF ReceiptIsSeen
  <2>5. CASE d = b /\ hd = new
    BY <1>0, <2>2, <2>3, <2>5, <1>1 DEF ReceivedIsRecorded
  <2>6. QED
    BY <1>1, <2>2, <2>4, <2>5
<1>3. CASE RecvStep
  <2>1. PICK b \in Chain, q \in Packet, ack \in Acknowledgement \cup {EmptyAck} : recvPacket(b, q, ack)
    BY <1>3 DEF RecvStep
  <2>2. UNCHANGED headers
    BY <2>1 DEF recvPacket, clientVars
  <2>3. CASE b = d /\ q = p
    BY <1>0, <2>1, <2>2, <2>3, TimeoutMeansLate, ClientViewAssumption, PacketAssumption
       DEF recvPacket
  <2>4. CASE ~(b = d /\ q = p)
    <3>1. onRecv'[d][p] = onRecv[d][p]
      BY <1>0, <1>1, <2>1, <2>4, RecvCounts
    <3>2. QED
      BY <1>0, <2>2, <3>1 DEF ReceiptIsSeen
  <2>5. QED
    BY <2>3, <2>4
<1>4. CASE UpdateStep \/ QuietStep \/ SendStep \/ ResolveStep
  <2>1. UNCHANGED headers
    BY <1>4 DEF UpdateStep, updateClient, QuietStep, SendStep, sendPacket, ResolveStep,
                acknowledgePacket, timeoutPacket, clientVars
  <2>2. UNCHANGED onRecv
    BY <1>0, <1>4, ReceivingSideSame
  <2>3. QED
    BY <1>0, <2>1, <2>2 DEF ReceiptIsSeen
<1>5. QED
  BY <1>0, <1>2, <1>3, <1>4, StepKinds, PacketAssumption

(* One module is told one outcome, about one packet.                       *)
LEMMA ToldEffect ==
  ASSUME TypeOK, NEW c \in Chain, NEW p \in Packet, NEW outcome \in Outcome,
         tell(c, p, outcome), NEW d \in Chain, NEW q \in Packet
  PROVE  /\ ~(d = c /\ q = p) => outcomes'[d][q] = outcomes[d][q]
         /\ (outcome # TimedOut \/ ~(d = c /\ q = p)) => WasTimedOut(d, q)' = WasTimedOut(d, q)
<1>1. outcomes[c][p] \in Seq(Outcome)
  BY DEF TypeOK
<1>2. outcomes'[c][p] = Append(outcomes[c][p], outcome)
  BY DEF TypeOK, tell
<1>3. ~(d = c /\ q = p) => outcomes'[d][q] = outcomes[d][q]
  BY DEF TypeOK, tell
<1>4. CASE ~(d = c /\ q = p)
  BY <1>3, <1>4 DEF WasTimedOut
<1>5. CASE d = c /\ q = p /\ outcome # TimedOut
  <2> DEFINE old == outcomes[c][p]
             new == outcomes'[c][p]
  <2>1. /\ DOMAIN new = 1 .. (Len(old) + 1) /\ DOMAIN old = 1 .. Len(old) /\ Len(old) \in Nat
        /\ new[Len(old) + 1] = outcome
        /\ \A i \in 1 .. Len(old) : new[i] = old[i]
    BY <1>1, <1>2
  <2> HIDE DEF old, new
  <2>2. ASSUME NEW i \in DOMAIN new, new[i] = TimedOut PROVE \E j \in DOMAIN old : old[j] = TimedOut
    <3>1. i # Len(old) + 1
      BY <1>5, <2>1, <2>2
    <3>2. i \in 1 .. Len(old)
      BY <2>1, <3>1
    <3>3. QED
      BY <2>1, <2>2, <3>2
  <2>3. ASSUME NEW i \in DOMAIN old, old[i] = TimedOut PROVE \E j \in DOMAIN new : new[j] = TimedOut
    BY <2>1, <2>3
  <2>4. (\E i \in DOMAIN new : new[i] = TimedOut) <=> (\E i \in DOMAIN old : old[i] = TimedOut)
    BY <2>2, <2>3
  <2>5. QED
    BY <1>5, <2>4 DEF WasTimedOut, old, new
<1>6. QED
  BY <1>3, <1>4, <1>5

(* timeoutPacket was shown a header past the timeouts, and headers stay.   *)
LEMMA TimeoutSeenStep ==
  ASSUME IInv, ClientViewAssumption, PacketAssumption, Step
  PROVE  TimeoutIsSeen'
<1>0. TypeOK /\ ClientsBehind /\ HeadersPast /\ SentIsSendable /\ TimeoutIsSeen
  BY DEF IInv, DeliveryInv, TimeoutInv
<1>1. \A c \in Chain : headers[c] \subseteq headers'[c]
  BY <1>0, ClientsStep, ClientViewAssumption, PacketAssumption
<1> SUFFICES ASSUME NEW c \in Chain, NEW p \in Packet, WasTimedOut(c, p)'
             PROVE  /\ Sendable(c, p)
                    /\ \E hd \in headers'[counterparty(c)] : timeoutReached(c, p, hd)
  BY DEF TimeoutIsSeen, timeoutReached, Sendable, isZero, gte, heightOf, counterparty
<1>2. counterparty(c) \in Chain
  BY TwoChains, ClientViewAssumption
<1>3. CASE WasTimedOut(c, p)
  BY <1>0, <1>1, <1>2, <1>3 DEF TimeoutIsSeen
<1>4. CASE ~WasTimedOut(c, p)
  <2>1. CASE ResolveStep
    <3>1. PICK b \in Chain, q \in Packet :
            (\E ack \in Acknowledgement : acknowledgePacket(b, q, ack)) \/ timeoutPacket(b, q)
      BY <2>1 DEF ResolveStep
    <3>2. ASSUME NEW ack \in Acknowledgement, acknowledgePacket(b, q, ack)
          PROVE  FALSE
      <4>1. ack \in Outcome /\ ack # TimedOut
        BY PacketAssumption DEF PacketAssumption, Outcome
      <4>2. tell(b, q, ack)
        BY <3>2 DEF acknowledgePacket
      <4>3. QED
        BY <1>0, <1>4, <4>1, <4>2, ToldEffect
    <3>3. timeoutPacket(b, q)
      BY <3>1, <3>2
    <3>4. tell(b, q, TimedOut) /\ TimedOut \in Outcome
      BY <3>3 DEF timeoutPacket, Outcome
    <3>5. b = c /\ q = p
      BY <1>0, <1>4, <3>4, ToldEffect
    <3>6. PICK cs \in consensus[c] : timeoutReached(c, p, cs)
      BY <3>3, <3>5 DEF timeoutPacket
    <3>7. cs \in headers'[counterparty(c)]
      BY <1>0, <1>1, <1>2 DEF ClientsBehind
    <3>8. Sendable(c, p)
      BY <1>0, <3>3, <3>5 DEF SentIsSendable, timeoutPacket
    <3>9. QED
      BY <3>6, <3>7, <3>8
  <2>2. CASE UNCHANGED outcomes
    BY <1>4, <2>2 DEF WasTimedOut
  <2>3. QED
    BY <1>0, <2>1, <2>2, StepKinds, PacketAssumption
       DEF BlockStep, UpdateStep, packetVars, QuietStep, SendStep, sendPacket,
           RecvStep, recvPacket
<1>5. QED
  BY <1>3, <1>4

(* Neither can recvPacket come after timeoutPacket, whose header shows the *)
(* time is up, nor before it, when the receipt is in that header's root.   *)
LEMMA NeverDeliveredStep ==
  ASSUME IInv, ClientViewAssumption, PacketAssumption, Step,
         Ordering = "ORDER_UNORDERED"
  PROVE  TimedOutNeverDelivered'
<1>0. /\ TypeOK /\ ClientsBehind /\ HeadersPast /\ SentIsSendable
      /\ ReceiptIsSeen /\ TimeoutIsSeen /\ TimedOutNeverDelivered
  BY DEF IInv, DeliveryInv, TimeoutInv
<1> SUFFICES ASSUME NEW c \in Chain, NEW p \in Packet, WasTimedOut(c, p)'
             PROVE  onRecv'[counterparty(c)][p] = 0
  BY DEF TimedOutNeverDelivered, WasTimedOut, counterparty
<1> DEFINE d == counterparty(c)
<1>1. d \in Chain
  BY TwoChains, ClientViewAssumption
<1>2. CASE RecvStep
  <2>1. PICK b \in Chain, q \in Packet, ack \in Acknowledgement \cup {EmptyAck} : recvPacket(b, q, ack)
    BY <1>2 DEF RecvStep
  <2>2. WasTimedOut(c, p)
    BY <2>1 DEF recvPacket, WasTimedOut
  <2>3. PICK hd \in headers[d] : timeoutReached(c, p, hd) /\ Sendable(c, p)
    BY <1>0, <2>2 DEF TimeoutIsSeen
  <2>4. timedOutHere(d, p)
    BY <1>0, <2>3, TimeoutMeansLate, ClientViewAssumption, PacketAssumption
  <2>5. ~(d = b /\ p = q)
    BY <2>1, <2>4 DEF recvPacket
  <2>6. onRecv'[d][p] = onRecv[d][p]
    BY <1>0, <1>1, <2>1, <2>5, RecvCounts
  <2>7. QED
    BY <1>0, <2>2, <2>6 DEF TimedOutNeverDelivered, WasTimedOut
<1>3. CASE ResolveStep
  <2>1. UNCHANGED onRecv
    BY <1>0, <1>3, ReceivingSideSame
  <2>2. CASE WasTimedOut(c, p)
    BY <1>0, <2>1, <2>2 DEF TimedOutNeverDelivered, WasTimedOut
  <2>3. CASE ~WasTimedOut(c, p)
    <3>1. PICK b \in Chain, q \in Packet :
            (\E ack \in Acknowledgement : acknowledgePacket(b, q, ack)) \/ timeoutPacket(b, q)
      BY <1>3 DEF ResolveStep
    <3>2. ASSUME NEW ack \in Acknowledgement, acknowledgePacket(b, q, ack)
          PROVE  FALSE
      <4>1. ack \in Outcome /\ ack # TimedOut
        BY PacketAssumption DEF PacketAssumption, Outcome
      <4>2. tell(b, q, ack)
        BY <3>2 DEF acknowledgePacket
      <4>3. QED
        BY <1>0, <2>3, <4>1, <4>2, ToldEffect
    <3>3. timeoutPacket(b, q)
      BY <3>1, <3>2
    <3>4. tell(b, q, TimedOut) /\ TimedOut \in Outcome
      BY <3>3 DEF timeoutPacket, Outcome
    <3>5. b = c /\ q = p
      BY <1>0, <2>3, <3>4, ToldEffect
    <3>6. PICK cs \in consensus[c] : timeoutReached(c, p, cs) /\ timeoutProof(p, cs)
      BY <3>3, <3>5 DEF timeoutPacket
    <3>7. p.sequence \notin cs.root.receipts
      BY <3>6 DEF timeoutProof
    <3>8. Sendable(c, p) /\ cs \in headers[d]
      BY <1>0, <3>3, <3>5 DEF SentIsSendable, ClientsBehind, timeoutPacket
    <3>9. ~(onRecv[d][p] > 0)
      BY <1>0, <3>6, <3>7, <3>8 DEF ReceiptIsSeen
    <3>10. onRecv[d][p] \in Nat
      BY <1>0, <1>1 DEF TypeOK
    <3>11. QED
      BY <2>1, <3>9, <3>10
  <2>4. QED
    BY <2>2, <2>3
<1>4. CASE BlockStep \/ UpdateStep \/ QuietStep \/ SendStep
  <2>1. UNCHANGED onRecv
    BY <1>0, <1>4, ReceivingSideSame
  <2>2. UNCHANGED outcomes
    BY <1>4 DEF BlockStep, UpdateStep, packetVars, QuietStep, SendStep, sendPacket
  <2>3. QED
    BY <1>0, <2>1, <2>2 DEF TimedOutNeverDelivered, WasTimedOut
<1>5. QED
  BY <1>0, <1>2, <1>3, <1>4, StepKinds, PacketAssumption

-----------------------------------------------------------------------------
(* The theorems *)

(* Nothing was sent yet.                                                   *)
LEMMA InitIInv == ASSUME ClientViewAssumption, PacketAssumption, Init PROVE IInv
<1>1. TypeOK
  BY InitType, ClientViewAssumption, PacketAssumption
<1>2. ASSUME NEW c \in Chain
      PROVE  /\ block[c].number = 2 /\ block[c].timestamp = 2
             /\ \E hd : /\ headers[c] = {hd}
                        /\ consensus[counterparty(c)] = {hd}
                        /\ hd.height <= 2 /\ hd.timestamp <= 2 /\ hd.root.packets = {}
             /\ commitments[c].packets = {}
  <2> DEFINE root == [d \in Chain |-> InitStore(IF d = ChainA THEN "INIT" ELSE "TRYOPEN")]
  <2>1. /\ headers[c] = {FirstHeader(c, root[c])}
        /\ consensus[counterparty(c)] = {FirstHeader(c, root[c])}
        /\ block[c] = [number |-> 2, timestamp |-> 2]
    BY TwoChains, ClientViewAssumption DEF Init, InitClientView
  <2>2. RootLag[c] \in {0, 1}
    BY ClientViewAssumption DEF ClientViewAssumption
  <2>3. root[c].packets = {} /\ commitments[c].packets = {}
    BY DEF Init, InitStore
  <2> HIDE DEF root
  <2>4. /\ FirstHeader(c, root[c]).height <= 2 /\ FirstHeader(c, root[c]).timestamp <= 2
        /\ FirstHeader(c, root[c]).root = root[c]
    BY <2>2 DEF FirstHeader
  <2>5. QED
    BY <2>1, <2>3, <2>4
<1>3. /\ onRecv = [c \in Chain |-> [p \in Packet |-> 0]]
      /\ outcomes = [c \in Chain |-> [p \in Packet |-> <<>>]]
  BY DEF Init
<1>4. ClientsBehind
  <2> SUFFICES ASSUME NEW c \in Chain
               PROVE  /\ consensus[c] \subseteq headers[counterparty(c)]
                      /\ \E cs \in consensus[c] :
                           \A other \in consensus[c] : other.height <= cs.height
    BY DEF ClientsBehind
  <2>1. counterparty(c) \in Chain /\ counterparty(counterparty(c)) = c
    BY TwoChains, ClientViewAssumption
  <2>2. PICK hd : headers[counterparty(c)] = {hd} /\ consensus[c] = {hd}
    BY <1>2, <2>1
  <2>3. hd.height \in Nat
    BY <1>1, <2>2 DEF TypeOK, Header
  <2>4. QED
    BY <2>2, <2>3
<1>5. HeadersPast
  BY <1>2 DEF HeadersPast
<1>6. SentIsSendable
  <2>1. ASSUME NEW c \in Chain
        PROVE  /\ \A p \in commitments[c].packets : Sendable(c, p)
               /\ \A hd \in headers[c] : \A p \in hd.root.packets : Sendable(c, p)
    <3>1. PICK hd : headers[c] = {hd} /\ hd.root.packets = {}
      BY <1>2
    <3>2. \A g \in headers[c] : g = hd
      BY <3>1
    <3>3. commitments[c].packets = {}
      BY <1>2
    <3>4. QED
      BY <3>1, <3>2, <3>3
  <2>2. QED
    BY <2>1 DEF SentIsSendable
<1>7. \A c \in Chain, p \in Packet : ~WasTimedOut(c, p)
  BY <1>3 DEF WasTimedOut
<1>8. QED
  BY <1>1, <1>3, <1>4, <1>5, <1>6, <1>7, TwoChains, ClientViewAssumption
     DEF IInv, DeliveryInv, TimeoutInv, ReceivedIsRecorded, ExactlyOnceDelivery,
         ReceiptIsSeen, TimeoutIsSeen, TimedOutNeverDelivered, WasTimedOut

(* The invariant is inductive.                                             *)
LEMMA IInvStep ==
  ASSUME IInv, ClientViewAssumption, PacketAssumption, Step PROVE IInv'
<1>1. TypeOK' /\ ClientsBehind' /\ HeadersPast'
  BY StepType, ClientsStep, ClientViewAssumption, PacketAssumption DEF IInv, DeliveryInv
<1>2. ReceivedIsRecorded' /\ ExactlyOnceDelivery'
  BY DeliveryStep, ClientViewAssumption, PacketAssumption DEF IInv
<1>3. SentIsSendable' /\ ReceiptIsSeen' /\ TimeoutIsSeen'
  BY SendableStep, ReceiptSeenStep, TimeoutSeenStep, ClientViewAssumption, PacketAssumption
<1>4. Ordering = "ORDER_UNORDERED" => TimedOutNeverDelivered'
  BY NeverDeliveredStep, ClientViewAssumption, PacketAssumption
<1>5. QED
  BY <1>1, <1>2, <1>3, <1>4 DEF IInv, DeliveryInv, TimeoutInv

(* The strengthening of the two safety properties below that every step of *)
(* the handlers, the chains and the clients preserves.                     *)
THEOREM InvariantHolds == Spec => []IInv
<1>1. Init => IInv
  BY InitIInv, ClientViewAssumption, PacketAssumption
<1>2. IInv /\ [Next]_vars => IInv'
  BY IInvStep, ClientViewAssumption, PacketAssumption DEF Step
<1>3. QED
  BY <1>1, <1>2, PTL DEF Spec

(* On a channel of either ordering recvPacket hands each sequence number   *)
(* to the module at most once.                                             *)
THEOREM DeliverySafe == Spec => []ExactlyOnceDelivery
<1>1. IInv => ExactlyOnceDelivery
  BY DEF IInv, DeliveryInv
<1>2. QED
  BY <1>1, InvariantHolds, PTL

(* On an unordered channel a packet timeoutPacket gave back to its sender  *)
(* is never handed to the other module, whatever the chains' revisions,    *)
(* block times and client updates.                                         *)
THEOREM TimeoutSafe ==
  ASSUME Ordering = "ORDER_UNORDERED"
  PROVE  Spec => []TimedOutNeverDelivered
<1>1. IInv => TimedOutNeverDelivered
  BY DEF IInv, TimeoutInv
<1>2. QED
  BY <1>1, InvariantHolds, PTL

-----------------------------------------------------------------------------
(* Outcomes *)

(* The packets a chain has sent.                                           *)
Sent(c) == commitments[c].packets \cup {p \in Packet : outcomes[c][p] # <<>>}

(* What a header commits to was written by then, and acknowledgements stay.*)
RootsPast ==
  \A c \in Chain : \A hd \in headers[c] :
    hd.root.packets \subseteq Sent(c) /\ hd.root.acks \subseteq commitments[c].acks

DeliveredWasSent ==
  \A c \in Chain, p \in Packet : onRecv[counterparty(c)][p] > 0 => p \in Sent(c)

AckWasDelivered ==
  \A c \in Chain : \A a \in commitments[c].acks :
    \E p \in Packet : p.sequence = a.sequence /\ onRecv[c][p] > 0

(* The module of c was told an acknowledgement of p.                       *)
WasAcknowledged(c, p) == outcomes[c][p] # <<>> /\ outcomes[c][p][1] # TimedOut

AcknowledgedWasWritten ==
  \A c \in Chain, p \in Packet : WasAcknowledged(c, p) =>
    onRecv[counterparty(c)][p] > 0 /\ acknowledged(counterparty(c), p.sequence)

(* The inductive invariant, on top of IInv.                                *)
OutcomeInv ==
  /\ ResolvedExactlyOnce
  /\ OrderedDelivery
  /\ ClosedIsProvableOrTimedOut
  /\ RootsPast
  /\ DeliveredWasSent
  /\ AckWasDelivered
  /\ AcknowledgedWasWritten

-----------------------------------------------------------------------------
(* What the actions do to the outcomes *)

(* No packet is sent under a sequence of another.                          *)
LEMMA OnePerSequence ==
  ASSUME ResolvedExactlyOnce, NEW c \in Chain
  PROVE  /\ \A p, q \in Sent(c) : p.sequence = q.sequence => p = q
         /\ {p.sequence : p \in Sent(c)} = 1..(commitments[c].nextSequenceSend - 1)
         /\ \A p \in commitments[c].packets : p \in Packet => outcomes[c][p] = <<>>
BY DEF ResolvedExactlyOnce, Sent

(* ResolvedExactlyOnce from these.                                         *)
LEMMA ResolvedFrom ==
  ASSUME \A c \in Chain :
           /\ \A p, q \in Sent(c) : p.sequence = q.sequence => p = q
           /\ {p.sequence : p \in Sent(c)} = 1..(commitments[c].nextSequenceSend - 1)
           /\ \A p \in commitments[c].packets : p \in Packet => outcomes[c][p] = <<>>
           /\ \A p \in Packet : outcomes[c][p] # <<>> => Len(outcomes[c][p]) = 1
  PROVE  ResolvedExactlyOnce
BY DEF ResolvedExactlyOnce, Sent

(* sendPacket sends one packet, of the next sequence.                      *)
LEMMA Sends ==
  ASSUME TypeOK, PacketAssumption, ResolvedExactlyOnce, NEW c \in Chain,
         NEW h \in TimeoutHeight, NEW t \in TimeoutTimestamp, sendPacket(c, h, t)
  PROVE  \E p \in Packet :
           /\ p.sequence = commitments[c].nextSequenceSend
           /\ \A q \in Sent(c) : q.sequence # p.sequence
           /\ commitments'[c].packets = commitments[c].packets \cup {p}
           /\ commitments'[c].nextSequenceSend = p.sequence + 1
           /\ Sent(c)' = Sent(c) \cup {p}
           /\ \A d \in Chain : d # c => Sent(d)' = Sent(d)
           /\ OtherFieldsSame(commitments[c], commitments'[c], {"packets", "nextSequenceSend"})
           /\ OnlyStoreOf(c)
           /\ UNCHANGED <<clientVars, channels, onRecv, outcomes>>
<1>1. PICK p \in Packet :
           /\ p.sequence = commitments[c].nextSequenceSend
           /\ commitments'[c].packets = put(commitments[c].packets, p)
           /\ commitments'[c].nextSequenceSend = p.sequence + 1
           /\ OtherFieldsSame(commitments[c], commitments'[c], {"packets", "nextSequenceSend"})
           /\ OnlyStoreOf(c)
  BY SendEffect
<1>2. UNCHANGED <<clientVars, channels, onRecv, outcomes>>
  BY DEF sendPacket
<1>3. p.sequence \in Nat
  BY DEF Packet, Sequence
<1>4. \A q \in Sent(c) : q.sequence # p.sequence
  BY <1>1, <1>3, OnePerSequence
<1>5. commitments'[c].packets = commitments[c].packets \cup {p}
  BY <1>1, <1>4 DEF put, Sent
<1>6. Sent(c)' = Sent(c) \cup {p}
  BY <1>2, <1>5 DEF Sent
<1>7. \A d \in Chain : d # c => Sent(d)' = Sent(d)
  BY <1>1, <1>2 DEF Sent, OnlyStoreOf, SameFields
<1> QED
  BY <1>1, <1>2, <1>4, <1>5, <1>6, <1>7

(* acknowledgePacket and timeoutPacket give one packet its one outcome.    *)
Resolves(c, p, outcome) ==
  /\ p \in commitments[c].packets /\ outcomes[c][p] = <<>>
  /\ outcomes'[c][p] = <<outcome>>
  /\ \A d \in Chain, q \in Packet : ~(d = c /\ q = p) => outcomes'[d][q] = outcomes[d][q]
  /\ \A d \in Chain : Sent(d)' = Sent(d)
  /\ commitments'[c].packets = commitments[c].packets \ {p}
  /\ OtherFieldsSame(commitments[c], commitments'[c], {"packets", "nextSequenceAck"})
  /\ OnlyStoreOf(c)
  /\ UNCHANGED <<clientVars, onRecv>>

(* They do.                                                                *)
LEMMA ResolvesOne ==
  ASSUME TypeOK, ResolvedExactlyOnce, NEW c \in Chain, NEW p \in Packet,
         NEW outcome \in Outcome,
         \/ outcome \in Acknowledgement /\ acknowledgePacket(c, p, outcome)
         \/ outcome = TimedOut /\ timeoutPacket(c, p)
  PROVE  Resolves(c, p, outcome)
<1>1. p \in commitments[c].packets /\ tell(c, p, outcome) /\ UNCHANGED <<clientVars, onRecv>>
  BY DEF acknowledgePacket, timeoutPacket
<1>2. outcomes[c][p] = <<>>
  BY <1>1, OnePerSequence
<1>3. outcomes' = [outcomes EXCEPT ![c] = [outcomes[c] EXCEPT ![p] = Append(outcomes[c][p], outcome)]]
  BY <1>1 DEF tell
<1>4. outcomes \in [Chain -> [Packet -> Seq(Outcome)]]
  BY DEF TypeOK
<1>5. outcomes'[c][p] = Append(<<>>, outcome)
  BY <1>2, <1>3, <1>4
<1>6. Append(<<>>, outcome) = <<outcome>>
  OBVIOUS
<1>7. \A d \in Chain, q \in Packet : ~(d = c /\ q = p) => outcomes'[d][q] = outcomes[d][q]
  BY <1>3, <1>4
<1>8. /\ OtherFieldsSame(commitments[c], commitments'[c], {"packets", "nextSequenceAck"})
      /\ commitments'[c].packets = commitments[c].packets \ {p}
      /\ OnlyStoreOf(c)
  BY ResolveEffect
<1>9. \A d \in Chain : Sent(d)' = Sent(d)
  <2> TAKE d \in Chain
  <2>1. CASE d = c
    <3>1. <<outcome>> # <<>>
      OBVIOUS
    <3>2. \A q \in Packet : outcomes'[c][q] # <<>> <=> outcomes[c][q] # <<>> \/ q = p
      BY <1>2, <1>5, <1>6, <1>7, <3>1
    <3> QED
      BY <1>1, <1>8, <2>1, <3>2 DEF Sent
  <2>2. CASE d # c
    BY <1>7, <1>8, <2>2 DEF Sent, OnlyStoreOf, SameFields
  <2> QED
    BY <2>1, <2>2
<1> QED
  BY <1>1, <1>2, <1>5, <1>6, <1>7, <1>8, <1>9 DEF Resolves

(* recvPacket and writeAcknowledgement tell the sender nothing.            *)
LEMMA ReceiverWrites ==
  ASSUME TypeOK, PacketAssumption, NEW c \in Chain, NEW p \in Packet,
         NEW ack \in Acknowledgement \cup {EmptyAck},
         \/ recvPacket(c, p, ack)
         \/ ack \in Acknowledgement /\ writeAcknowledgement(c, p, ack)
  PROVE  /\ commitments'[c].acks = commitments[c].acks \cup
              IF ack = EmptyAck THEN {} ELSE {[sequence |-> p.sequence, ack |-> ack]}
         /\ OtherFieldsSame(commitments[c], commitments'[c],
                            {"receipts", "nextSequenceRecv", "acks"})
         /\ OnlyStoreOf(c)
         /\ \A d \in Chain : Sent(d)' = Sent(d)
         /\ UNCHANGED <<clientVars, channels, outcomes>>
<1>1. /\ commitments'[c].acks = commitments[c].acks \cup
           IF ack = EmptyAck THEN {} ELSE {[sequence |-> p.sequence, ack |-> ack]}
      /\ OtherFieldsSame(commitments[c], commitments'[c], {"receipts", "nextSequenceRecv", "acks"})
      /\ OnlyStoreOf(c)
  <2>1. CASE recvPacket(c, p, ack)
    BY <2>1, RecvEffect
  <2>2. CASE ack \in Acknowledgement /\ writeAcknowledgement(c, p, ack)
    <3>1. ack # EmptyAck
      BY <2>2, PacketAssumption DEF PacketAssumption
    <3> QED
      BY <2>2, <3>1, WriteAckEffect DEF OtherFieldsSame
  <2> QED
    BY <2>1, <2>2
<1>2. UNCHANGED <<clientVars, channels, outcomes>>
  BY DEF recvPacket, writeAcknowledgement
<1>3. \A d \in Chain : Sent(d)' = Sent(d)
  BY <1>1, <1>2 DEF Sent, OtherFieldsSame, OnlyStoreOf, SameFields
<1> QED
  BY <1>1, <1>2, <1>3

(* Blocks, clients and the channel's own handlers leave packets alone.     *)
StoresSame ==
  UNCHANGED <<onRecv, outcomes>> /\ \A c \in Chain : SameFields(c) /\ Sent(c)' = Sent(c)

(* And no step does more than one of these.                                *)
LEMMA Steps ==
  ASSUME TypeOK, [Next]_vars
  PROVE  \/ StoresSame
         \/ SendStep
         \/ \E c \in Chain, p \in Packet, ack \in Acknowledgement \cup {EmptyAck} :
              \/ recvPacket(c, p, ack)
              \/ ack \in Acknowledgement /\ writeAcknowledgement(c, p, ack)
         \/ \E c \in Chain, p \in Packet, outcome \in Outcome :
              \/ outcome \in Acknowledgement /\ acknowledgePacket(c, p, outcome)
              \/ outcome = TimedOut /\ timeoutPacket(c, p)
<1>1. ASSUME UNCHANGED packetVars
      PROVE  StoresSame
  BY <1>1 DEF packetVars, StoresSame, SameFields, Sent
<1>2. ASSUME NEW c \in Chain,
             channelOpenConfirm(c) \/ channelCloseInit(c) \/ channelCloseConfirm(c)
      PROVE  StoresSame
  <2>1. UNCHANGED <<onRecv, outcomes>>
    BY <1>2 DEF channelOpenConfirm, channelCloseInit, channelCloseConfirm
  <2>2. \A d \in Chain : SameFields(d)
    BY <1>2, ChannelEffect
  <2> QED
    BY <2>1, <2>2 DEF StoresSame, Sent, SameFields
<1> QED
  BY <1>1, <1>2 DEF Next, vars, SendStep, Outcome

-----------------------------------------------------------------------------
(* Every packet has one outcome *)

(* Only sendPacket adds a packet, and an outcome replaces a commitment.    *)
LEMMA ResolvedStep ==
  ASSUME TypeOK, PacketAssumption, ResolvedExactlyOnce, [Next]_vars
  PROVE  ResolvedExactlyOnce'
<1>1. CASE StoresSame
  BY <1>1 DEF StoresSame, SameFields, ResolvedExactlyOnce
<1>2. ASSUME NEW c \in Chain, NEW h \in TimeoutHeight, NEW t \in TimeoutTimestamp,
             sendPacket(c, h, t)
      PROVE  ResolvedExactlyOnce'
  <2>1. PICK p \in Packet :
           /\ p.sequence = commitments[c].nextSequenceSend
           /\ \A q \in Sent(c) : q.sequence # p.sequence
           /\ commitments'[c].packets = commitments[c].packets \cup {p}
           /\ commitments'[c].nextSequenceSend = p.sequence + 1
           /\ Sent(c)' = Sent(c) \cup {p}
           /\ \A d \in Chain : d # c => Sent(d)' = Sent(d)
           /\ OnlyStoreOf(c)
           /\ UNCHANGED outcomes
    BY <1>2, Sends
  <2>2. outcomes[c][p] = <<>>
    BY <2>1 DEF Sent
  <2>3. p.sequence \in Nat /\ p.sequence >= 1
    BY DEF Packet, Sequence
  <2> SUFFICES ASSUME NEW d \in Chain
               PROVE  /\ \A q, r \in Sent(d)' : q.sequence = r.sequence => q = r
                      /\ {q.sequence : q \in Sent(d)'}
                           = 1..(commitments'[d].nextSequenceSend - 1)
                      /\ \A q \in commitments'[d].packets :
                           q \in Packet => outcomes'[d][q] = <<>>
                      /\ \A q \in Packet : outcomes'[d][q] # <<>> => Len(outcomes'[d][q]) = 1
    BY ResolvedFrom DEF ResolvedExactlyOnce, Sent
  <2>4. \A q \in Packet : outcomes'[d][q] # <<>> => Len(outcomes'[d][q]) = 1
    BY <2>1 DEF ResolvedExactlyOnce
  <2>5. CASE d # c
    BY <2>1, <2>4, <2>5, OnePerSequence DEF OnlyStoreOf, SameFields
  <2>6. CASE d = c
    <3>1. \A q, r \in Sent(c)' : q.sequence = r.sequence => q = r
      BY <2>1, OnePerSequence
    <3>2. {q.sequence : q \in Sent(c)'} = {q.sequence : q \in Sent(c)} \cup {p.sequence}
      BY <2>1
    <3>3. {q.sequence : q \in Sent(c)'} = 1..(commitments'[c].nextSequenceSend - 1)
      BY <2>1, <2>3, <3>2, OnePerSequence
    <3>4. \A q \in commitments'[c].packets : q \in Packet => outcomes'[c][q] = <<>>
      BY <2>1, <2>2, OnePerSequence
    <3> QED
      BY <2>4, <2>6, <3>1, <3>3, <3>4
  <2> QED
    BY <2>5, <2>6
<1>3. ASSUME NEW c \in Chain, NEW p \in Packet, NEW ack \in Acknowledgement \cup {EmptyAck},
             \/ recvPacket(c, p, ack)
             \/ ack \in Acknowledgement /\ writeAcknowledgement(c, p, ack)
      PROVE  ResolvedExactlyOnce'
  BY <1>3, ReceiverWrites DEF OtherFieldsSame, OnlyStoreOf, SameFields, ResolvedExactlyOnce
<1>4. ASSUME NEW c \in Chain, NEW p \in Packet, NEW outcome \in Outcome,
             \/ outcome \in Acknowledgement /\ acknowledgePacket(c, p, outcome)
             \/ outcome = TimedOut /\ timeoutPacket(c, p)
      PROVE  ResolvedExactlyOnce'
  <2>1. Resolves(c, p, outcome)
    BY <1>4, ResolvesOne
  <2> SUFFICES ASSUME NEW d \in Chain
               PROVE  /\ \A q, r \in Sent(d)' : q.sequence = r.sequence => q = r
                      /\ {q.sequence : q \in Sent(d)'}
                           = 1..(commitments'[d].nextSequenceSend - 1)
                      /\ \A q \in commitments'[d].packets :
                           q \in Packet => outcomes'[d][q] = <<>>
                      /\ \A q \in Packet : outcomes'[d][q] # <<>> => Len(outcomes'[d][q]) = 1
    BY ResolvedFrom DEF ResolvedExactlyOnce, Sent
  <2>2. commitments'[d].nextSequenceSend = commitments[d].nextSequenceSend
    BY <2>1 DEF Resolves, OtherFieldsSame, OnlyStoreOf, SameFields
  <2>3. /\ \A q, r \in Sent(d)' : q.sequence = r.sequence => q = r
        /\ {q.sequence : q \in Sent(d)'} = 1..(commitments'[d].nextSequenceSend - 1)
    BY <2>1, <2>2, OnePerSequence DEF Resolves
  <2>4. \A q \in commitments'[d].packets :
          q \in commitments[d].packets /\ ~(d = c /\ q = p)
    BY <2>1 DEF Resolves, OnlyStoreOf, SameFields
  <2>5. \A q \in commitments'[d].packets : q \in Packet => outcomes'[d][q] = <<>>
    BY <2>1, <2>4, OnePerSequence DEF Resolves
  <2>6. Len(<<outcome>>) = 1
    OBVIOUS
  <2>7. \A q \in Packet : outcomes'[d][q] # <<>> => Len(outcomes'[d][q]) = 1
    <3> TAKE q \in Packet
    <3>1. outcomes[d][q] # <<>> => Len(outcomes[d][q]) = 1
      BY DEF ResolvedExactlyOnce
    <3>2. CASE d = c /\ q = p
      BY <2>1, <2>6, <3>2 DEF Resolves
    <3>3. CASE ~(d = c /\ q = p)
      BY <2>1, <3>1, <3>3 DEF Resolves
    <3> QED
      BY <3>2, <3>3
  <2> QED
    BY <2>3, <2>5, <2>7
<1> QED
  BY <1>1, <1>2, <1>3, <1>4, Steps DEF SendStep

-----------------------------------------------------------------------------
(* Order *)

(* An ordered channel receives, and acknowledges, the next packet.         *)
LEMMA OrderedStep ==
  ASSUME TypeOK, PacketAssumption, ResolvedExactlyOnce, OrderedDelivery, [Next]_vars
  PROVE  OrderedDelivery'
<1> SUFFICES ASSUME Ordering = "ORDER_ORDERED", NEW d \in Chain
             PROVE  /\ {p.sequence : p \in {q \in Packet : onRecv'[d][q] > 0}}
                         = 1..(commitments'[d].nextSequenceRecv - 1)
                    /\ {p.sequence : p \in {q \in Packet : WasAcknowledged(d, q)'}}
                         = 1..(commitments'[d].nextSequenceAck - 1)
  BY DEF OrderedDelivery, WasAcknowledged
<1>0. /\ {p.sequence : p \in {q \in Packet : onRecv[d][q] > 0}}
           = 1..(commitments[d].nextSequenceRecv - 1)
      /\ {p.sequence : p \in {q \in Packet : WasAcknowledged(d, q)}}
           = 1..(commitments[d].nextSequenceAck - 1)
  BY DEF OrderedDelivery, WasAcknowledged
<1>1. CASE StoresSame
  BY <1>0, <1>1 DEF StoresSame, SameFields, WasAcknowledged
<1>2. ASSUME NEW c \in Chain, NEW h \in TimeoutHeight, NEW t \in TimeoutTimestamp,
             sendPacket(c, h, t)
      PROVE  /\ commitments'[d].nextSequenceRecv = commitments[d].nextSequenceRecv
             /\ commitments'[d].nextSequenceAck = commitments[d].nextSequenceAck
             /\ UNCHANGED <<onRecv, outcomes>>
  BY <1>2, Sends DEF OtherFieldsSame, OnlyStoreOf, SameFields
<1>3. ASSUME NEW c \in Chain, NEW p \in Packet, NEW ack \in Acknowledgement,
             writeAcknowledgement(c, p, ack)
      PROVE  /\ commitments'[d].nextSequenceRecv = commitments[d].nextSequenceRecv
             /\ commitments'[d].nextSequenceAck = commitments[d].nextSequenceAck
             /\ UNCHANGED <<onRecv, outcomes>>
  BY <1>3, WriteAckEffect
     DEF OtherFieldsSame, OnlyStoreOf, SameFields, writeAcknowledgement
<1>4. ASSUME NEW c \in Chain, NEW p \in Packet, NEW ack \in Acknowledgement \cup {EmptyAck},
             recvPacket(c, p, ack)
      PROVE  /\ {q.sequence : q \in {r \in Packet : onRecv'[d][r] > 0}}
                  = 1..(commitments'[d].nextSequenceRecv - 1)
             /\ commitments'[d].nextSequenceAck = commitments[d].nextSequenceAck
             /\ UNCHANGED outcomes
  <2>1. /\ commitments'[d].nextSequenceAck = commitments[d].nextSequenceAck
        /\ UNCHANGED outcomes
    BY <1>4, ReceiverWrites DEF OtherFieldsSame, OnlyStoreOf, SameFields
  <2>2. /\ onRecv[c][p] \in Nat /\ onRecv'[c][p] = onRecv[c][p] + 1
        /\ \A e \in Chain, q \in Packet : ~(e = c /\ q = p) => onRecv'[e][q] = onRecv[e][q]
    BY <1>4, RecvCounts
  <2>3. CASE d # c
    BY <1>0, <1>4, <2>1, <2>2, <2>3, ReceiverWrites DEF OnlyStoreOf, SameFields
  <2>4. CASE d = c
    <3>1. /\ commitments'[c].nextSequenceRecv = p.sequence + 1
          /\ p.sequence = commitments[c].nextSequenceRecv
          /\ p.sequence \in Nat /\ p.sequence >= 1
      <4>1. commitments'[c].nextSequenceRecv = p.sequence + 1
        BY <1>4, RecvEffect, PacketAssumption
      <4>2. p.sequence = commitments[c].nextSequenceRecv
        BY <1>4 DEF recvPacket, receiptAllowed
      <4> QED
        BY <4>1, <4>2 DEF Packet, Sequence
    <3>2. {r \in Packet : onRecv'[c][r] > 0} = {r \in Packet : onRecv[c][r] > 0} \cup {p}
      BY <2>2
    <3>3. {q.sequence : q \in {r \in Packet : onRecv'[c][r] > 0}}
            = {q.sequence : q \in {r \in Packet : onRecv[c][r] > 0}} \cup {p.sequence}
      BY <3>2
    <3>4. 1..(p.sequence + 1 - 1) = 1..(p.sequence - 1) \cup {p.sequence}
      BY <3>1
    <3>5. {q.sequence : q \in {r \in Packet : onRecv'[c][r] > 0}}
            = 1..(commitments'[c].nextSequenceRecv - 1)
      BY <1>0, <2>4, <3>1, <3>3, <3>4
    <3> QED
      BY <2>1, <2>4, <3>5
  <2> QED
    BY <2>3, <2>4
<1>5. ASSUME NEW c \in Chain, NEW p \in Packet, NEW outcome \in Outcome,
             \/ outcome \in Acknowledgement /\ acknowledgePacket(c, p, outcome)
             \/ outcome = TimedOut /\ timeoutPacket(c, p)
      PROVE  /\ {q.sequence : q \in {r \in Packet : WasAcknowledged(d, r)'}}
                  = 1..(commitments'[d].nextSequenceAck - 1)
             /\ commitments'[d].nextSequenceRecv = commitments[d].nextSequenceRecv
             /\ UNCHANGED onRecv
  <2>1. Resolves(c, p, outcome)
    BY <1>5, ResolvesOne
  <2>2. commitments'[d].nextSequenceRecv = commitments[d].nextSequenceRecv /\ UNCHANGED onRecv
    BY <2>1 DEF Resolves, OtherFieldsSame, OnlyStoreOf, SameFields
  <2>3. \A q \in Packet : ~(d = c /\ q = p) => (WasAcknowledged(d, q)' <=> WasAcknowledged(d, q))
    BY <2>1 DEF Resolves, WasAcknowledged
  <2>4. CASE d # c
    <3>1. commitments'[d].nextSequenceAck = commitments[d].nextSequenceAck
      BY <2>1, <2>4 DEF Resolves, OnlyStoreOf, SameFields
    <3> QED
      BY <1>0, <2>2, <2>3, <2>4, <3>1
  <2>5. ~WasAcknowledged(c, p) /\ (WasAcknowledged(c, p)' <=> outcome # TimedOut)
    <3>1. <<outcome>> # <<>> /\ <<outcome>>[1] = outcome
      OBVIOUS
    <3> QED
      BY <2>1, <3>1 DEF Resolves, WasAcknowledged
  <2>6. CASE d = c /\ outcome = TimedOut
    <3>1. timeoutPacket(c, p)
      BY <1>5, <2>6, PacketAssumption DEF PacketAssumption
    <3>2. commitments' = [commitments EXCEPT ![c] = withoutPacket(commitments[c], p)]
      BY <3>1 DEF timeoutPacket
    <3>3. commitments'[c].nextSequenceAck = commitments[c].nextSequenceAck
      BY <3>2 DEF TypeOK, withoutPacket, Store
    <3> QED
      BY <1>0, <2>2, <2>3, <2>5, <2>6, <3>3
  <2>7. CASE d = c /\ outcome # TimedOut
    <3>1. acknowledgePacket(c, p, outcome)
      BY <1>5, <2>7
    <3>2. p.sequence = commitments[c].nextSequenceAck /\ p.sequence \in Nat /\ p.sequence >= 1
      BY <3>1 DEF acknowledgePacket, Packet, Sequence
    <3>3. commitments'[c].nextSequenceAck = p.sequence + 1
      <4>1. commitments' = [commitments EXCEPT ![c] = withAcknowledged(commitments[c], p)]
        BY <3>1 DEF acknowledgePacket
      <4>2. commitments'[c] = withAcknowledged(commitments[c], p) /\ commitments[c] \in Store
        BY <4>1 DEF TypeOK
      <4> QED
        BY <4>2, WithAcknowledgedFields
    <3>4. {r \in Packet : WasAcknowledged(c, r)'} = {r \in Packet : WasAcknowledged(c, r)} \cup {p}
      BY <2>3, <2>5, <2>7
    <3>5. {q.sequence : q \in {r \in Packet : WasAcknowledged(c, r)'}}
            = {q.sequence : q \in {r \in Packet : WasAcknowledged(c, r)}} \cup {p.sequence}
      BY <3>4
    <3> QED
      BY <1>0, <2>2, <2>7, <3>2, <3>3, <3>5
  <2> QED
    BY <2>4, <2>6, <2>7
<1>6. UNCHANGED outcomes => \A q \in Packet : WasAcknowledged(d, q)' <=> WasAcknowledged(d, q)
  BY DEF WasAcknowledged
<1> QED
  BY <1>0, <1>1, <1>2, <1>3, <1>4, <1>5, <1>6, Steps DEF SendStep

-----------------------------------------------------------------------------
(* Closed ends *)

(* Packets do not change what a store says of the channel.                 *)
LEMMA ChannelCommitmentSame ==
  ASSUME NEW s \in Store, NEW p \in Packet, NEW ack, PacketAssumption
  PROVE  /\ withPacket(s, p).channel = s.channel
         /\ withoutPacket(s, p).channel = s.channel
         /\ withAcknowledged(s, p).channel = s.channel
         /\ withAck(withReceipt(s, p.sequence), p.sequence, ack).channel = s.channel
         /\ withAck(s, p.sequence, ack).channel = s.channel
<1>1. withPacket(s, p).channel = s.channel
  BY DEF withPacket, Store
<1>2. withoutPacket(s, p).channel = s.channel
  BY DEF withoutPacket, Store
<1>3. withAcknowledged(s, p).channel = s.channel
  BY DEF withAcknowledged, withoutPacket, Store
<1>4. \A r \in Store : withAck(r, p.sequence, ack).channel = r.channel
  BY DEF withAck, Store
<1>5. withReceipt(s, p.sequence) \in Store /\ withReceipt(s, p.sequence).channel = s.channel
  BY PacketAssumption DEF withReceipt, Store, Packet, Sequence
<1> QED
  BY <1>1, <1>2, <1>3, <1>4, <1>5

(* An end is closed by its own handlers, which commit to that, or by a     *)
(* timeout.                                                                *)
LEMMA ClosedStep ==
  ASSUME TypeOK, PacketAssumption, ResolvedExactlyOnce, ClosedIsProvableOrTimedOut, [Next]_vars
  PROVE  ClosedIsProvableOrTimedOut'
<1> DEFINE Excused(c) == \E p \in Packet : outcomes[c][p] = <<TimedOut>>
           ChannelSame(c) == channels'[c] = channels[c]
                             /\ commitments'[c].channel = commitments[c].channel
<1>1. ASSUME NEW c \in Chain, NEW p \in Packet, NEW outcome \in Outcome,
             \/ outcome \in Acknowledgement /\ acknowledgePacket(c, p, outcome)
             \/ outcome = TimedOut /\ timeoutPacket(c, p)
      PROVE  \A d \in Chain : Excused(d) => Excused(d)'
  <2>1. Resolves(c, p, outcome)
    BY <1>1, ResolvesOne
  <2>2. <<TimedOut>> # <<>>
    OBVIOUS
  <2> QED
    BY <2>1, <2>2 DEF Resolves
<1>2. \A d \in Chain : commitments[d] \in Store
  BY DEF TypeOK
<1>3. ASSUME NEW d \in Chain, ChannelSame(d), Excused(d) => Excused(d)'
      PROVE  channels'[d] = "CLOSED" /\ commitments'[d].channel # "CLOSED" => Excused(d)'
  BY <1>3 DEF ClosedIsProvableOrTimedOut
<1>4. ASSUME \A d \in Chain :
               channels'[d] = "CLOSED" /\ commitments'[d].channel # "CLOSED" => Excused(d)'
      PROVE  ClosedIsProvableOrTimedOut'
  BY <1>4 DEF ClosedIsProvableOrTimedOut
<1> HIDE DEF Excused
<1>5. CASE UNCHANGED packetVars
  <2>1. \A d \in Chain : ChannelSame(d) /\ (Excused(d) => Excused(d)')
    BY <1>5 DEF packetVars, Excused
  <2> QED
    BY <1>3, <1>4, <2>1
<1>6. ASSUME NEW c \in Chain, NEW state \in ChannelState, setChannel(c, state), UNCHANGED outcomes
      PROVE  ClosedIsProvableOrTimedOut'
  <2>1. /\ channels'[c] = state /\ commitments'[c].channel = state
        /\ \A d \in Chain : d # c => ChannelSame(d)
    BY <1>2, <1>6 DEF setChannel, TypeOK, Store
  <2>2. \A d \in Chain : Excused(d) => Excused(d)'
    BY <1>6 DEF Excused
  <2> QED
    BY <1>3, <1>4, <2>1, <2>2
<1>7. ASSUME NEW c \in Chain, NEW store, store.channel = commitments[c].channel,
             commitments' = [commitments EXCEPT ![c] = store], UNCHANGED channels
      PROVE  \A d \in Chain : ChannelSame(d)
  BY <1>7 DEF TypeOK
<1>8. ASSUME NEW c \in Chain, NEW h \in TimeoutHeight, NEW t \in TimeoutTimestamp,
             sendPacket(c, h, t)
      PROVE  ClosedIsProvableOrTimedOut'
  <2> DEFINE p == [sequence |-> commitments[c].nextSequenceSend,
                   timeout_height |-> h, timeout_timestamp |-> t]
  <2>1. /\ commitments' = [commitments EXCEPT ![c] = withPacket(commitments[c], p)]
        /\ UNCHANGED <<channels, outcomes>> /\ p \in Packet
    BY <1>8 DEF sendPacket, Packet
  <2>2. \A d \in Chain : ChannelSame(d) /\ (Excused(d) => Excused(d)')
    BY <1>2, <1>7, <2>1, ChannelCommitmentSame, PacketAssumption DEF Excused
  <2> QED
    BY <1>3, <1>4, <2>2
<1>9. ASSUME NEW c \in Chain, NEW p \in Packet, NEW ack \in Acknowledgement \cup {EmptyAck},
             recvPacket(c, p, ack) \/ writeAcknowledgement(c, p, ack)
      PROVE  ClosedIsProvableOrTimedOut'
  <2>1. UNCHANGED <<channels, outcomes>>
    BY <1>9 DEF recvPacket, writeAcknowledgement
  <2>2. PICK store : /\ store.channel = commitments[c].channel
                     /\ commitments' = [commitments EXCEPT ![c] = store]
    <3>1. CASE recvPacket(c, p, ack)
      <4> DEFINE store == withAck(withReceipt(commitments[c], p.sequence), p.sequence, ack)
      <4>1. commitments' = [commitments EXCEPT ![c] = store]
        BY <3>1 DEF recvPacket
      <4>2. store.channel = commitments[c].channel
        BY <1>2, ChannelCommitmentSame, PacketAssumption
      <4> QED
        BY <4>1, <4>2
    <3>2. CASE writeAcknowledgement(c, p, ack)
      <4> DEFINE store == withAck(commitments[c], p.sequence, ack)
      <4>1. commitments' = [commitments EXCEPT ![c] = store]
        BY <3>2 DEF writeAcknowledgement
      <4>2. store.channel = commitments[c].channel
        BY <1>2, ChannelCommitmentSame, PacketAssumption
      <4> QED
        BY <4>1, <4>2
    <3> QED
      BY <1>9, <3>1, <3>2
  <2>3. \A d \in Chain : ChannelSame(d) /\ (Excused(d) => Excused(d)')
    BY <1>7, <2>1, <2>2 DEF Excused
  <2> QED
    BY <1>3, <1>4, <2>3
<1>10. ASSUME NEW c \in Chain, NEW p \in Packet, NEW ack \in Acknowledgement,
              acknowledgePacket(c, p, ack)
       PROVE  ClosedIsProvableOrTimedOut'
  <2>1. /\ commitments' = [commitments EXCEPT ![c] = withAcknowledged(commitments[c], p)]
        /\ UNCHANGED channels
    BY <1>10 DEF acknowledgePacket
  <2>2. \A d \in Chain : ChannelSame(d) /\ (Excused(d) => Excused(d)')
    BY <1>1, <1>2, <1>7, <1>10, <2>1, ChannelCommitmentSame, PacketAssumption DEF Outcome
  <2> QED
    BY <1>3, <1>4, <2>2
<1>11. ASSUME NEW c \in Chain, NEW p \in Packet, timeoutPacket(c, p)
       PROVE  ClosedIsProvableOrTimedOut'
  <2>1. /\ Resolves(c, p, TimedOut) /\ TimedOut \in Outcome
    BY <1>11, ResolvesOne DEF Outcome
  <2>2. Excused(c)'
    BY <2>1 DEF Resolves, Excused
  <2>3. \A d \in Chain : d # c => ChannelSame(d)
    BY <1>11 DEF timeoutPacket, TypeOK
  <2>4. \A d \in Chain : d # c => (Excused(d) => Excused(d)')
    BY <1>1, <1>11, <2>1
  <2> QED
    BY <1>3, <1>4, <2>2, <2>3, <2>4
<1>12. ASSUME NEW c \in Chain,
              channelOpenConfirm(c) \/ channelCloseInit(c) \/ channelCloseConfirm(c)
       PROVE  ClosedIsProvableOrTimedOut'
  BY <1>6, <1>12
     DEF channelOpenConfirm, channelCloseInit, channelCloseConfirm, ChannelState
<1> QED
  BY <1>5, <1>8, <1>9, <1>10, <1>11, <1>12 DEF Next, vars, packetVars

-----------------------------------------------------------------------------
(* What headers, receipts and acknowledgements say *)

(* A step takes back no packet that was sent and no acknowledgement.       *)
LEMMA NothingUnsaid ==
  ASSUME TypeOK, PacketAssumption, ResolvedExactlyOnce, [Next]_vars, NEW c \in Chain
  PROVE  Sent(c) \subseteq Sent(c)' /\ commitments[c].acks \subseteq commitments'[c].acks
<1>1. CASE StoresSame
  BY <1>1 DEF StoresSame, SameFields
<1>2. ASSUME NEW d \in Chain, NEW h \in TimeoutHeight, NEW t \in TimeoutTimestamp,
             sendPacket(d, h, t)
      PROVE  Sent(c) \subseteq Sent(c)' /\ commitments[c].acks \subseteq commitments'[c].acks
  <2>1. PICK p \in Packet :
           /\ Sent(d)' = Sent(d) \cup {p}
           /\ \A e \in Chain : e # d => Sent(e)' = Sent(e)
           /\ OtherFieldsSame(commitments[d], commitments'[d], {"packets", "nextSequenceSend"})
           /\ OnlyStoreOf(d)
    BY <1>2, Sends
  <2> QED
    BY <2>1 DEF OtherFieldsSame, OnlyStoreOf, SameFields
<1>3. ASSUME NEW d \in Chain, NEW p \in Packet, NEW ack \in Acknowledgement \cup {EmptyAck},
             \/ recvPacket(d, p, ack)
             \/ ack \in Acknowledgement /\ writeAcknowledgement(d, p, ack)
      PROVE  Sent(c) \subseteq Sent(c)' /\ commitments[c].acks \subseteq commitments'[c].acks
  BY <1>3, ReceiverWrites DEF OnlyStoreOf, SameFields
<1>4. ASSUME NEW d \in Chain, NEW p \in Packet, NEW outcome \in Outcome,
             \/ outcome \in Acknowledgement /\ acknowledgePacket(d, p, outcome)
             \/ outcome = TimedOut /\ timeoutPacket(d, p)
      PROVE  Sent(c) \subseteq Sent(c)' /\ commitments[c].acks \subseteq commitments'[c].acks
  BY <1>4, ResolvesOne DEF Resolves, OtherFieldsSame, OnlyStoreOf, SameFields
<1> QED
  BY <1>1, <1>2, <1>3, <1>4, Steps DEF SendStep

(* A header's root is a store as it was.                                   *)
LEMMA RootsStep ==
  ASSUME TypeOK, PacketAssumption, ResolvedExactlyOnce, RootsPast, [Next]_vars
  PROVE  RootsPast'
<1>1. \A c \in Chain : Sent(c) \subseteq Sent(c)' /\ commitments[c].acks \subseteq commitments'[c].acks
  BY NothingUnsaid
<1>2. CASE UNCHANGED headers
  BY <1>1, <1>2 DEF RootsPast
<1>3. ASSUME NEW c \in Chain, EndBlock(c, commitments[c]), UNCHANGED packetVars
      PROVE  RootsPast'
  <2>1. PICK hd : /\ hd.root = commitments[c]
                  /\ headers'[c] = headers[c] \cup {hd}
                  /\ \A d \in Chain : d # c => headers'[d] = headers[d]
    BY <1>3, BlockRoot
  <2>2. \A d \in Chain : \A g \in headers'[d] :
          g \in headers[d] \/ (d = c /\ g.root = commitments[c])
    BY <2>1
  <2>3. \A d \in Chain : \A g \in headers'[d] :
          g.root.packets \subseteq Sent(d) /\ g.root.acks \subseteq commitments[d].acks
    BY <2>2 DEF RootsPast, Sent
  <2>4. \A d \in Chain : \A g \in headers'[d] :
          g.root.packets \subseteq Sent(d)' /\ g.root.acks \subseteq commitments'[d].acks
    BY <1>1, <2>3
  <2> QED
    BY <2>4 DEF RootsPast
<1>4. CASE BlockStep
  BY <1>3, <1>4 DEF BlockStep
<1>5. CASE UpdateStep \/ QuietStep \/ SendStep \/ RecvStep \/ ResolveStep
  <2>1. UNCHANGED headers
    BY <1>5 DEF UpdateStep, updateClient, QuietStep, SendStep, sendPacket, RecvStep,
       recvPacket, ResolveStep, acknowledgePacket, timeoutPacket, clientVars
  <2> QED
    BY <1>2, <2>1
<1> QED
  BY <1>4, <1>5, StepKinds DEF Step

(* A delivery needs a proof that the packet was sent.                      *)
LEMMA DeliveredStep ==
  ASSUME TypeOK, PacketAssumption, ClientViewAssumption, ClientsBehind, ResolvedExactlyOnce,
         RootsPast, DeliveredWasSent, [Next]_vars
  PROVE  DeliveredWasSent'
<1>1. \A c \in Chain : Sent(c) \subseteq Sent(c)'
  BY NothingUnsaid
<1>2. CASE UNCHANGED onRecv
  BY <1>1, <1>2 DEF DeliveredWasSent
<1>3. ASSUME NEW d \in Chain, NEW p \in Packet, NEW ack \in Acknowledgement \cup {EmptyAck},
             recvPacket(d, p, ack)
      PROVE  DeliveredWasSent'
  <2> SUFFICES ASSUME NEW c \in Chain, NEW q \in Packet, onRecv'[counterparty(c)][q] > 0
               PROVE  q \in Sent(c)'
    BY DEF DeliveredWasSent, counterparty
  <2>1. /\ counterparty(c) \in Chain /\ counterparty(counterparty(c)) = c
        /\ counterparty(d) \in Chain
    BY TwoChains, ClientViewAssumption
  <2>2. CASE counterparty(c) = d /\ q = p
    <3>1. PICK cs \in consensus[d] : p \in cs.root.packets
      BY <1>3 DEF recvPacket
    <3>2. cs \in headers[c]
      BY <2>1, <2>2, <3>1 DEF ClientsBehind
    <3> QED
      BY <1>1, <2>2, <3>1, <3>2 DEF RootsPast
  <2>3. CASE ~(counterparty(c) = d /\ q = p)
    <3>1. onRecv[counterparty(c)][q] > 0
      BY <1>3, <2>1, <2>3, RecvCounts
    <3> QED
      BY <1>1, <3>1 DEF DeliveredWasSent
  <2> QED
    BY <2>2, <2>3
<1> QED
  BY <1>2, <1>3 DEF Next, vars, packetVars, channelOpenConfirm, channelCloseInit,
     channelCloseConfirm, sendPacket, writeAcknowledgement, acknowledgePacket, timeoutPacket

(* Deliveries are never taken back.                                        *)
LEMMA DeliveriesStay ==
  ASSUME TypeOK, [Next]_vars, NEW c \in Chain, NEW p \in Packet, onRecv[c][p] > 0
  PROVE  onRecv'[c][p] > 0
<1>1. ASSUME NEW d \in Chain, NEW q \in Packet, NEW ack \in Acknowledgement \cup {EmptyAck},
             recvPacket(d, q, ack)
      PROVE  onRecv'[c][p] > 0
  BY <1>1, RecvCounts
<1> QED
  BY <1>1 DEF Next, vars, packetVars, channelOpenConfirm, channelCloseInit,
     channelCloseConfirm, sendPacket, writeAcknowledgement, acknowledgePacket, timeoutPacket

(* An acknowledgement is of a packet that was delivered.                   *)
LEMMA AckStep ==
  ASSUME TypeOK, PacketAssumption, ResolvedExactlyOnce, AckWasDelivered, [Next]_vars
  PROVE  AckWasDelivered'
<1> SUFFICES ASSUME NEW c \in Chain, NEW a \in commitments'[c].acks
             PROVE  \E p \in Packet : p.sequence = a.sequence /\ onRecv'[c][p] > 0
  BY DEF AckWasDelivered
<1>1. CASE a \in commitments[c].acks
  BY <1>1, DeliveriesStay DEF AckWasDelivered
<1>2. ASSUME NEW d \in Chain, NEW p \in Packet, NEW ack \in Acknowledgement \cup {EmptyAck},
             \/ recvPacket(d, p, ack)
             \/ ack \in Acknowledgement /\ writeAcknowledgement(d, p, ack),
             a \notin commitments[c].acks
      PROVE  \E q \in Packet : q.sequence = a.sequence /\ onRecv'[c][q] > 0
  <2>1. /\ commitments'[d].acks = commitments[d].acks \cup
             IF ack = EmptyAck THEN {} ELSE {[sequence |-> p.sequence, ack |-> ack]}
        /\ OnlyStoreOf(d)
    BY <1>2, ReceiverWrites
  <2>2. c = d /\ a.sequence = p.sequence
    BY <1>2, <2>1 DEF OnlyStoreOf, SameFields
  <2>3. onRecv'[d][p] > 0
    <3>1. CASE recvPacket(d, p, ack)
      BY <3>1, RecvCounts
    <3>2. CASE writeAcknowledgement(d, p, ack)
      BY <3>2 DEF writeAcknowledgement
    <3> QED
      BY <1>2, <3>1, <3>2
  <2> QED
    BY <2>2, <2>3
<1>3. ASSUME StoresSame \/ SendStep PROVE commitments'[c].acks = commitments[c].acks
  <2>1. CASE StoresSame
    BY <2>1 DEF StoresSame, SameFields
  <2>2. CASE SendStep
    <3>1. PICK d \in Chain, h \in TimeoutHeight, t \in TimeoutTimestamp : sendPacket(d, h, t)
      BY <2>2 DEF SendStep
    <3>2. /\ OtherFieldsSame(commitments[d], commitments'[d], {"packets", "nextSequenceSend"})
          /\ OnlyStoreOf(d)
      BY <3>1, SendEffect
    <3> QED
      BY <3>2 DEF OtherFieldsSame, OnlyStoreOf, SameFields
  <2> QED
    BY <1>3, <2>1, <2>2
<1>4. ASSUME NEW d \in Chain, NEW p \in Packet, NEW outcome \in Outcome,
             \/ outcome \in Acknowledgement /\ acknowledgePacket(d, p, outcome)
             \/ outcome = TimedOut /\ timeoutPacket(d, p)
      PROVE  commitments'[c].acks = commitments[c].acks
  BY <1>4, ResolvesOne DEF Resolves, OtherFieldsSame, OnlyStoreOf, SameFields
<1> QED
  BY <1>1, <1>2, <1>3, <1>4, Steps

(* An acknowledgement is proven from a header of the receiving chain,      *)
(* which wrote it for this packet: no other has its sequence.              *)
LEMMA ProvenDelivered ==
  ASSUME TypeOK, ClientViewAssumption, ClientsBehind, ResolvedExactlyOnce, RootsPast,
         DeliveredWasSent, AckWasDelivered, NEW c \in Chain, NEW p \in Packet,
         NEW ack \in Acknowledgement, acknowledgePacket(c, p, ack)
  PROVE  /\ onRecv[counterparty(c)][p] > 0
         /\ [sequence |-> p.sequence, ack |-> ack] \in commitments[counterparty(c)].acks
<1> DEFINE a == [sequence |-> p.sequence, ack |-> ack]
<1>1. counterparty(c) \in Chain
  BY TwoChains
<1>2. PICK cs \in consensus[c] : a \in cs.root.acks
  BY DEF acknowledgePacket
<1>3. cs \in headers[counterparty(c)]
  BY <1>2 DEF ClientsBehind
<1>4. a \in commitments[counterparty(c)].acks
  BY <1>1, <1>2, <1>3 DEF RootsPast
<1>5. PICK q \in Packet : q.sequence = p.sequence /\ onRecv[counterparty(c)][q] > 0
  BY <1>1, <1>4 DEF AckWasDelivered
<1>6. q \in Sent(c) /\ p \in Sent(c)
  BY <1>5 DEF DeliveredWasSent, acknowledgePacket, Sent
<1>7. q = p
  BY <1>5, <1>6, OnePerSequence
<1> QED
  BY <1>4, <1>5, <1>7

(* A module is told an acknowledgement that was written for a delivery.    *)
LEMMA AcknowledgedStep ==
  ASSUME TypeOK, PacketAssumption, ClientViewAssumption, ClientsBehind, ResolvedExactlyOnce,
         RootsPast, DeliveredWasSent, AckWasDelivered, AcknowledgedWasWritten, [Next]_vars
  PROVE  AcknowledgedWasWritten'
<1> SUFFICES ASSUME NEW c \in Chain, NEW p \in Packet, WasAcknowledged(c, p)'
             PROVE  onRecv'[counterparty(c)][p] > 0 /\ acknowledged(counterparty(c), p.sequence)'
  BY DEF AcknowledgedWasWritten, counterparty
<1>1. counterparty(c) \in Chain
  BY TwoChains
<1>2. ASSUME onRecv[counterparty(c)][p] > 0, acknowledged(counterparty(c), p.sequence)
      PROVE  onRecv'[counterparty(c)][p] > 0 /\ acknowledged(counterparty(c), p.sequence)'
  <2>1. commitments[counterparty(c)].acks \subseteq commitments'[counterparty(c)].acks
    BY <1>1, NothingUnsaid
  <2>2. onRecv'[counterparty(c)][p] > 0
    BY <1>1, <1>2, DeliveriesStay
  <2>3. PICK a \in commitments[counterparty(c)].acks : a.sequence = p.sequence
    BY <1>2 DEF acknowledged
  <2>4. a \in commitments'[counterparty(c)].acks
    BY <2>1, <2>3
  <2>5. counterparty(c)' = counterparty(c)
    BY DEF counterparty
  <2> QED
    BY <2>2, <2>3, <2>4, <2>5 DEF acknowledged
<1>3. CASE WasAcknowledged(c, p)
  BY <1>2, <1>3 DEF AcknowledgedWasWritten
<1>4. CASE UNCHANGED outcomes
  BY <1>3, <1>4 DEF WasAcknowledged
<1>5. ASSUME NEW d \in Chain, NEW q \in Packet, NEW outcome \in Outcome,
             \/ outcome \in Acknowledgement /\ acknowledgePacket(d, q, outcome)
             \/ outcome = TimedOut /\ timeoutPacket(d, q),
             ~WasAcknowledged(c, p)
      PROVE  onRecv'[counterparty(c)][p] > 0 /\ acknowledged(counterparty(c), p.sequence)'
  <2>1. Resolves(d, q, outcome)
    BY <1>5, ResolvesOne
  <2>2. d = c /\ q = p
    BY <1>5, <2>1 DEF Resolves, WasAcknowledged
  <2>3. outcome # TimedOut
    <3>1. outcomes'[c][p] = <<outcome>> /\ <<outcome>>[1] = outcome
      BY <2>1, <2>2 DEF Resolves
    <3> QED
      BY <3>1 DEF WasAcknowledged
  <2>4. acknowledgePacket(c, p, outcome) /\ outcome \in Acknowledgement
    BY <1>5, <2>2, <2>3
  <2>5. /\ onRecv[counterparty(c)][p] > 0
        /\ [sequence |-> p.sequence, ack |-> outcome] \in commitments[counterparty(c)].acks
    BY <2>4, ProvenDelivered
  <2> QED
    BY <1>2, <2>5 DEF acknowledged
<1>6. CASE StoresSame
  BY <1>4, <1>6 DEF StoresSame
<1>7. CASE SendStep
  BY <1>4, <1>7 DEF SendStep, sendPacket
<1>8. ASSUME NEW d \in Chain, NEW q \in Packet, NEW ack \in Acknowledgement \cup {EmptyAck},
             recvPacket(d, q, ack) \/ writeAcknowledgement(d, q, ack)
      PROVE  UNCHANGED outcomes
  BY <1>8 DEF recvPacket, writeAcknowledgement
<1> QED
  BY <1>3, <1>4, <1>5, <1>6, <1>7, <1>8, Steps

-----------------------------------------------------------------------------
(* The invariant and its theorems *)

(* It holds at first: nothing was sent.                                    *)
LEMMA InitOutcomes == ASSUME Init PROVE OutcomeInv
<1>1. \A c \in Chain :
        /\ commitments[c].packets = {} /\ commitments[c].acks = {}
        /\ commitments[c].nextSequenceSend = 1 /\ commitments[c].nextSequenceRecv = 1
        /\ commitments[c].nextSequenceAck = 1
        /\ channels[c] # "CLOSED"
  BY DEF Init, InitStore
<1>2. \A c \in Chain, p \in Packet : outcomes[c][p] = <<>> /\ onRecv[c][p] = 0
  BY DEF Init
<1>3. \A c \in Chain : \A hd \in headers[c] : hd.root.packets = {} /\ hd.root.acks = {}
  <2> DEFINE root == [d \in Chain |-> InitStore(IF d = ChainA THEN "INIT" ELSE "TRYOPEN")]
  <2>1. headers = [c \in Chain |-> {FirstHeader(c, root[c])}]
    BY DEF Init, InitClientView
  <2>2. \A c \in Chain : root[c].packets = {} /\ root[c].acks = {}
    BY DEF InitStore
  <2>3. \A c \in Chain : FirstHeader(c, root[c]).root = root[c]
    BY DEF FirstHeader
  <2> QED
    BY <2>1, <2>2, <2>3
<1>4. 1..(1 - 1) = {}
  OBVIOUS
<1>5. ResolvedExactlyOnce
  BY <1>1, <1>2, <1>4 DEF ResolvedExactlyOnce
<1>6. OrderedDelivery
  BY <1>1, <1>2, <1>4 DEF OrderedDelivery
<1>7. ClosedIsProvableOrTimedOut /\ RootsPast /\ AckWasDelivered
  BY <1>1, <1>3 DEF ClosedIsProvableOrTimedOut, RootsPast, AckWasDelivered
<1>8. DeliveredWasSent /\ AcknowledgedWasWritten
  BY <1>2, TwoChains DEF DeliveredWasSent, AcknowledgedWasWritten, WasAcknowledged
<1> QED
  BY <1>5, <1>6, <1>7, <1>8 DEF OutcomeInv

(* With IInv it is inductive.                                              *)
LEMMA OutcomeStep ==
  ASSUME IInv, OutcomeInv, ClientViewAssumption, PacketAssumption, [Next]_vars
  PROVE  OutcomeInv'
<1>1. /\ TypeOK /\ ClientsBehind
      /\ ResolvedExactlyOnce /\ OrderedDelivery /\ ClosedIsProvableOrTimedOut
      /\ RootsPast /\ DeliveredWasSent /\ AckWasDelivered /\ AcknowledgedWasWritten
  BY DEF IInv, DeliveryInv, OutcomeInv
<1>2. ResolvedExactlyOnce' /\ ClosedIsProvableOrTimedOut'
  BY <1>1, ResolvedStep, ClosedStep, PacketAssumption
<1>3. OrderedDelivery'
  BY <1>1, OrderedStep, PacketAssumption
<1>4. RootsPast' /\ AckWasDelivered'
  BY <1>1, RootsStep, AckStep, PacketAssumption
<1>5. DeliveredWasSent' /\ AcknowledgedWasWritten'
  BY <1>1, DeliveredStep, AcknowledgedStep, PacketAssumption, ClientViewAssumption
<1> QED
  BY <1>2, <1>3, <1>4, <1>5 DEF OutcomeInv

(* What stores, roots, deliveries and outcomes say of each other, in every *)
(* reachable state.                                                        *)
THEOREM OutcomesHold == Spec => []OutcomeInv
<1>1. Init => OutcomeInv
  BY InitOutcomes
<1>2. IInv /\ OutcomeInv /\ [Next]_vars => OutcomeInv'
  BY OutcomeStep, ClientViewAssumption, PacketAssumption
<1> QED
  BY <1>1, <1>2, InvariantHolds, PTL DEF Spec

(* Every packet sendPacket commits is unanswered and committed, or its     *)
(* commitment is deleted and its module was told one outcome, and no two   *)
(* packets share a sequence.                                               *)
THEOREM PacketsResolved == Spec => []ResolvedExactlyOnce
<1>1. OutcomeInv => ResolvedExactlyOnce
  BY DEF OutcomeInv
<1> QED
  BY <1>1, OutcomesHold, PTL

(* On an ordered channel recvPacket delivers, and acknowledgePacket        *)
(* answers, the first packets that were sent and no others.                *)
THEOREM DeliveredInOrder == Spec => []OrderedDelivery
<1>1. OutcomeInv => OrderedDelivery
  BY DEF OutcomeInv
<1> QED
  BY <1>1, OutcomesHold, PTL

(* An end whose closing the other chain cannot be shown is one a timeout   *)
(* closed.                                                                 *)
THEOREM ClosingIsProvable == Spec => []ClosedIsProvableOrTimedOut
<1>1. OutcomeInv => ClosedIsProvableOrTimedOut
  BY DEF OutcomeInv
<1> QED
  BY <1>1, OutcomesHold, PTL

-----------------------------------------------------------------------------
(* On an unordered channel the handlers implement PacketLifecycle *)

(* A packet's stage and answer, by what decides them.                      *)
StageFor(told, handed, p, packets) ==
  CASE TimedOut \in {told[i] : i \in DOMAIN told} -> "timedOut"
    [] told # <<>> /\ told[1] # TimedOut -> "acknowledged"
    [] told = <<>> /\ handed > 0 -> "delivered"
    [] OTHER -> IF p \in packets THEN "inFlight" ELSE "unsent"

Written(seq, acks) == {a \in acks : a.sequence = seq}

AnswerFor(handed, written) ==
  IF handed > 0 /\ written # {} THEN (CHOOSE a \in written : TRUE).ack ELSE EmptyAck

Stages == [c \in Chain |-> [p \in Packet |-> stageOf(c, p)]]
Answers == [c \in Chain |-> [p \in Packet |-> answerOf(c, p)]]

(* They are decided so before and after a step.                            *)
LEMMA StageIs ==
  ASSUME NEW c, NEW p
  PROVE  /\ stageOf(c, p) = StageFor(outcomes[c][p], onRecv[counterparty(c)][p],
                                     p, commitments[c].packets)
         /\ stageOf(c, p)' = StageFor(outcomes'[c][p], onRecv'[counterparty(c)][p],
                                      p, commitments'[c].packets)
BY DEF stageOf, StageFor, counterparty

(* So is the answer to it.                                                 *)
LEMMA AnswerIs ==
  ASSUME NEW c, NEW p
  PROVE  /\ answerOf(c, p) = AnswerFor(onRecv[counterparty(c)][p],
                               Written(p.sequence, commitments[counterparty(c)].acks))
         /\ answerOf(c, p)' = AnswerFor(onRecv'[counterparty(c)][p],
                                Written(p.sequence, commitments'[counterparty(c)].acks))
BY DEF answerOf, AnswerFor, Written, counterparty

(* What decides them being the same, so are they.                          *)
LEMMA SameStage ==
  ASSUME NEW c, NEW p, outcomes'[c][p] = outcomes[c][p],
         onRecv'[counterparty(c)][p] = onRecv[counterparty(c)][p],
         p \in commitments'[c].packets <=> p \in commitments[c].packets
  PROVE  stageOf(c, p)' = stageOf(c, p)
BY StageIs DEF StageFor

(* The stages a packet goes through.                                       *)
LEMMA StageValues ==
  ASSUME NEW told, NEW handed, NEW p, NEW packets
  PROVE  /\ told = <<TimedOut>> => StageFor(told, handed, p, packets) = "timedOut"
         /\ \A o : told = <<o>> /\ o # TimedOut =>
              StageFor(told, handed, p, packets) = "acknowledged"
         /\ told = <<>> /\ handed > 0 => StageFor(told, handed, p, packets) = "delivered"
         /\ told = <<>> /\ ~(handed > 0) /\ p \in packets =>
              StageFor(told, handed, p, packets) = "inFlight"
         /\ told = <<>> /\ ~(handed > 0) /\ p \notin packets =>
              StageFor(told, handed, p, packets) = "unsent"
<1>1. \A x : /\ <<x>> # <<>> /\ <<x>>[1] = x
             /\ {<<x>>[i] : i \in DOMAIN <<x>>} = {x}
  <2> TAKE x
  <2>1. DOMAIN <<x>> = {1} /\ <<x>>[1] = x
    OBVIOUS
  <2> QED
    BY <2>1
<1>2. {(<<>>)[i] : i \in DOMAIN <<>>} = {}
  <2>1. DOMAIN <<>> = {}
    OBVIOUS
  <2> QED
    BY <2>1
<1>3. told = <<TimedOut>> => StageFor(told, handed, p, packets) = "timedOut"
  BY <1>1 DEF StageFor
<1>4. ASSUME NEW o, told = <<o>>, o # TimedOut
      PROVE  StageFor(told, handed, p, packets) = "acknowledged"
  BY <1>1, <1>4 DEF StageFor
<1>5. told = <<>> =>
        StageFor(told, handed, p, packets) =
          IF handed > 0 THEN "delivered" ELSE IF p \in packets THEN "inFlight" ELSE "unsent"
  BY <1>2 DEF StageFor
<1> QED
  BY <1>3, <1>4, <1>5

(* The answer that was written, or none.                                   *)
LEMMA AnswerValues ==
  ASSUME NEW handed, NEW written
  PROVE  /\ written = {} \/ ~(handed > 0) => AnswerFor(handed, written) = EmptyAck
         /\ handed > 0 /\ written # {} =>
              \E a \in written : AnswerFor(handed, written) = a.ack
BY DEF AnswerFor

(* A change of one packet is a change of the function at one place.        *)
LEMMA OneMoves ==
  ASSUME NEW c \in Chain, NEW p \in Packet, NEW x,
         \A d \in Chain, q \in Packet :
           stageOf(d, q)' = IF d = c /\ q = p THEN x ELSE stageOf(d, q)
  PROVE  Stages' = [Stages EXCEPT ![c][p] = x]
BY DEF Stages

(* So is a change of one answer.                                           *)
LEMMA OneAnswered ==
  ASSUME NEW c \in Chain, NEW p \in Packet, NEW x,
         \A d \in Chain, q \in Packet :
           answerOf(d, q)' = IF d = c /\ q = p THEN x ELSE answerOf(d, q)
  PROVE  Answers' = [Answers EXCEPT ![c][p] = x]
BY DEF Answers

(* And no change is none.                                                  *)
LEMMA NoneMoves ==
  ASSUME \A d \in Chain, q \in Packet : stageOf(d, q)' = stageOf(d, q)
  PROVE  Stages' = Stages
BY DEF Stages

(* Of the answers either.                                                  *)
LEMMA NoneAnswered ==
  ASSUME \A d \in Chain, q \in Packet : answerOf(d, q)' = answerOf(d, q)
  PROVE  Answers' = Answers
BY DEF Answers

(* A module was told nothing yet, or one thing.                            *)
LEMMA ToldOnce ==
  ASSUME TypeOK, ResolvedExactlyOnce, NEW c \in Chain, NEW p \in Packet
  PROVE  outcomes[c][p] = <<>> \/ \E o \in Outcome : outcomes[c][p] = <<o>>
<1>1. outcomes[c][p] \in Seq(Outcome)
  BY DEF TypeOK
<1>2. outcomes[c][p] # <<>> => Len(outcomes[c][p]) = 1
  BY DEF ResolvedExactlyOnce
<1>3. \A s \in Seq(Outcome) : Len(s) = 1 => s[1] \in Outcome /\ s = <<s[1]>>
  OBVIOUS
<1> QED
  BY <1>1, <1>2, <1>3

(* Blocks, clients and the channel's own handlers move no packet.          *)
LEMMA QuietMoves ==
  ASSUME StoresSame PROVE UNCHANGED <<Stages, Answers>>
<1>1. \A c \in Chain : counterparty(c) \in Chain
  BY TwoChains
<1>2. \A c \in Chain, p \in Packet : stageOf(c, p)' = stageOf(c, p)
  BY StageIs DEF StoresSame, SameFields
<1>3. \A c \in Chain, p \in Packet : answerOf(c, p)' = answerOf(c, p)
  BY <1>1, AnswerIs DEF StoresSame, SameFields
<1> QED
  BY <1>2, <1>3, NoneMoves, NoneAnswered

(* sendPacket is Send: nothing of that sequence was sent before.           *)
LEMMA SendMoves ==
  ASSUME TypeOK, PacketAssumption, OutcomeInv, NEW c \in Chain,
         NEW h \in TimeoutHeight, NEW t \in TimeoutTimestamp, sendPacket(c, h, t)
  PROVE  \E p \in Packet : Lifecycle!Send(c, p)
<1>0. ResolvedExactlyOnce /\ DeliveredWasSent
  BY DEF OutcomeInv
<1>1. PICK p \in Packet :
        /\ \A q \in Sent(c) : q.sequence # p.sequence
        /\ commitments'[c].packets = commitments[c].packets \cup {p}
        /\ OtherFieldsSame(commitments[c], commitments'[c], {"packets", "nextSequenceSend"})
        /\ OnlyStoreOf(c)
        /\ UNCHANGED <<onRecv, outcomes>>
  BY <1>0, Sends
<1>2. \A d \in Chain : counterparty(d) \in Chain
  BY TwoChains
<1>3. \A d \in Chain : commitments'[d].acks = commitments[d].acks
  BY <1>1 DEF OtherFieldsSame, OnlyStoreOf, SameFields
<1>4. \A q \in Packet : q.sequence = p.sequence =>
        /\ outcomes[c][q] = <<>> /\ ~(onRecv[counterparty(c)][q] > 0)
        /\ q \notin commitments[c].packets
  BY <1>0, <1>1 DEF Sent, DeliveredWasSent
<1>5. \A q \in Packet : q.sequence = p.sequence => stageOf(c, q) = "unsent"
  BY <1>4, StageIs, StageValues
<1>6. stageOf(c, p)' = "inFlight"
  BY <1>1, <1>4, StageIs, StageValues
<1>7. \A d \in Chain, q \in Packet : ~(d = c /\ q = p) =>
        (q \in commitments'[d].packets <=> q \in commitments[d].packets)
  BY <1>1 DEF OnlyStoreOf, SameFields
<1>8. \A d \in Chain, q \in Packet : ~(d = c /\ q = p) => stageOf(d, q)' = stageOf(d, q)
  BY <1>1, <1>2, <1>7, SameStage
<1>9. \A d \in Chain, q \in Packet : answerOf(d, q)' = answerOf(d, q)
  BY <1>1, <1>2, <1>3, AnswerIs
<1>10. Stages' = [Stages EXCEPT ![c][p] = "inFlight"]
  BY <1>6, <1>8, OneMoves
<1>11. Answers' = Answers
  BY <1>9, NoneAnswered
<1>12. Lifecycle!Send(c, p)
  BY <1>5, <1>10, <1>11 DEF Lifecycle!Send, Lifecycle!move, Stages, Answers
<1> QED
  BY <1>12

(* recvPacket is Deliver, by the other chain's name for the packet: it is  *)
(* committed, as it was sent and neither acknowledged nor timed out.       *)
LEMMA RecvMoves ==
  ASSUME IInv, IInv', OutcomeInv, ClientViewAssumption, PacketAssumption,
         Ordering = "ORDER_UNORDERED", NEW d \in Chain, NEW p \in Packet,
         NEW ack \in Acknowledgement \cup {EmptyAck}, recvPacket(d, p, ack)
  PROVE  Lifecycle!Deliver(counterparty(d), p, ack)
<1> DEFINE c == counterparty(d)
<1>0. /\ TypeOK /\ ClientsBehind /\ ReceivedIsRecorded
      /\ ResolvedExactlyOnce /\ RootsPast /\ AckWasDelivered /\ AcknowledgedWasWritten
      /\ TimedOutNeverDelivered'
  BY DEF IInv, DeliveryInv, TimeoutInv, OutcomeInv
<1>1. /\ c \in Chain /\ counterparty(c) = d
      /\ \A e \in Chain : counterparty(e) \in Chain /\ (counterparty(e) = d => e = c)
  BY TwoChains
<1> HIDE DEF c
<1>2. /\ commitments'[d].acks = commitments[d].acks \cup
           IF ack = EmptyAck THEN {} ELSE {[sequence |-> p.sequence, ack |-> ack]}
      /\ OtherFieldsSame(commitments[d], commitments'[d],
                         {"receipts", "nextSequenceRecv", "acks"})
      /\ OnlyStoreOf(d)
      /\ UNCHANGED <<clientVars, channels, outcomes>>
  BY <1>0, ReceiverWrites
<1>3. /\ onRecv[d][p] \in Nat /\ onRecv'[d][p] = onRecv[d][p] + 1
      /\ \A e \in Chain, q \in Packet : ~(e = d /\ q = p) => onRecv'[e][q] = onRecv[e][q]
  BY <1>0, RecvCounts
<1>4. \A q \in Packet : q.sequence = p.sequence => ~(onRecv[d][q] > 0)
  BY <1>0 DEF recvPacket, receiptAllowed, ReceivedIsRecorded
<1>5. p \in Sent(c)
  <2>1. PICK cs \in consensus[d] : p \in cs.root.packets
    BY DEF recvPacket
  <2>2. cs \in headers[c]
    BY <1>0, <2>1 DEF ClientsBehind, c
  <2> QED
    BY <1>0, <1>1, <2>1, <2>2 DEF RootsPast
<1>6. outcomes[c][p] = <<>>
  <2>1. CASE outcomes[c][p] = <<TimedOut>>
    <3>1. 1 \in DOMAIN outcomes'[c][p] /\ outcomes'[c][p][1] = TimedOut
      BY <1>2, <2>1
    <3>2. onRecv'[d][p] = 0
      BY <1>0, <1>1, <3>1 DEF TimedOutNeverDelivered, counterparty
    <3> QED
      BY <1>3, <3>2
  <2>2. ASSUME NEW o \in Outcome, outcomes[c][p] = <<o>>, o # TimedOut
        PROVE  FALSE
    <3>1. <<o>> # <<>> /\ <<o>>[1] = o
      OBVIOUS
    <3>2. WasAcknowledged(c, p)
      BY <2>2, <3>1 DEF WasAcknowledged
    <3> QED
      BY <1>0, <1>1, <1>4, <3>2 DEF AcknowledgedWasWritten
  <2> QED
    BY <1>0, <1>1, <2>1, <2>2, ToldOnce
<1>7. p \in commitments[c].packets
  BY <1>5, <1>6 DEF Sent
<1>8. stageOf(c, p) = "inFlight"
  BY <1>1, <1>4, <1>6, <1>7, StageIs, StageValues
<1>9. stageOf(c, p)' = "delivered"
  <2>1. onRecv'[d][p] > 0
    BY <1>3
  <2>2. outcomes'[c][p] = <<>>
    BY <1>2, <1>6
  <2> QED
    BY <1>1, <2>1, <2>2, StageIs, StageValues
<1>10. \A e \in Chain, q \in Packet : ~(e = c /\ q = p) => stageOf(e, q)' = stageOf(e, q)
  <2> TAKE e \in Chain, q \in Packet
  <2> HAVE ~(e = c /\ q = p)
  <2>1. onRecv'[counterparty(e)][q] = onRecv[counterparty(e)][q]
    BY <1>1, <1>3
  <2>2. commitments'[e].packets = commitments[e].packets
    BY <1>2 DEF OtherFieldsSame, OnlyStoreOf, SameFields
  <2> QED
    BY <1>2, <2>1, <2>2, SameStage
<1>11. Written(p.sequence, commitments[d].acks) = {}
  BY <1>0, <1>4 DEF AckWasDelivered, Written
<1>12. answerOf(c, p)' = ack
  <2>1. onRecv'[d][p] > 0
    BY <1>3
  <2>2. CASE ack = EmptyAck
    <3>1. Written(p.sequence, commitments'[d].acks) = {}
      BY <1>2, <1>11, <2>2
    <3> QED
      BY <1>1, <2>2, <3>1, AnswerIs, AnswerValues
  <2>3. CASE ack # EmptyAck
    <3>1. Written(p.sequence, commitments'[d].acks) = {[sequence |-> p.sequence, ack |-> ack]}
      BY <1>2, <1>11, <2>3 DEF Written
    <3>2. Written(p.sequence, commitments'[d].acks) # {}
      BY <3>1
    <3>3. PICK a \in Written(p.sequence, commitments'[d].acks) : answerOf(c, p)' = a.ack
      BY <1>1, <2>1, <3>2, AnswerIs, AnswerValues
    <3> QED
      BY <3>1, <3>3
  <2> QED
    BY <2>2, <2>3
<1>13. \A e \in Chain, q \in Packet : ~(e = c /\ q = p) => answerOf(e, q)' = answerOf(e, q)
  <2> TAKE e \in Chain, q \in Packet
  <2> HAVE ~(e = c /\ q = p)
  <2>1. onRecv'[counterparty(e)][q] = onRecv[counterparty(e)][q]
    BY <1>1, <1>3
  <2>2. CASE e # c
    <3>1. commitments'[counterparty(e)].acks = commitments[counterparty(e)].acks
      BY <1>1, <1>2, <2>2 DEF OnlyStoreOf, SameFields
    <3> QED
      BY <2>1, <3>1, AnswerIs
  <2>3. CASE e = c /\ q.sequence = p.sequence
    <3>1. ~(onRecv[d][q] > 0) /\ ~(onRecv'[d][q] > 0)
      BY <1>1, <1>4, <2>1, <2>3
    <3> QED
      BY <1>1, <2>3, <3>1, AnswerIs, AnswerValues
  <2>4. CASE e = c /\ q.sequence # p.sequence
    <3>1. Written(q.sequence, commitments'[d].acks) = Written(q.sequence, commitments[d].acks)
      BY <1>2, <2>4 DEF Written
    <3> QED
      BY <1>1, <2>1, <2>4, <3>1, AnswerIs
  <2> QED
    BY <2>2, <2>3, <2>4
<1>14. Stages' = [Stages EXCEPT ![c][p] = "delivered"]
  BY <1>1, <1>9, <1>10, OneMoves
<1>15. Answers' = [Answers EXCEPT ![c][p] = ack]
  BY <1>1, <1>12, <1>13, OneAnswered
<1> QED
  BY <1>1, <1>8, <1>14, <1>15
     DEF Lifecycle!Deliver, Lifecycle!move, Stages, Answers, c

(* writeAcknowledgement is Answer: the packet it answers was delivered and *)
(* its sender told nothing.                                                *)
LEMMA AnswerMoves ==
  ASSUME IInv, OutcomeInv, ClientViewAssumption, PacketAssumption,
         Ordering = "ORDER_UNORDERED", NEW d \in Chain, NEW p \in Packet,
         NEW ack \in Acknowledgement, writeAcknowledgement(d, p, ack)
  PROVE  Lifecycle!Answer(counterparty(d), p, ack)
<1> DEFINE c == counterparty(d)
<1>0. /\ TypeOK /\ ExactlyOnceDelivery /\ TimedOutNeverDelivered
      /\ ResolvedExactlyOnce /\ AcknowledgedWasWritten
  BY DEF IInv, DeliveryInv, TimeoutInv, OutcomeInv
<1>1. /\ c \in Chain /\ counterparty(c) = d
      /\ \A e \in Chain : counterparty(e) \in Chain /\ (counterparty(e) = d => e = c)
  BY TwoChains
<1> HIDE DEF c
<1>2. /\ commitments'[d].acks = commitments[d].acks \cup {[sequence |-> p.sequence, ack |-> ack]}
      /\ OtherFieldsSame(commitments[d], commitments'[d],
                         {"receipts", "nextSequenceRecv", "acks"})
      /\ OnlyStoreOf(d)
      /\ UNCHANGED <<clientVars, channels, outcomes>>
  <2>1. ack # EmptyAck
    BY PacketAssumption DEF PacketAssumption
  <2> QED
    BY <1>0, <2>1, ReceiverWrites
<1>3. onRecv[d][p] > 0 /\ UNCHANGED onRecv
  BY DEF writeAcknowledgement
<1>4. Written(p.sequence, commitments[d].acks) = {}
  BY DEF writeAcknowledgement, acknowledged, Written
<1>5. outcomes[c][p] = <<>>
  <2>1. CASE outcomes[c][p] = <<TimedOut>>
    <3>1. 1 \in DOMAIN outcomes[c][p] /\ outcomes[c][p][1] = TimedOut
      BY <2>1
    <3>2. onRecv[d][p] = 0
      BY <1>0, <1>1, <3>1 DEF TimedOutNeverDelivered
    <3> QED
      BY <1>3, <3>2
  <2>2. ASSUME NEW o \in Outcome, outcomes[c][p] = <<o>>, o # TimedOut
        PROVE  FALSE
    <3>1. <<o>> # <<>> /\ <<o>>[1] = o
      OBVIOUS
    <3>2. WasAcknowledged(c, p)
      BY <2>2, <3>1 DEF WasAcknowledged
    <3>3. acknowledged(d, p.sequence)
      BY <1>0, <1>1, <3>2 DEF AcknowledgedWasWritten
    <3> QED
      BY <3>3 DEF writeAcknowledgement
  <2> QED
    BY <1>0, <1>1, <2>1, <2>2, ToldOnce
<1>6. stageOf(c, p) = "delivered" /\ answerOf(c, p) = EmptyAck
  <2>1. stageOf(c, p) = "delivered"
    BY <1>1, <1>3, <1>5, StageIs, StageValues
  <2>2. answerOf(c, p) = EmptyAck
    BY <1>1, <1>4, AnswerIs, AnswerValues
  <2> QED
    BY <2>1, <2>2
<1>7. \A e \in Chain, q \in Packet : stageOf(e, q)' = stageOf(e, q)
  <2>1. \A e \in Chain : commitments'[e].packets = commitments[e].packets
    BY <1>2 DEF OtherFieldsSame, OnlyStoreOf, SameFields
  <2> QED
    BY <1>2, <1>3, <2>1, SameStage
<1>8. answerOf(c, p)' = ack
  <2>1. Written(p.sequence, commitments'[d].acks) = {[sequence |-> p.sequence, ack |-> ack]}
    BY <1>2, <1>4 DEF Written
  <2>2. Written(p.sequence, commitments'[d].acks) # {}
    BY <2>1
  <2>3. PICK a \in Written(p.sequence, commitments'[d].acks) : answerOf(c, p)' = a.ack
    BY <1>1, <1>3, <2>2, AnswerIs, AnswerValues
  <2> QED
    BY <2>1, <2>3
<1>9. \A e \in Chain, q \in Packet : ~(e = c /\ q = p) => answerOf(e, q)' = answerOf(e, q)
  <2> TAKE e \in Chain, q \in Packet
  <2> HAVE ~(e = c /\ q = p)
  <2>1. CASE e # c
    <3>1. commitments'[counterparty(e)].acks = commitments[counterparty(e)].acks
      BY <1>1, <1>2, <2>1 DEF OnlyStoreOf, SameFields
    <3> QED
      BY <1>3, <3>1, AnswerIs
  <2>2. CASE e = c /\ q.sequence = p.sequence
    <3>1. ~(onRecv[d][q] > 0)
      BY <1>0, <1>3, <2>2 DEF ExactlyOnceDelivery
    <3> QED
      BY <1>1, <1>3, <2>2, <3>1, AnswerIs, AnswerValues
  <2>3. CASE e = c /\ q.sequence # p.sequence
    <3>1. Written(q.sequence, commitments'[d].acks) = Written(q.sequence, commitments[d].acks)
      BY <1>2, <2>3 DEF Written
    <3> QED
      BY <1>1, <1>3, <2>3, <3>1, AnswerIs
  <2> QED
    BY <2>1, <2>2, <2>3
<1>10. Stages' = Stages
  BY <1>7, NoneMoves
<1>11. Answers' = [Answers EXCEPT ![c][p] = ack]
  BY <1>1, <1>8, <1>9, OneAnswered
<1> QED
  BY <1>1, <1>6, <1>10, <1>11 DEF Lifecycle!Answer, Stages, Answers, c

(* acknowledgePacket is Acknowledge and timeoutPacket Expire.              *)
LEMMA ResolveMoves ==
  ASSUME IInv, IInv', OutcomeInv, ClientViewAssumption, PacketAssumption,
         Ordering = "ORDER_UNORDERED", NEW c \in Chain, NEW p \in Packet,
         NEW outcome \in Outcome,
         \/ outcome \in Acknowledgement /\ acknowledgePacket(c, p, outcome)
         \/ outcome = TimedOut /\ timeoutPacket(c, p)
  PROVE  Lifecycle!Acknowledge(c, p) \/ Lifecycle!Expire(c, p)
<1> DEFINE d == counterparty(c)
<1>0. /\ TypeOK /\ ClientsBehind /\ TimedOutNeverDelivered'
      /\ ResolvedExactlyOnce /\ RootsPast /\ DeliveredWasSent /\ AckWasDelivered
  BY DEF IInv, DeliveryInv, TimeoutInv, OutcomeInv
<1>1. d \in Chain /\ \A e \in Chain : counterparty(e) \in Chain
  BY TwoChains
<1> HIDE DEF d
<1>2. Resolves(c, p, outcome)
  BY <1>0, ResolvesOne
<1>3. /\ p \in commitments[c].packets /\ outcomes[c][p] = <<>>
      /\ outcomes'[c][p] = <<outcome>> /\ UNCHANGED onRecv
  BY <1>2 DEF Resolves
<1>4. \A e \in Chain, q \in Packet : ~(e = c /\ q = p) => stageOf(e, q)' = stageOf(e, q)
  <2>1. \A e \in Chain, q \in Packet : ~(e = c /\ q = p) =>
          /\ q \in commitments'[e].packets <=> q \in commitments[e].packets
          /\ outcomes'[e][q] = outcomes[e][q]
    BY <1>2 DEF Resolves, OnlyStoreOf, SameFields
  <2> QED
    BY <1>3, <2>1, SameStage
<1>5. \A e \in Chain, q \in Packet : answerOf(e, q)' = answerOf(e, q)
  <2>1. \A e \in Chain : commitments'[e].acks = commitments[e].acks
    BY <1>2 DEF Resolves, OtherFieldsSame, OnlyStoreOf, SameFields
  <2> QED
    BY <1>1, <1>3, <2>1, AnswerIs
<1>6. Answers' = Answers
  BY <1>5, NoneAnswered
<1>7. ASSUME NEW ack \in Acknowledgement, outcome = ack, acknowledgePacket(c, p, ack)
      PROVE  Lifecycle!Acknowledge(c, p)
  <2>1. /\ onRecv[d][p] > 0
        /\ [sequence |-> p.sequence, ack |-> ack] \in commitments[d].acks
    BY <1>0, <1>7, ProvenDelivered DEF d
  <2>2. stageOf(c, p) = "delivered"
    BY <1>3, <2>1, StageIs, StageValues DEF d
  <2>3. ack # TimedOut
    BY PacketAssumption DEF PacketAssumption
  <2>4. stageOf(c, p)' = "acknowledged"
    <3>1. outcomes'[c][p] = <<ack>>
      BY <1>3, <1>7
    <3>2. stageOf(c, p)' = StageFor(outcomes'[c][p], onRecv'[counterparty(c)][p],
                                    p, commitments'[c].packets)
      BY StageIs
    <3> QED
      BY <2>3, <3>1, <3>2, StageValues
  <2>5. answerOf(c, p) # EmptyAck
    <3>1. Written(p.sequence, commitments[d].acks) # {}
      BY <2>1 DEF Written
    <3>2. PICK a \in Written(p.sequence, commitments[d].acks) : answerOf(c, p) = a.ack
      BY <2>1, <3>1, AnswerIs, AnswerValues DEF d
    <3>3. a.ack \in Acknowledgement
      BY <1>0, <1>1, <3>2 DEF Written, TypeOK, Store
    <3> QED
      BY <3>2, <3>3, PacketAssumption DEF PacketAssumption
  <2>6. Stages' = [Stages EXCEPT ![c][p] = "acknowledged"]
    BY <1>4, <2>4, OneMoves
  <2> QED
    BY <1>6, <2>2, <2>5, <2>6 DEF Lifecycle!Acknowledge, Lifecycle!move, Stages, Answers
<1>8. ASSUME outcome = TimedOut, timeoutPacket(c, p)
      PROVE  Lifecycle!Expire(c, p)
  <2>1. 1 \in DOMAIN outcomes'[c][p] /\ outcomes'[c][p][1] = TimedOut
    BY <1>3, <1>8
  <2>2. onRecv'[d][p] = 0
    BY <1>0, <2>1 DEF TimedOutNeverDelivered, counterparty, d
  <2>3. stageOf(c, p) = "inFlight"
    <3>1. ~(onRecv[d][p] > 0)
      BY <1>3, <2>2
    <3> QED
      BY <1>3, <3>1, StageIs, StageValues DEF d
  <2>4. stageOf(c, p)' = "timedOut"
    <3>1. outcomes'[c][p] = <<TimedOut>>
      BY <1>3, <1>8
    <3>2. stageOf(c, p)' = StageFor(outcomes'[c][p], onRecv'[counterparty(c)][p],
                                    p, commitments'[c].packets)
      BY StageIs
    <3> QED
      BY <3>1, <3>2, StageValues
  <2>5. Stages' = [Stages EXCEPT ![c][p] = "timedOut"]
    BY <1>4, <2>4, OneMoves
  <2> QED
    BY <1>6, <2>3, <2>5 DEF Lifecycle!Expire, Lifecycle!move, Stages, Answers
<1> QED
  BY <1>7, <1>8

(* Nothing was sent at first.                                              *)
LEMMA InitMoves == ASSUME Init PROVE Lifecycle!Init
<1>1. \A c \in Chain, p \in Packet :
        /\ outcomes[c][p] = <<>> /\ onRecv[counterparty(c)][p] = 0
        /\ commitments[c].packets = {}
  BY TwoChains DEF Init, InitStore
<1>2. \A c \in Chain, p \in Packet : stageOf(c, p) = "unsent" /\ answerOf(c, p) = EmptyAck
  BY <1>1, StageIs, StageValues, AnswerIs, AnswerValues
<1> QED
  BY <1>2 DEF Lifecycle!Init

(* What the two modules of an unordered channel see of any behaviour of    *)
(* the handlers, chains and clients is a behaviour of PacketLifecycle.     *)
THEOREM LifecycleImplemented ==
  ASSUME Ordering = "ORDER_UNORDERED"
  PROVE  Spec => ImplementsLifecycle
<1>1. Init => Lifecycle!Init
  BY InitMoves
<1>2. ASSUME IInv, IInv', OutcomeInv, [Next]_vars
      PROVE  [Lifecycle!Next]_(Lifecycle!vars)
  <2>0. TypeOK /\ \A d \in Chain : counterparty(d) \in Chain
    BY <1>2, TwoChains DEF IInv, DeliveryInv
  <2>1. CASE StoresSame
    <3>1. UNCHANGED <<Stages, Answers>>
      BY <2>1, QuietMoves
    <3> QED
      BY <3>1 DEF Lifecycle!vars, Stages, Answers
  <2>2. CASE SendStep
    BY <1>2, <2>0, <2>2, SendMoves, PacketAssumption DEF SendStep, Lifecycle!Next
  <2>3. ASSUME NEW d \in Chain, NEW p \in Packet, NEW ack \in Acknowledgement \cup {EmptyAck},
               \/ recvPacket(d, p, ack)
               \/ ack \in Acknowledgement /\ writeAcknowledgement(d, p, ack)
        PROVE  Lifecycle!Next
    <3>1. CASE recvPacket(d, p, ack)
      BY <1>2, <2>0, <3>1, RecvMoves, PacketAssumption, ClientViewAssumption
         DEF Lifecycle!Next
    <3>2. CASE ack \in Acknowledgement /\ writeAcknowledgement(d, p, ack)
      BY <1>2, <2>0, <3>2, AnswerMoves, PacketAssumption, ClientViewAssumption
         DEF Lifecycle!Next
    <3> QED
      BY <2>3, <3>1, <3>2
  <2>4. ASSUME NEW c \in Chain, NEW p \in Packet, NEW outcome \in Outcome,
               \/ outcome \in Acknowledgement /\ acknowledgePacket(c, p, outcome)
               \/ outcome = TimedOut /\ timeoutPacket(c, p)
        PROVE  Lifecycle!Next
    BY <1>2, <2>4, ResolveMoves, PacketAssumption, ClientViewAssumption DEF Lifecycle!Next
  <2> QED
    BY <1>2, <2>0, <2>1, <2>2, <2>3, <2>4, Steps
<1> QED
  BY <1>1, <1>2, InvariantHolds, OutcomesHold, PTL
     DEF Spec, ImplementsLifecycle, Lifecycle!Spec

-----------------------------------------------------------------------------
(* Voyager *)

(* The store has what the event says, or its packet was resolved.          *)
HasEvent(c, event, root) ==
  /\ event.type = "ChannelOpenAck" => root.channel = "OPEN"
  /\ event.type = "SendPacket" =>
       event.packet \in root.packets \/ event.packet \notin commitments[c].packets
  /\ event.type = "WriteAcknowledgement" =>
       [sequence |-> event.packet.sequence, ack |-> event.ack] \in root.acks

Happened(c, event) ==
  /\ HasEvent(c, event, commitments[c])
  /\ event.type = "SendPacket" =>
       event.packet \in Packet /\ event.packet.sequence < commitments[c].nextSequenceSend

(* From this height on, the roots of c have the event.                     *)
ShownFrom(c, event, height) ==
  \A hd \in headers[c] : hd.height >= height => HasEvent(c, event, hd.root)

LoggedIsShown ==
  /\ log = [c \in Chain |-> log[c]]
  /\ \A c \in Chain : \A e \in log[c] :
       e.block \in Nat /\ Happened(c, e.event) /\ ShownFrom(c, e.event, e.block + RootLag[c])

TasksAreShown ==
  \A t \in relays :
    /\ t = [task(t.chain, t.event, t.height) EXCEPT !.proof = t.proof]
    /\ t.chain \in Chain /\ Happened(t.chain, t.event)
    /\ ShownFrom(t.chain, t.event, t.height)
    /\ \A cs \in t.proof :
         cs \in consensus[counterparty(t.chain)] /\ HasEvent(t.chain, t.event, cs.root)

(* There is a latest header.  The block that is executed has none yet, and *)
(* a later header has a later time.  Receipts stay.                        *)
HeadersInOrder ==
  \A c \in Chain :
    /\ \E hd \in headers[c] : \A other \in headers[c] : other.height <= hd.height
    /\ \A hd \in headers[c] : hd.height < block[c].number + RootLag[c]
    /\ \A hd, g \in headers[c] : hd.height <= g.height => hd.timestamp <= g.timestamp
    /\ \A hd \in headers[c] : hd.root.receipts \subseteq commitments[c].receipts

OpenWhileSent == \A c \in Chain : commitments[c].packets # {} => channels[c] = "OPEN"

-----------------------------------------------------------------------------
(* What Voyager's steps do to the chains *)

(* What a transaction that Voyager or a module submits does.               *)
Transaction ==
  /\ UNCHANGED clientVars
  /\ \E c \in Chain :
       \/ channelOpenConfirm(c)
       \/ \E h \in TimeoutHeight, t \in TimeoutTimestamp : sendPacket(c, h, t)
       \/ \E p \in Packet :
            \/ \E ack \in Acknowledgement : recvPacket(c, p, ack) \/ acknowledgePacket(c, p, ack)
            \/ timeoutPacket(c, p)

(* Nothing of a store is lost but the commitments of resolved packets, and *)
(* a new packet has a sequence number that is given out.                   *)
StoresGrow ==
  \A d \in Chain :
    /\ commitments[d].channel = "OPEN" => commitments'[d].channel = "OPEN"
    /\ commitments[d].acks \subseteq commitments'[d].acks
    /\ commitments[d].receipts \subseteq commitments'[d].receipts
    /\ commitments[d].nextSequenceSend <= commitments'[d].nextSequenceSend
    /\ \A p \in Packet :
         /\ p.sequence < commitments[d].nextSequenceSend
         /\ p \notin commitments[d].packets
         => p \notin commitments'[d].packets
    /\ \A p \in commitments'[d].packets :
         p \in commitments[d].packets \/ p.sequence < commitments'[d].nextSequenceSend
    /\ (commitments[d].packets # {} => channels[d] = "OPEN")
         => (commitments'[d].packets # {} => channels'[d] = "OPEN")

(* The handlers write the channel's field only when they open it.          *)
LEMMA ChannelFieldSame ==
  ASSUME TypeOK, Ordering = "ORDER_UNORDERED", NEW c \in Chain,
         \/ \E h \in TimeoutHeight, t \in TimeoutTimestamp : sendPacket(c, h, t)
         \/ \E p \in Packet :
              \/ \E ack \in Acknowledgement : recvPacket(c, p, ack) \/ acknowledgePacket(c, p, ack)
              \/ timeoutPacket(c, p)
  PROVE  /\ channels' = channels /\ channels[c] = "OPEN"
         /\ \A d \in Chain : commitments'[d].channel = commitments[d].channel
<1>1. \A d \in Chain : commitments[d] \in Store
  BY DEF TypeOK
<1>2. ASSUME NEW s \in Store, NEW p \in Packet, NEW ack \in Acknowledgement
      PROVE  /\ withPacket(s, p).channel = s.channel
             /\ withoutPacket(s, p).channel = s.channel
             /\ withAcknowledged(s, p).channel = s.channel
             /\ withAck(withReceipt(s, p.sequence), p.sequence, ack).channel = s.channel
  BY DEF Store, withPacket, withoutPacket, withAcknowledged, withAck, withReceipt
<1>3. CASE \E h \in TimeoutHeight, t \in TimeoutTimestamp : sendPacket(c, h, t)
  <2>1. PICK h \in TimeoutHeight, t \in TimeoutTimestamp : sendPacket(c, h, t)
    BY <1>3
  <2> DEFINE p == [sequence |-> commitments[c].nextSequenceSend,
                   timeout_height |-> h, timeout_timestamp |-> t]
  <2>2. p \in Packet /\ commitments' = [commitments EXCEPT ![c] = withPacket(commitments[c], p)]
    BY <2>1 DEF sendPacket, Packet
  <2> HIDE DEF p
  <2>3. withPacket(commitments[c], p).channel = commitments[c].channel
    BY <1>1, <2>2 DEF Store, withPacket
  <2> QED
    BY <2>1, <2>2, <2>3 DEF sendPacket, ensureChannelState, TypeOK
<1>4. ASSUME NEW p \in Packet, NEW ack \in Acknowledgement,
             recvPacket(c, p, ack) \/ acknowledgePacket(c, p, ack)
      PROVE  /\ channels' = channels /\ channels[c] = "OPEN"
             /\ \A d \in Chain : commitments'[d].channel = commitments[d].channel
  <2>1. PICK store :
          /\ commitments' = [commitments EXCEPT ![c] = store]
          /\ store.channel = commitments[c].channel
    BY <1>1, <1>2, <1>4 DEF recvPacket, acknowledgePacket
  <2>2. channels' = channels /\ channels[c] = "OPEN"
    BY <1>4 DEF recvPacket, acknowledgePacket, ensureChannelState, TypeOK
  <2> QED
    BY <2>1, <2>2 DEF TypeOK
<1>5. CASE \E p \in Packet : \E ack \in Acknowledgement :
             recvPacket(c, p, ack) \/ acknowledgePacket(c, p, ack)
  BY <1>4, <1>5
<1>6. ASSUME NEW p \in Packet, timeoutPacket(c, p)
      PROVE  /\ channels' = channels /\ channels[c] = "OPEN"
             /\ \A d \in Chain : commitments'[d].channel = commitments[d].channel
  <2>1. withoutPacket(commitments[c], p).channel = commitments[c].channel
    BY <1>1 DEF Store, withoutPacket
  <2>2. commitments' = [commitments EXCEPT ![c] = withoutPacket(commitments[c], p)]
    BY <1>6 DEF timeoutPacket
  <2>3. channels' = channels /\ channels[c] = "OPEN"
    BY <1>6 DEF timeoutPacket, ensureChannelState, TypeOK
  <2> QED
    BY <2>1, <2>2, <2>3 DEF TypeOK
<1> QED
  BY <1>3, <1>5, <1>6

(* No transaction of an unordered channel takes anything back.             *)
LEMMA StoresGrowIn ==
  ASSUME TypeOK, PacketAssumption, Ordering = "ORDER_UNORDERED",
         Transaction \/ UNCHANGED packetVars
  PROVE  StoresGrow
<1>1. \A d \in Chain : /\ commitments[d] \in Store
                       /\ commitments[d].nextSequenceSend \in Nat
                       /\ commitments[d].packets \in SUBSET Packet
  BY DEF TypeOK, Store
<1>2. \A p \in Packet : p.sequence \in Nat
  BY DEF Packet, Sequence
<1>3. CASE UNCHANGED packetVars
  BY <1>1, <1>3 DEF packetVars, StoresGrow
<1>4. ASSUME NEW c \in Chain, channelOpenConfirm(c)
      PROVE  StoresGrow
  <2>1. \A d \in Chain : SameFields(d)
    BY <1>4, ChannelEffect
  <2>2. /\ channels' = [channels EXCEPT ![c] = "OPEN"]
        /\ commitments' = [commitments EXCEPT ![c].channel = "OPEN"]
    BY <1>4 DEF channelOpenConfirm, setChannel
  <2>3. \A d \in Chain :
          /\ commitments[d].channel = "OPEN" => commitments'[d].channel = "OPEN"
          /\ channels[d] = "OPEN" => channels'[d] = "OPEN"
    BY <1>1, <2>2 DEF TypeOK, Store
  <2> QED
    BY <1>1, <2>1, <2>3 DEF StoresGrow, SameFields
<1>5. ASSUME NEW c \in Chain, NEW h \in TimeoutHeight, NEW t \in TimeoutTimestamp,
             sendPacket(c, h, t)
      PROVE  StoresGrow
  <2>1. /\ channels' = channels /\ channels[c] = "OPEN"
        /\ \A d \in Chain : commitments'[d].channel = commitments[d].channel
    BY <1>5, ChannelFieldSame
  <2>2. PICK p \in Packet :
           /\ p.sequence = commitments[c].nextSequenceSend
           /\ commitments'[c].packets = put(commitments[c].packets, p)
           /\ commitments'[c].nextSequenceSend = p.sequence + 1
           /\ OtherFieldsSame(commitments[c], commitments'[c], {"packets", "nextSequenceSend"})
           /\ OnlyStoreOf(c)
    BY <1>5, SendEffect
  <2>3. /\ commitments'[c].acks = commitments[c].acks
        /\ commitments'[c].receipts = commitments[c].receipts
        /\ \A d \in Chain : d # c => SameFields(d)
    BY <2>2 DEF OtherFieldsSame, OnlyStoreOf
  <2>4. commitments[c].nextSequenceSend <= commitments'[c].nextSequenceSend
    BY <1>1, <2>2
  <2>5. ASSUME NEW q \in Packet, q.sequence < commitments[c].nextSequenceSend,
               q \notin commitments[c].packets
        PROVE  q \notin commitments'[c].packets
    BY <1>1, <1>2, <2>2, <2>5 DEF put
  <2>6. ASSUME NEW q \in commitments'[c].packets
        PROVE  q \in commitments[c].packets \/ q.sequence < commitments'[c].nextSequenceSend
    BY <1>2, <2>2, <2>6 DEF put
  <2> QED
    BY <1>1, <2>1, <2>3, <2>4, <2>5, <2>6 DEF StoresGrow, SameFields
<1>6. ASSUME NEW c \in Chain, NEW p \in Packet, NEW ack \in Acknowledgement,
             recvPacket(c, p, ack)
      PROVE  StoresGrow
  <2>1. /\ channels' = channels
        /\ \A d \in Chain : commitments'[d].channel = commitments[d].channel
    BY <1>6, ChannelFieldSame
  <2>2. /\ OtherFieldsSame(commitments[c], commitments'[c],
                           {"receipts", "nextSequenceRecv", "acks"})
        /\ commitments'[c].receipts = commitments[c].receipts \cup {p.sequence}
        /\ commitments[c].acks \subseteq commitments'[c].acks
        /\ OnlyStoreOf(c)
    BY <1>6, RecvEffect
  <2> QED
    BY <1>1, <2>1, <2>2 DEF StoresGrow, SameFields, OtherFieldsSame, OnlyStoreOf
<1>7. ASSUME NEW c \in Chain, NEW p \in Packet,
             \/ \E ack \in Acknowledgement : acknowledgePacket(c, p, ack)
             \/ timeoutPacket(c, p)
      PROVE  StoresGrow
  <2>1. /\ channels' = channels
        /\ \A d \in Chain : commitments'[d].channel = commitments[d].channel
    BY <1>7, ChannelFieldSame
  <2>2. /\ OtherFieldsSame(commitments[c], commitments'[c], {"packets", "nextSequenceAck"})
        /\ commitments'[c].packets = commitments[c].packets \ {p}
        /\ OnlyStoreOf(c)
    BY <1>7, ResolveEffect
  <2> QED
    BY <1>1, <2>1, <2>2 DEF StoresGrow, SameFields, OtherFieldsSame, OnlyStoreOf
<1> QED
  BY <1>3, <1>4, <1>5, <1>6, <1>7 DEF Transaction

(* A message of a task, like a packet a module sends, is a transaction.    *)
LEMMA MessageIs ==
  ASSUME TypeOK, TasksAreShown, NEW t \in relays, NEW cs \in t.proof, message(t, cs)
  PROVE  Transaction
<1>1. t.chain \in Chain /\ counterparty(t.chain) \in Chain /\ cs \in consensus[counterparty(t.chain)]
  BY TwoChains DEF TasksAreShown
<1>2. cs.root \in Store
  BY <1>1 DEF TypeOK, Header
<1>3. CASE MsgChannelOpenConfirm(t, cs)
  BY <1>1, <1>3 DEF MsgChannelOpenConfirm, channelOpenConfirm, Transaction
<1>4. CASE MsgRecvPacket(t, cs)
  <2>1. t.event.packet \in Packet
    BY <1>4 DEF MsgRecvPacket, TasksAreShown, Happened
  <2> QED
    BY <1>1, <1>4, <2>1 DEF MsgRecvPacket, recvPacket, Transaction
<1>5. CASE MsgAckPacket(t, cs)
  <2> DEFINE d == counterparty(t.chain)
             ack == t.event.ack
             p == t.event.packet
  <2>1. acknowledgePacket(d, p, ack) /\ [sequence |-> p.sequence, ack |-> ack] \in cs.root.acks
    BY <1>5 DEF MsgAckPacket
  <2>2. p \in Packet
    BY <1>1, <2>1 DEF acknowledgePacket, TypeOK, Store
  <2>3. ack \in Acknowledgement
    <3>1. [sequence |-> p.sequence, ack |-> ack] \in [sequence : Sequence, ack : Acknowledgement]
      BY <1>2, <2>1 DEF Store
    <3> QED
      BY <3>1
  <2> HIDE DEF d, p, ack
  <2>4. UNCHANGED clientVars
    BY <2>1 DEF acknowledgePacket
  <2> QED
    BY <1>1, <2>1, <2>2, <2>3, <2>4 DEF Transaction, d
<1> QED
  BY <1>3, <1>4, <1>5 DEF message

(* A latest header is one of the chain's, and there is no later one.       *)
LEMMA LatestIs ==
  ASSUME HeadersInOrder, NEW c \in Chain
  PROVE  /\ latestHeader(c) \in headers[c]
         /\ \A hd \in headers[c] : hd.height <= latestHeader(c).height
BY DEF HeadersInOrder, latestHeader

(* The same of the header a client trusts last.                            *)
LEMMA TrustedIs ==
  ASSUME ClientsBehind, NEW c \in Chain
  PROVE  /\ latestConsensus(c) \in consensus[c]
         /\ \A cs \in consensus[c] : cs.height <= latestConsensus(c).height
BY DEF ClientsBehind, latestConsensus

(* What a step does to the chains, and what it logs of it.                 *)
ChainsMove ==
  /\ Step
  /\ Transaction \/ UNCHANGED packetVars
  /\ \/ Transaction /\ emit
     \/ UNCHANGED log
     \/ UNCHANGED vars /\ \E c \in Chain : fetchBlockRange(c)

TasksMove ==
  \/ relays' \subseteq relays
  \/ UNCHANGED vars /\ \E t \in relays : waitForTrustedHeight(t)
  \/ UNCHANGED vars /\ \E c \in Chain : fetchBlockRange(c)

(* Nothing is logged, and no packet is sent.                               *)
NothingSent ==
  UNCHANGED log /\ \A d \in Chain : commitments'[d].packets \subseteq commitments[d].packets

(* The steps of a race.                                                    *)
RaceStep(c, p) ==
  \/ waitForPacketReceipt(c, p)
  \/ waitForTimestamp(c, p)
  \/ aggregateTimeout(c, p)
  \/ submitTimeout(c, p)
  \/ endRace(c, p)

RacesMove ==
  \/ UNCHANGED races /\ NothingSent
  \/ UNCHANGED races /\ Transaction /\ emit
  \/ UNCHANGED vars /\ \E c \in Chain : fetchBlockRange(c)
  \/ NothingSent /\ \E c \in Chain, p \in Packet : RaceStep(c, p)

(* A transaction is a step of IBCPacket.                                   *)
LEMMA TransactionIsStep == ASSUME Transaction PROVE Step
<1>1. Next
  BY DEF Transaction, Next
<1> QED
  BY <1>1 DEF Step

(* What each step of RelayMessage is, for the chains, the tasks and the    *)
(* races.                                                                  *)
LEMMA RelayMoves ==
  ASSUME TypeOK, HeadersInOrder, TasksAreShown, [RelayNext]_allVars
  PROVE  ChainsMove /\ TasksMove /\ RacesMove
<1>1. UNCHANGED vars /\ UNCHANGED log => NothingSent /\ UNCHANGED packetVars
  BY DEF vars, packetVars, NothingSent
<1>2. ASSUME NEW c \in Chain, NEW p \in Packet, timeoutPacket(c, p), UNCHANGED log
      PROVE  NothingSent
  <2>1. commitments'[c].packets = commitments[c].packets \ {p} /\ OnlyStoreOf(c)
    BY <1>2, ResolveEffect
  <2> QED
    BY <1>2, <2>1 DEF NothingSent, OnlyStoreOf, SameFields
<1>3. CASE UNCHANGED allVars
  <2>1. UNCHANGED <<vars, log, relays, races, packetVars>>
    BY <1>3 DEF allVars, voyagerVars, vars
  <2> QED
    BY <1>1, <2>1 DEF ChainsMove, TasksMove, RacesMove, Step
<1>4. ASSUME NEW c \in Chain, sendingStep(c)
      PROVE  ChainsMove /\ TasksMove /\ RacesMove
  <2>1. Transaction /\ emit /\ UNCHANGED <<relays, races>>
    BY <1>4 DEF sendingStep, Transaction, sendPacket
  <2> QED
    BY <2>1, TransactionIsStep DEF ChainsMove, TasksMove, RacesMove
<1>5. ASSUME NEW t \in relays, submit(t)
      PROVE  ChainsMove /\ TasksMove /\ RacesMove
  <2>1. \/ Transaction /\ emit
        \/ UNCHANGED <<vars, log>>
    BY <1>5, MessageIs DEF submit
  <2>2. relays' \subseteq relays /\ UNCHANGED races
    BY <1>5 DEF submit
  <2> QED
    BY <1>1, <2>1, <2>2, TransactionIsStep DEF ChainsMove, TasksMove, RacesMove, Step
<1>6. ASSUME NEW t \in relays, crashAfterSubmit(t)
      PROVE  ChainsMove /\ TasksMove /\ RacesMove
  <2>1. Transaction /\ emit /\ UNCHANGED <<relays, races>>
    BY <1>6, MessageIs DEF crashAfterSubmit
  <2> QED
    BY <2>1, TransactionIsStep DEF ChainsMove, TasksMove, RacesMove
<1>7. ASSUME NEW c \in Chain, NEW p \in Packet, submitTimeout(c, p)
      PROVE  ChainsMove /\ TasksMove /\ RacesMove
  <2>1. \/ timeoutPacket(c, p)
        \/ UNCHANGED vars
    BY <1>7 DEF submitTimeout, MsgTimeout
  <2>2. Transaction \/ UNCHANGED vars
    BY <2>1 DEF Transaction, timeoutPacket
  <2>3. UNCHANGED <<log, relays>>
    BY <1>7 DEF submitTimeout
  <2>4. NothingSent
    BY <1>1, <1>2, <2>1, <2>3
  <2> QED
    BY <1>7, <2>2, <2>3, <2>4, TransactionIsStep
       DEF ChainsMove, TasksMove, RacesMove, RaceStep, Step, vars
<1>8. ASSUME NEW c \in Chain, NEW p \in Packet, crashAfterTimeout(c, p)
      PROVE  ChainsMove /\ TasksMove /\ RacesMove
  <2>1. timeoutPacket(c, p)
    BY <1>8 DEF crashAfterTimeout, MsgTimeout
  <2>2. Transaction
    BY <2>1 DEF Transaction, timeoutPacket
  <2>3. UNCHANGED <<log, relays, races>>
    BY <1>8 DEF crashAfterTimeout, voyagerVars
  <2>4. NothingSent
    BY <1>2, <2>1, <2>3
  <2> QED
    BY <2>2, <2>3, <2>4, TransactionIsStep DEF ChainsMove, TasksMove, RacesMove
<1>9. ASSUME NEW c \in Chain, newBlock(c)
      PROVE  ChainsMove /\ TasksMove /\ RacesMove
  <2>1. BlockStep /\ UNCHANGED <<packetVars, log, relays, races>>
    BY <1>9 DEF newBlock, NewBlock, BlockStep, voyagerVars
  <2>2. NothingSent
    BY <2>1 DEF packetVars, NothingSent
  <2> QED
    BY <2>1, <2>2 DEF ChainsMove, TasksMove, RacesMove, Step
<1>10. ASSUME NEW c \in Chain, AggregateUpdateClient(c)
      PROVE  ChainsMove /\ TasksMove /\ RacesMove
  <2>1. UNCHANGED <<packetVars, log, relays, races>>
    BY <1>10 DEF AggregateUpdateClient, voyagerVars
  <2>2. updateClient(c)
    BY <1>10, TwoChains, LatestIs DEF AggregateUpdateClient, updateClient
  <2>3. Next
    BY <2>1, <2>2 DEF Next
  <2>4. NothingSent
    BY <2>1 DEF packetVars, NothingSent
  <2> QED
    BY <2>1, <2>3, <2>4 DEF ChainsMove, TasksMove, RacesMove, Step
<1>11. ASSUME NEW c \in Chain, fetchBlockRange(c)
      PROVE  ChainsMove /\ TasksMove /\ RacesMove
  <2>1. UNCHANGED <<vars, packetVars>>
    BY <1>11 DEF fetchBlockRange, vars
  <2> QED
    BY <1>11, <2>1 DEF ChainsMove, TasksMove, RacesMove, Step
<1>12. ASSUME NEW t \in relays, waitForTrustedHeight(t)
       PROVE  ChainsMove /\ TasksMove /\ RacesMove
  <2>1. UNCHANGED <<vars, packetVars, log, races>>
    BY <1>12 DEF waitForTrustedHeight, vars
  <2> QED
    BY <1>1, <1>12, <2>1 DEF ChainsMove, TasksMove, RacesMove, Step
<1>13. ASSUME NEW c \in Chain, NEW p \in Packet,
              \/ waitForPacketReceipt(c, p) \/ waitForTimestamp(c, p)
              \/ aggregateTimeout(c, p) \/ endRace(c, p)
       PROVE  ChainsMove /\ TasksMove /\ RacesMove
  <2>1. UNCHANGED <<vars, packetVars, log, relays>>
    BY <1>13 DEF waitForPacketReceipt, waitForTimestamp, aggregateTimeout, endRace, vars
  <2> QED
    BY <1>1, <1>13, <2>1 DEF ChainsMove, TasksMove, RacesMove, RaceStep, Step
<1>14. CASE \E c \in Chain : RelayStep(c)
  BY <1>5, <1>7, <1>9, <1>10, <1>11, <1>12, <1>13, <1>14 DEF RelayStep
<1> QED
  BY <1>3, <1>4, <1>6, <1>8, <1>14 DEF RelayNext

-----------------------------------------------------------------------------
(* Headers come in order *)

(* The header that a block publishes is the latest one.                    *)
LEMMA HeaderMade ==
  ASSUME TypeOK, ClientViewAssumption, NEW c \in Chain, EndBlock(c, commitments[c])
  PROVE  \E hd : /\ hd.root = commitments[c]
                 /\ hd.height = block[c].number + RootLag[c]
                 /\ hd.timestamp \in Nat /\ block[c].timestamp <= hd.timestamp
                 /\ headers' = [headers EXCEPT ![c] = @ \cup {hd}]
                 /\ block'[c].number = block[c].number + 1
                 /\ \A d \in Chain : d # c => block'[d] = block[d]
<1>1. PICK step \in TimeStep :
        LET after == [number |-> block[c].number + 1,
                      timestamp |-> block[c].timestamp + step]
            head == IF RootLag[c] = 0 THEN block[c] ELSE after
        IN /\ block' = [block EXCEPT ![c] = after]
           /\ headers' = [headers EXCEPT
                ![c] = @ \cup {[height |-> head.number,
                                timestamp |-> head.timestamp,
                                root |-> commitments[c]]}]
  BY DEF EndBlock
<1>2. /\ block[c] \in [number : Nat, timestamp : Nat] /\ step \in Nat
      /\ RootLag[c] \in {0, 1}
  BY ClientViewAssumption DEF TypeOK, ClientViewAssumption
<1> DEFINE after == [number |-> block[c].number + 1,
                     timestamp |-> block[c].timestamp + step]
           head == IF RootLag[c] = 0 THEN block[c] ELSE after
           hd == [height |-> head.number, timestamp |-> head.timestamp,
                  root |-> commitments[c]]
<1>3. block' = [block EXCEPT ![c] = after] /\ headers' = [headers EXCEPT ![c] = @ \cup {hd}]
  BY <1>1
<1>4. /\ head.number = block[c].number + RootLag[c]
      /\ head.timestamp \in Nat /\ block[c].timestamp <= head.timestamp
  BY <1>2
<1>5. after.number = block[c].number + 1
  OBVIOUS
<1>6. hd.root = commitments[c] /\ hd.height = head.number /\ hd.timestamp = head.timestamp
  OBVIOUS
<1> HIDE DEF after, head, hd
<1>7. /\ block'[c].number = block[c].number + 1
      /\ \A d \in Chain : d # c => block'[d] = block[d]
  BY <1>3, <1>5 DEF TypeOK
<1> QED
  BY <1>3, <1>4, <1>6, <1>7

(* Headers are only added, with the root of the store there is.            *)
HeadersGrow ==
  \A d \in Chain :
    /\ headers[d] \subseteq headers'[d]
    /\ \A hd \in headers'[d] :
         \/ hd \in headers[d]
         \/ hd.root = commitments[d] /\ commitments'[d] = commitments[d]

(* Blocks keep the order of the headers, and nothing else makes any.       *)
LEMMA HeadersStep ==
  ASSUME TypeOK, ClientViewAssumption, PacketAssumption, HeadersPast, HeadersInOrder,
         Step, StoresGrow
  PROVE  HeadersGrow /\ HeadersInOrder'
<1>0. \A d \in Chain : /\ block[d].number \in Nat /\ block[d].timestamp \in Nat
                       /\ RootLag[d] \in {0, 1}
                       /\ \A hd \in headers[d] : hd.height \in Nat /\ hd.timestamp \in Nat
  BY ClientViewAssumption DEF TypeOK, Header, ClientViewAssumption
<1>1. CASE BlockStep
  <2>1. PICK c \in Chain : EndBlock(c, commitments[c]) /\ UNCHANGED packetVars
    BY <1>1 DEF BlockStep
  <2>2. PICK new : /\ new.root = commitments[c]
                   /\ new.height = block[c].number + RootLag[c]
                   /\ new.timestamp \in Nat /\ block[c].timestamp <= new.timestamp
                   /\ headers' = [headers EXCEPT ![c] = @ \cup {new}]
                   /\ block'[c].number = block[c].number + 1
                   /\ \A d \in Chain : d # c => block'[d] = block[d]
    BY <2>1, HeaderMade, ClientViewAssumption
  <2>3. /\ headers'[c] = headers[c] \cup {new}
        /\ \A d \in Chain : d # c => headers'[d] = headers[d]
        /\ commitments' = commitments
    BY <2>1, <2>2 DEF TypeOK, packetVars
  <2>4. HeadersGrow
    BY <2>2, <2>3 DEF HeadersGrow
  <2>5. \A hd \in headers[c] : /\ hd.height < new.height
                               /\ hd.timestamp <= new.timestamp
    <3> SUFFICES ASSUME NEW hd \in headers[c]
                 PROVE  hd.height < new.height /\ hd.timestamp <= new.timestamp
      OBVIOUS
    <3>1. hd.height < block[c].number + RootLag[c] /\ hd.timestamp <= block[c].timestamp
      BY DEF HeadersInOrder, HeadersPast
    <3> QED
      BY <1>0, <2>2, <3>1
  <2>6. new.height \in Nat /\ new.height < block'[c].number + RootLag[c]
    <3>1. block[c].number \in Nat /\ RootLag[c] \in {0, 1}
      BY <1>0
    <3> QED
      BY <2>2, <3>1
  <2>7. /\ \E hd \in headers'[c] : \A other \in headers'[c] : other.height <= hd.height
        /\ \A hd \in headers'[c] : hd.height < block'[c].number + RootLag[c]
    <3>1. \A other \in headers'[c] : other.height <= new.height /\ other.height \in Nat
      BY <1>0, <2>3, <2>5, <2>6
    <3>2. block'[c].number \in Nat /\ RootLag[c] \in {0, 1}
      BY <1>0, <2>2
    <3> QED
      BY <2>3, <2>6, <3>1, <3>2
  <2>8. \A hd, g \in headers'[c] : hd.height <= g.height => hd.timestamp <= g.timestamp
    <3> SUFFICES ASSUME NEW hd \in headers'[c], NEW g \in headers'[c], hd.height <= g.height
                 PROVE  hd.timestamp <= g.timestamp
      OBVIOUS
    <3>1. CASE g = new
      BY <2>2, <2>3, <2>5, <3>1
    <3>2. CASE hd = new /\ g \in headers[c]
      BY <1>0, <2>5, <2>6, <3>2
    <3>3. CASE hd \in headers[c] /\ g \in headers[c]
      BY <3>3 DEF HeadersInOrder
    <3> QED
      BY <2>3, <3>1, <3>2, <3>3
  <2>9. \A hd \in headers'[c] : hd.root.receipts \subseteq commitments'[c].receipts
    BY <2>2, <2>3 DEF HeadersInOrder
  <2>10. ASSUME NEW d \in Chain
         PROVE  /\ \E hd \in headers'[d] : \A other \in headers'[d] : other.height <= hd.height
                /\ \A hd \in headers'[d] : hd.height < block'[d].number + RootLag[d]
                /\ \A hd, g \in headers'[d] : hd.height <= g.height => hd.timestamp <= g.timestamp
                /\ \A hd \in headers'[d] : hd.root.receipts \subseteq commitments'[d].receipts
    <3>1. CASE d = c
      BY <2>7, <2>8, <2>9, <3>1
    <3>2. CASE d # c
      <4>1. headers'[d] = headers[d] /\ block'[d] = block[d]
        BY <2>2, <2>3, <3>2
      <4> QED
        BY <2>3, <4>1 DEF HeadersInOrder
    <3> QED
      BY <3>1, <3>2
  <2> QED
    BY <2>4, <2>10 DEF HeadersInOrder
<1>2. CASE UNCHANGED <<block, headers>>
  BY <1>2 DEF HeadersGrow, HeadersInOrder, StoresGrow
<1>3. BlockStep \/ UpdateStep \/ QuietStep \/ SendStep \/ RecvStep \/ ResolveStep
  BY StepKinds, PacketAssumption
<1>4. ASSUME UpdateStep \/ QuietStep \/ SendStep \/ RecvStep \/ ResolveStep
      PROVE  UNCHANGED <<block, headers>>
  <2>1. CASE UpdateStep
    BY <2>1 DEF UpdateStep, updateClient
  <2>2. CASE QuietStep
    BY <2>2 DEF QuietStep, clientVars
  <2>3. CASE SendStep
    BY <2>3 DEF SendStep, sendPacket, clientVars
  <2>4. CASE RecvStep
    BY <2>4 DEF RecvStep, recvPacket, clientVars
  <2>5. CASE ResolveStep
    BY <2>5 DEF ResolveStep, acknowledgePacket, timeoutPacket, clientVars
  <2> QED
    BY <1>4, <2>1, <2>2, <2>3, <2>4, <2>5
<1> QED
  BY <1>1, <1>2, <1>3, <1>4

-----------------------------------------------------------------------------
(* What the roots show *)

(* A root keeps an event: a packet once resolved stays so.                 *)
LEMMA EventStays ==
  ASSUME TypeOK, StoresGrow, NEW c \in Chain, NEW event, Happened(c, event),
         NEW root, HasEvent(c, event, root)
  PROVE  HasEvent(c, event, root)'
<1>1. ASSUME event.type = "SendPacket", event.packet \notin root.packets
      PROVE  event.packet \notin commitments'[c].packets
  BY <1>1 DEF HasEvent, Happened, StoresGrow
<1> QED
  BY <1>1 DEF HasEvent

(* The store keeps it too.                                                 *)
LEMMA HappenedStays ==
  ASSUME TypeOK, TypeOK', StoresGrow, NEW c \in Chain, NEW event, Happened(c, event)
  PROVE  Happened(c, event)'
<1>1. ASSUME event.type = "SendPacket"
      PROVE  event.packet \in Packet /\ event.packet.sequence < commitments'[c].nextSequenceSend
  <2>1. /\ event.packet \in Packet
        /\ event.packet.sequence < commitments[c].nextSequenceSend
        /\ commitments[c].nextSequenceSend <= commitments'[c].nextSequenceSend
    BY <1>1 DEF Happened, StoresGrow
  <2>2. /\ commitments[c].nextSequenceSend \in Nat /\ commitments'[c].nextSequenceSend \in Nat
        /\ event.packet.sequence \in Nat
    BY <2>1 DEF TypeOK, Store, Packet, Sequence
  <2> QED
    BY <2>1, <2>2
<1>2. /\ event.type = "ChannelOpenAck" => commitments'[c].channel = "OPEN"
      /\ event.type = "WriteAcknowledgement" =>
           [sequence |-> event.packet.sequence, ack |-> event.ack] \in commitments'[c].acks
  BY DEF Happened, HasEvent, StoresGrow
<1> QED
  BY <1>1, <1>2 DEF Happened, HasEvent

(* A header made later shows it as well.                                   *)
LEMMA ShownStays ==
  ASSUME TypeOK, StoresGrow, HeadersGrow, NEW c \in Chain, NEW event, Happened(c, event),
         NEW height, ShownFrom(c, event, height)
  PROVE  ShownFrom(c, event, height)'
<1> SUFFICES ASSUME NEW hd \in headers'[c], hd.height >= height
             PROVE  HasEvent(c, event, hd.root)'
  BY DEF ShownFrom
<1>1. HasEvent(c, event, hd.root)
  <2>1. CASE hd \in headers[c]
    BY <2>1 DEF ShownFrom
  <2>2. CASE hd.root = commitments[c]
    BY <2>2 DEF Happened
  <2> QED
    BY <2>1, <2>2 DEF HeadersGrow
<1> QED
  BY <1>1, EventStays

(* What a transaction emits is in the store it leaves.                     *)
LEMMA EmittedHappened ==
  ASSUME TypeOK', StoresGrow, NEW c \in Chain, NEW e, e \in emitted(c)
  PROVE  Happened(c, e)'
<1>1. commitments'[c].packets \subseteq Packet
  BY DEF TypeOK, Store
<1>2. ASSUME NEW p \in commitments'[c].packets \ commitments[c].packets,
             e = [type |-> "SendPacket", packet |-> p]
      PROVE  Happened(c, e)'
  <2>1. e.type = "SendPacket" /\ e.packet = p
    BY <1>2
  <2>2. p \in Packet /\ p.sequence < commitments'[c].nextSequenceSend
    BY <1>1 DEF StoresGrow
  <2> QED
    BY <2>1, <2>2 DEF Happened, HasEvent
<1>3. ASSUME NEW a \in commitments'[c].acks, NEW p \in Packet, p.sequence = a.sequence,
             e = [type |-> "WriteAcknowledgement", packet |-> p, ack |-> a.ack]
      PROVE  Happened(c, e)'
  <2>1. e.type = "WriteAcknowledgement" /\ e.packet = p /\ e.ack = a.ack
    BY <1>3
  <2>2. a \in [sequence : Sequence, ack : Acknowledgement]
    BY DEF TypeOK, Store
  <2>3. [sequence |-> p.sequence, ack |-> a.ack] = a
    BY <1>3, <2>2
  <2> QED
    BY <2>1, <2>3 DEF Happened, HasEvent
<1> QED
  BY <1>2, <1>3 DEF emitted

(* What is logged stays provable, and so is what is logged now: the block  *)
(* that is executed has no header yet.                                     *)
LEMMA LoggedStep ==
  ASSUME TypeOK, TypeOK', ClientViewAssumption, StoresGrow, HeadersGrow, HeadersInOrder',
         LoggedIsShown, ChainsMove
  PROVE  LoggedIsShown'
<1>1. ASSUME NEW c \in Chain, NEW e \in log[c]
      PROVE  /\ e.block \in Nat /\ Happened(c, e.event)'
             /\ ShownFrom(c, e.event, e.block + RootLag[c])'
  <2>1. /\ e.block \in Nat /\ Happened(c, e.event)
        /\ ShownFrom(c, e.event, e.block + RootLag[c])
    BY <1>1 DEF LoggedIsShown
  <2> DEFINE event == e.event
             height == e.block + RootLag[c]
  <2>2. Happened(c, event)' /\ ShownFrom(c, event, height)'
    <3> HIDE DEF event, height
    <3>1. Happened(c, event) /\ ShownFrom(c, event, height)
      BY <2>1 DEF event, height
    <3> QED
      BY <3>1, HappenedStays, ShownStays
  <2> QED
    BY <2>1, <2>2
<1>2. CASE Transaction /\ emit
  <2>1. UNCHANGED clientVars
    BY <1>2 DEF Transaction
  <2>2. /\ log' = [c \in Chain |-> log'[c]]
        /\ \A c \in Chain : log'[c] = log[c] \cup
             {[block |-> block[c].number, event |-> e] : e \in emitted(c)}
    BY <1>2 DEF emit
  <2>3. ASSUME NEW c \in Chain, NEW e \in emitted(c), NEW n, n = block[c].number
        PROVE  n \in Nat /\ Happened(c, e)' /\ ShownFrom(c, e, n + RootLag[c])'
    <3>1. Happened(c, e)'
      BY <2>3, EmittedHappened
    <3>2. \A hd \in headers'[c] : hd.height < n + RootLag[c] /\ hd.height \in Nat
      BY <2>1, <2>3 DEF HeadersInOrder, clientVars, TypeOK, Header
    <3>3. n \in Nat /\ RootLag[c] \in {0, 1}
      BY <2>3, ClientViewAssumption DEF TypeOK, ClientViewAssumption
    <3>4. \A hd \in headers'[c] : ~(hd.height >= n + RootLag[c])
      BY <3>2, <3>3
    <3> QED
      BY <3>1, <3>3, <3>4 DEF ShownFrom
  <2>4. ASSUME NEW c \in Chain, NEW g \in log'[c]
        PROVE  /\ g.block \in Nat /\ Happened(c, g.event)'
               /\ ShownFrom(c, g.event, g.block + RootLag[c])'
    <3>1. CASE g \in log[c]
      BY <1>1, <3>1
    <3>2. CASE g \notin log[c]
      <4>1. PICK e \in emitted(c) : g = [block |-> block[c].number, event |-> e]
        BY <2>2, <3>2
      <4>2. g.event = e /\ g.block = block[c].number
        BY <4>1
      <4> QED
        BY <2>3, <4>2
    <3> QED
      BY <3>1, <3>2
  <2> QED
    BY <2>2, <2>4 DEF LoggedIsShown
<1>3. CASE UNCHANGED log
  BY <1>1, <1>3 DEF LoggedIsShown
<1>4. ASSUME NEW d \in Chain, fetchBlockRange(d)
      PROVE  LoggedIsShown'
  <2>1. PICK polled : log' = [log EXCEPT ![d] = @ \ polled]
    BY <1>4 DEF fetchBlockRange
  <2>2. /\ log' = [c \in Chain |-> log'[c]]
        /\ \A c \in Chain : log'[c] \subseteq log[c]
    BY <2>1 DEF LoggedIsShown
  <2> QED
    BY <1>1, <2>2 DEF LoggedIsShown
<1> QED
  BY <1>2, <1>3, <1>4 DEF ChainsMove

(* A task waits for a header that shows its event, and its proof is one.   *)
LEMMA TasksStep ==
  ASSUME TypeOK, TypeOK', ClientViewAssumption, StoresGrow, HeadersGrow, HeadersInOrder,
         ClientsBehind, \A c \in Chain : consensus[c] \subseteq consensus'[c],
         LoggedIsShown, TasksAreShown, TasksMove
  PROVE  TasksAreShown'
<1> DEFINE Shown(t) ==
      /\ t = [task(t.chain, t.event, t.height) EXCEPT !.proof = t.proof]
      /\ t.chain \in Chain /\ Happened(t.chain, t.event)
      /\ ShownFrom(t.chain, t.event, t.height)
      /\ \A cs \in t.proof :
           cs \in consensus[counterparty(t.chain)] /\ HasEvent(t.chain, t.event, cs.root)
<1>1. ASSUME NEW t, Shown(t)
      PROVE  Shown(t)'
  <2>1. Happened(t.chain, t.event)'
    BY <1>1, HappenedStays
  <2>2. ShownFrom(t.chain, t.event, t.height)'
    BY <1>1, ShownStays
  <2>3. ASSUME NEW cs \in t.proof
        PROVE  /\ cs \in consensus'[counterparty(t.chain)]
               /\ HasEvent(t.chain, t.event, cs.root)'
    <3>1. cs \in consensus[counterparty(t.chain)] /\ counterparty(t.chain) \in Chain
      BY <1>1, <2>3, TwoChains
    <3>2. HasEvent(t.chain, t.event, cs.root)'
      BY <1>1, <2>3, EventStays
    <3> QED
      BY <3>1, <3>2
  <2> QED
    BY <1>1, <2>1, <2>2, <2>3
<1>2. \A t \in relays : Shown(t)
  BY DEF TasksAreShown
<1>3. CASE relays' \subseteq relays
  <2>1. \A t \in relays' : Shown(t)'
    BY <1>1, <1>2, <1>3
  <2> QED
    BY <2>1 DEF TasksAreShown
<1>4. ASSUME UNCHANGED vars, NEW u \in relays, waitForTrustedHeight(u)
      PROVE  TasksAreShown'
  <2> DEFINE d == counterparty(u.chain)
             trusted == latestConsensus(d)
             new == [u EXCEPT !.proof = {trusted}]
  <2>1. Shown(u) /\ d \in Chain /\ counterparty(d) = u.chain
    BY <1>2, <1>4, TwoChains
  <2>2. trusted \in consensus[d] /\ trusted \in headers[u.chain] /\ trusted.height >= u.height
    BY <1>4, <2>1, TrustedIs DEF ClientsBehind, waitForTrustedHeight
  <2>3. /\ new = [task(u.chain, u.event, u.height) EXCEPT !.proof = {trusted}]
        /\ new.chain = u.chain /\ new.event = u.event /\ new.height = u.height
        /\ new.proof = {trusted}
    BY <2>1 DEF task
  <2>4. HasEvent(u.chain, u.event, trusted.root)
    BY <2>1, <2>2 DEF ShownFrom
  <2> HIDE DEF new, trusted
  <2>5. Shown(new)
    BY <2>1, <2>2, <2>3, <2>4
  <2>6. relays' = (relays \ {u}) \cup {new}
    BY <1>4 DEF waitForTrustedHeight, new, trusted
  <2>7. \A t \in relays' : Shown(t)'
    BY <1>1, <1>2, <2>5, <2>6
  <2> QED
    BY <2>7 DEF TasksAreShown
<1>5. ASSUME UNCHANGED vars, NEW c \in Chain, fetchBlockRange(c)
      PROVE  TasksAreShown'
  <2> DEFINE to == latestHeader(c).height
  <2>1. relays' \subseteq relays \cup
          {task(c, e.event, eventHeight(c, e.block)) :
             e \in {f \in log[c] : f.block \in next[c]..(to - 1)}}
    BY <1>5 DEF fetchBlockRange
  <2>2. to \in Nat /\ RootLag[c] \in {0, 1} /\ \A hd \in headers[c] : hd.height \in Nat
    BY LatestIs, ClientViewAssumption DEF TypeOK, Header, ClientViewAssumption
  <2> HIDE DEF to
  <2>3. ASSUME NEW e \in log[c], e.block \in next[c]..(to - 1)
        PROVE  Shown(task(c, e.event, eventHeight(c, e.block)))
    <3> DEFINE t == task(c, e.event, eventHeight(c, e.block))
    <3>1. /\ e.block \in Nat /\ Happened(c, e.event)
          /\ ShownFrom(c, e.event, e.block + RootLag[c])
      BY <2>3 DEF LoggedIsShown
    <3>2. eventHeight(c, e.block) >= e.block + RootLag[c]
          /\ eventHeight(c, e.block) \in Nat
      BY <2>2, <3>1 DEF eventHeight, endOfSlotRange
    <3>3. ShownFrom(c, e.event, eventHeight(c, e.block))
      <4>1. \A hd \in headers[c] : hd.height >= eventHeight(c, e.block)
                                     => hd.height >= e.block + RootLag[c]
        BY <2>2, <3>1, <3>2
      <4> QED
        BY <3>1, <4>1 DEF ShownFrom
    <3>4. /\ t.chain = c /\ t.event = e.event /\ t.height = eventHeight(c, e.block)
          /\ t.proof = {} /\ t = [task(t.chain, t.event, t.height) EXCEPT !.proof = t.proof]
      BY DEF task
    <3> HIDE DEF t
    <3>5. Shown(t)
      BY <3>1, <3>3, <3>4
    <3> QED
      BY <3>5 DEF t
  <2>4. \A t \in relays' : Shown(t)
    <3> HIDE DEF Shown
    <3> QED
      BY <1>2, <2>1, <2>3
  <2>5. \A t \in relays' : Shown(t)'
    BY <1>1, <2>4
  <2> QED
    BY <2>5 DEF TasksAreShown
<1> QED
  BY <1>3, <1>4, <1>5 DEF TasksMove

(* Clients only learn.                                                     *)
LEMMA ClientsLearn ==
  ASSUME TypeOK, PacketAssumption, Step
  PROVE  \A c \in Chain : consensus[c] \subseteq consensus'[c]
<1>1. BlockStep \/ UpdateStep \/ QuietStep \/ SendStep \/ RecvStep \/ ResolveStep
  BY StepKinds, PacketAssumption
<1>2. CASE BlockStep
  BY <1>2 DEF BlockStep, EndBlock
<1>3. CASE UpdateStep
  BY <1>3 DEF UpdateStep, updateClient, TypeOK
<1>4. CASE QuietStep
  BY <1>4 DEF QuietStep, clientVars
<1>5. CASE SendStep
  BY <1>5 DEF SendStep, sendPacket, clientVars
<1>6. CASE RecvStep
  BY <1>6 DEF RecvStep, recvPacket, clientVars
<1>7. CASE ResolveStep
  BY <1>7 DEF ResolveStep, acknowledgePacket, timeoutPacket, clientVars
<1> QED
  BY <1>1, <1>2, <1>3, <1>4, <1>5, <1>6, <1>7

(* What Voyager relays can be proven, step by step.                        *)
RelayInv ==
  /\ Ordering = "ORDER_UNORDERED"
  /\ IInv
  /\ HeadersInOrder /\ LoggedIsShown /\ TasksAreShown

(* At first channelOpenAck is all there is to relay.                       *)
LEMMA InitRelayInv ==
  ASSUME ClientViewAssumption, PacketAssumption, Init, InitRelay PROVE RelayInv
<1>1. IInv /\ Ordering = "ORDER_UNORDERED"
  BY InitIInv, ClientViewAssumption, PacketAssumption DEF InitRelay
<1>2. ASSUME NEW c \in Chain
      PROVE  \E hd : /\ headers[c] = {hd} /\ hd.height = 1 + RootLag[c]
                     /\ hd.root.receipts = {}
  <2> DEFINE root == [d \in Chain |-> InitStore(IF d = ChainA THEN "INIT" ELSE "TRYOPEN")]
  <2>1. InitClientView(root)
    BY Zenon DEF Init
  <2>2. root[c].receipts = {}
    BY DEF InitStore
  <2> HIDE DEF root
  <2>4. headers[c] = {FirstHeader(c, root[c])}
    BY <2>1 DEF InitClientView
  <2>3. FirstHeader(c, root[c]).height = 1 + RootLag[c] /\ FirstHeader(c, root[c]).root = root[c]
    BY DEF FirstHeader
  <2> QED
    BY <2>2, <2>3, <2>4
<1>3. ASSUME NEW c \in Chain
      PROVE  RootLag[c] \in {0, 1} /\ block[c].number = 2
  <2>1. block = [d \in Chain |-> [number |-> 2, timestamp |-> 2]]
    BY Zenon DEF Init, InitClientView
  <2> QED
    BY <2>1, ClientViewAssumption DEF ClientViewAssumption
<1>4. HeadersInOrder
  <2> SUFFICES ASSUME NEW c \in Chain
               PROVE  /\ \E hd \in headers[c] : \A other \in headers[c] : other.height <= hd.height
                      /\ \A hd \in headers[c] : hd.height < block[c].number + RootLag[c]
                      /\ \A hd, g \in headers[c] : hd.height <= g.height => hd.timestamp <= g.timestamp
                      /\ \A hd \in headers[c] : hd.root.receipts \subseteq commitments[c].receipts
    BY DEF HeadersInOrder
  <2>1. PICK hd : headers[c] = {hd} /\ hd.height = 1 + RootLag[c] /\ hd.root.receipts = {}
    BY <1>2
  <2>2. hd.timestamp \in Nat /\ hd.height \in Nat
    BY <1>1, <2>1 DEF IInv, DeliveryInv, TypeOK, Header
  <2>3. hd.height < block[c].number + RootLag[c]
    BY <1>3, <2>1
  <2> QED
    BY <2>1, <2>2, <2>3
<1>5. LoggedIsShown
  <2>1. log = [c \in Chain |-> log[c]]
    BY DEF InitRelay
  <2> SUFFICES ASSUME NEW c \in Chain, NEW e \in log[c]
               PROVE  /\ e.block \in Nat /\ Happened(c, e.event)
                      /\ ShownFrom(c, e.event, e.block + RootLag[c])
    BY <2>1 DEF LoggedIsShown
  <2>2. c = ChainA /\ e.block = block[c].number /\ e.event = [type |-> "ChannelOpenAck"]
    BY DEF InitRelay
  <2>3. commitments[c].channel = "OPEN"
    BY <2>2 DEF Init, InitStore
  <2>4. Happened(c, e.event)
    BY <2>2, <2>3 DEF Happened, HasEvent
  <2>5. PICK hd : headers[c] = {hd} /\ hd.height = 1 + RootLag[c]
    BY <1>2
  <2>6. ~(hd.height >= e.block + RootLag[c]) /\ e.block \in Nat
    BY <1>3, <2>2, <2>5
  <2> QED
    BY <2>4, <2>5, <2>6 DEF ShownFrom
<1>6. TasksAreShown
  BY DEF InitRelay, TasksAreShown
<1> QED
  BY <1>1, <1>4, <1>5, <1>6 DEF RelayInv

(* And every step keeps it.                                                *)
LEMMA RelayInvStep ==
  ASSUME ClientViewAssumption, PacketAssumption, RelayInv, [RelayNext]_allVars
  PROVE  /\ RelayInv'
         /\ ChainsMove /\ RacesMove /\ StoresGrow /\ HeadersGrow
         /\ \A c \in Chain : consensus[c] \subseteq consensus'[c]
<1>1. TypeOK /\ ClientsBehind /\ HeadersPast
  BY DEF RelayInv, IInv, DeliveryInv
<1>2. ChainsMove /\ TasksMove /\ RacesMove
  BY <1>1, RelayMoves DEF RelayInv
<1>3. Step /\ (Transaction \/ UNCHANGED packetVars)
  BY <1>2 DEF ChainsMove
<1>4. IInv' /\ TypeOK'
  BY <1>3, IInvStep, ClientViewAssumption, PacketAssumption DEF RelayInv, IInv, DeliveryInv
<1>5. StoresGrow
  BY <1>1, <1>3, StoresGrowIn, PacketAssumption DEF RelayInv
<1>6. HeadersGrow /\ HeadersInOrder'
  BY <1>1, <1>3, <1>5, HeadersStep, ClientViewAssumption, PacketAssumption DEF RelayInv
<1>7. \A c \in Chain : consensus[c] \subseteq consensus'[c]
  BY <1>1, <1>3, ClientsLearn, PacketAssumption
<1>8. LoggedIsShown'
  BY <1>1, <1>2, <1>4, <1>5, <1>6, LoggedStep, ClientViewAssumption DEF RelayInv
<1>9. TasksAreShown'
  BY <1>1, <1>2, <1>4, <1>5, <1>6, <1>7, TasksStep, ClientViewAssumption DEF RelayInv
<1> QED
  BY <1>2, <1>4, <1>5, <1>6, <1>7, <1>8, <1>9 DEF RelayInv

(* The inductive invariant of RelayMessage: the events that are logged and *)
(* the tasks made of them are shown by every header from their height on.  *)
THEOREM RelayInvariant == RelaySpec => []RelayInv
<1>1. Init /\ InitRelay => RelayInv
  BY InitRelayInv, ClientViewAssumption, PacketAssumption
<1>2. RelayInv /\ [RelayNext]_allVars => RelayInv'
  BY RelayInvStep, ClientViewAssumption, PacketAssumption
<1> QED
  BY <1>1, <1>2, PTL DEF RelaySpec

(* Every message Voyager submits carries a proof at a header the client    *)
(* knows, whose root has what the message claims, unless its packet was    *)
(* resolved: the heights block-message chooses are late enough on a chain  *)
(* whose root lags and on one whose root does not.                         *)
THEOREM RelayedProvable == RelaySpec => []RelayedIsProvable
<1>1. ASSUME RelayInv, NEW t \in relays, NEW cs \in t.proof
      PROVE  /\ cs \in consensus[counterparty(t.chain)]
             /\ HasEvent(t.chain, t.event, cs.root)
  BY <1>1 DEF RelayInv, TasksAreShown
<1>2. ASSUME NEW t, NEW cs, HasEvent(t.chain, t.event, cs.root)
      PROVE  /\ t.event.type = "ChannelOpenAck" => cs.root.channel = "OPEN"
             /\ t.event.type = "SendPacket" =>
                  \/ t.event.packet \in cs.root.packets
                  \/ t.event.packet \notin commitments[t.chain].packets
             /\ t.event.type = "WriteAcknowledgement" =>
                  [sequence |-> t.event.packet.sequence, ack |-> t.event.ack] \in cs.root.acks
  BY <1>2 DEF HasEvent
<1>3. RelayInv => RelayedIsProvable
  BY <1>1, <1>2, Zenon DEF RelayedIsProvable
<1> QED
  BY <1>3, RelayInvariant, PTL

-----------------------------------------------------------------------------
(* Why Voyager gives a packet up *)

Branch == [kind : {"receipt", "height", "timestamp", "won"},
           until : SUBSET Nat, proof : SUBSET Header]

(* A branch waits for a height at which its timeout has passed, and its    *)
(* proof is a header from there on, without the receipt.                   *)
RaceFits(c, p, b) ==
  /\ b.kind \in {"receipt", "won"} => b.until = {}
  /\ b.kind = "height" =>
       ~isZero(p.timeout_height) /\ b.until = {p.timeout_height.revision_height}
  /\ b.kind = "timestamp" =>
       /\ p.timeout_timestamp # 0
       /\ \A h \in b.until : \E hd \in headers[counterparty(c)] :
            hd.height = h /\ timestampReached(hd, p)
  /\ \A cs \in b.proof :
       /\ cs \in consensus[c] /\ p.sequence \notin cs.root.receipts
       /\ \E h \in b.until : cs.height >= h

RacesFit ==
  /\ races \in [Chain -> [Packet -> SUBSET Branch]]
  /\ \A c \in Chain, p \in Packet : \A b \in races[c][p] : RaceFits(c, p, b)

(* What GivesUpOnlyTooEarly blames.                                        *)
TooEarly(c, p) ==
  \E cs \in consensus[c] :
    /\ ~timeoutReached(c, p, cs)
    /\ \/ /\ ~isZero(p.timeout_height)
          /\ cs.height >= p.timeout_height.revision_height
       \/ /\ p.timeout_timestamp # 0
          /\ cs.timestamp \div Second > p.timeout_timestamp \div Second

(* There is nothing left to do for the packet, or nothing that helps.      *)
Settled(c, p) ==
  \/ p.sequence \in commitments[counterparty(c)].receipts
  \/ TooEarly(c, p)

(* A race is only won, and over, when the packet is settled.               *)
Remembered(c, p) ==
  /\ isPolled(c, p) /\ races[c][p] = {} => Settled(c, p)
  /\ won \in races[c][p] => Settled(c, p)

(* Only a packet that was sent has a race.                                 *)
RacedIsSent ==
  \A c \in Chain, p \in Packet :
    races[c][p] # {} => p.sequence < commitments[c].nextSequenceSend

NobodyForgets == \A c \in Chain : \A p \in commitments[c].packets : Remembered(c, p)

(* What the chains and clients do keeps a branch fit.                      *)
LEMMA FitStays ==
  ASSUME HeadersGrow, \A d \in Chain : consensus[d] \subseteq consensus'[d],
         NEW c \in Chain, NEW p \in Packet, NEW b, RaceFits(c, p, b)
  PROVE  RaceFits(c, p, b)'
<1>1. counterparty(c) \in Chain
  BY TwoChains
<1>2. headers[counterparty(c)] \subseteq headers'[counterparty(c)]
  BY <1>1 DEF HeadersGrow
<1>3. consensus[c] \subseteq consensus'[c]
  OBVIOUS
<1> QED
  BY <1>2, <1>3 DEF RaceFits

(* A race that gets branches that fit is as good as the others.            *)
LEMMA OneRace ==
  ASSUME RacesFit, HeadersGrow, \A d \in Chain : consensus[d] \subseteq consensus'[d],
         NEW c \in Chain, NEW p \in Packet, NEW S \in SUBSET Branch,
         \A b \in S : RaceFits(c, p, b),
         races' = [races EXCEPT ![c][p] = S]
  PROVE  RacesFit'
<1>1. /\ races' \in [Chain -> [Packet -> SUBSET Branch]]
      /\ races'[c][p] = S
      /\ \A d \in Chain, q \in Packet : ~(d = c /\ q = p) => races'[d][q] = races[d][q]
  BY DEF RacesFit
<1>2. ASSUME NEW d \in Chain, NEW q \in Packet, NEW b \in races'[d][q]
      PROVE  RaceFits(d, q, b)'
  <2>1. RaceFits(d, q, b)
    BY <1>1, <1>2 DEF RacesFit
  <2> QED
    BY <2>1, FitStays
<1> QED
  BY <1>1, <1>2 DEF RacesFit

(* The branches of a new race fit.                                         *)
LEMMA NewRace ==
  ASSUME PacketAssumption, NEW c \in Chain, NEW p \in Packet
  PROVE  /\ AggregatePacketTimeout(p) \in SUBSET Branch
         /\ AggregatePacketTimeout(p) # {} /\ won \notin AggregatePacketTimeout(p)
         /\ \A b \in AggregatePacketTimeout(p) : RaceFits(c, p, b)
<1>1. p.timeout_height.revision_height \in Nat
  BY PacketAssumption DEF PacketAssumption, Packet, Height
<1>2. ASSUME NEW b \in AggregatePacketTimeout(p)
      PROVE  b \in Branch /\ RaceFits(c, p, b)
  <2>1. CASE b = branch("receipt", {})
    BY <2>1 DEF branch, Branch, RaceFits
  <2>2. CASE /\ ~isZero(p.timeout_height)
             /\ b = branch("height", {p.timeout_height.revision_height})
    BY <1>1, <2>2 DEF branch, Branch, RaceFits
  <2>3. CASE p.timeout_timestamp # 0 /\ b = branch("timestamp", {})
    BY <2>3 DEF branch, Branch, RaceFits
  <2> QED
    BY <1>2, <2>1, <2>2, <2>3 DEF AggregatePacketTimeout
<1>3. won \notin AggregatePacketTimeout(p)
  BY DEF AggregatePacketTimeout, branch, won
<1> QED
  BY <1>2, <1>3 DEF AggregatePacketTimeout

(* What each step that changes a race leaves of it.                        *)
RaceChange(c, p) ==
  \E S \in SUBSET Branch :
    /\ races' = [races EXCEPT ![c][p] = S]
    /\ \A b \in S : RaceFits(c, p, b)

(* A branch learns the height or gets the proof it waits for, it wins, or  *)
(* the race is over.                                                       *)
LEMMA RaceChanges ==
  ASSUME TypeOK, HeadersInOrder, ClientsBehind, RacesFit, NEW c \in Chain, NEW p \in Packet,
         RaceStep(c, p)
  PROVE  RaceChange(c, p)
<1>1. CASE endRace(c, p)
  <2>1. races' = [races EXCEPT ![c][p] = {}]
    BY <1>1 DEF endRace
  <2> DEFINE S == {}
  <2>2. S \in SUBSET Branch /\ \A b \in S : RaceFits(c, p, b)
    OBVIOUS
  <2>3. races' = [races EXCEPT ![c][p] = S]
    BY <2>1
  <2> HIDE DEF S
  <2> QED
    BY <2>2, <2>3 DEF RaceChange
<1>2. races[c][p] \subseteq Branch /\ \A b \in races[c][p] : RaceFits(c, p, b)
  BY DEF RacesFit
<1>5. ASSUME NEW b \in races[c][p], returnNoop(c, p, b)
      PROVE  RaceChange(c, p)
  <2>1. won \in Branch /\ RaceFits(c, p, won)
    BY DEF won, branch, Branch, RaceFits
  <2> DEFINE S == (races[c][p] \ {b}) \cup {won}
  <2>2. S \in SUBSET Branch /\ \A a \in S : RaceFits(c, p, a)
    BY <1>2, <2>1
  <2>3. races' = [races EXCEPT ![c][p] = S]
    BY <1>5 DEF returnNoop
  <2> HIDE DEF S
  <2> QED
    BY <2>2, <2>3 DEF RaceChange
<1>3. CASE waitForTimestamp(c, p)
  <2> DEFINE latest == latestHeader(counterparty(c))
  <2>1. PICK b \in races[c][p] :
          /\ b.kind = "timestamp" /\ b.until = {}
          /\ timestampReached(latest, p)
          /\ races' = [races EXCEPT ![c][p] =
               (@ \ {b}) \cup {[b EXCEPT !.until = {latest.height}]}]
    BY <1>3 DEF waitForTimestamp
  <2>2. latest \in headers[counterparty(c)] /\ latest.height \in Nat
    BY TwoChains, LatestIs DEF TypeOK, Header
  <2> DEFINE new == [b EXCEPT !.until = {latest.height}]
             S == (races[c][p] \ {b}) \cup {new}
  <2>3. b \in Branch /\ RaceFits(c, p, b)
    BY <1>2
  <2>4. /\ new \in Branch /\ new.kind = "timestamp" /\ new.until = {latest.height}
        /\ new.proof = b.proof
    BY <2>1, <2>2, <2>3 DEF Branch
  <2>5. b.proof = {}
    BY <2>1, <2>3 DEF RaceFits
  <2>6. races' = [races EXCEPT ![c][p] = S]
    BY <2>1
  <2> HIDE DEF new, latest
  <2>7. RaceFits(c, p, new)
    BY <2>1, <2>2, <2>3, <2>4, <2>5 DEF RaceFits
  <2>8. S \in SUBSET Branch /\ \A a \in S : RaceFits(c, p, a)
    BY <1>2, <2>4, <2>7
  <2> HIDE DEF S
  <2> QED
    BY <2>6, <2>8 DEF RaceChange
<1>4. CASE aggregateTimeout(c, p)
  <2> DEFINE trusted == latestConsensus(c)
  <2>1. PICK b \in races[c][p], h \in UNION {a.until : a \in races[c][p]} :
          /\ h \in b.until /\ b.proof = {}
          /\ trusted.height >= h
          /\ IF p.sequence \in trusted.root.receipts
             THEN returnNoop(c, p, b)
             ELSE races' = [races EXCEPT ![c][p] =
                    (@ \ {b}) \cup {[b EXCEPT !.proof = {trusted}]}]
    BY <1>4 DEF aggregateTimeout
  <2>2. trusted \in consensus[c] /\ trusted \in Header
    BY TrustedIs DEF TypeOK
  <2> DEFINE new == [b EXCEPT !.proof = {trusted}]
             S == (races[c][p] \ {b}) \cup {new}
  <2>3. b \in Branch /\ RaceFits(c, p, b)
    BY <1>2
  <2>4. /\ new \in Branch /\ new.kind = b.kind /\ new.until = b.until
        /\ new.proof = {trusted}
    BY <2>2, <2>3 DEF Branch
  <2>5. CASE p.sequence \in trusted.root.receipts
    BY <1>5, <2>1, <2>5
  <2>6. CASE p.sequence \notin trusted.root.receipts
    <3>1. races' = [races EXCEPT ![c][p] = S]
      BY <2>1, <2>6
    <3> HIDE DEF new, trusted
    <3>2. RaceFits(c, p, new)
      BY <2>1, <2>2, <2>3, <2>4, <2>6 DEF RaceFits
    <3>3. S \in SUBSET Branch /\ \A a \in S : RaceFits(c, p, a)
      BY <1>2, <2>4, <3>2
    <3> HIDE DEF S
    <3> QED
      BY <3>1, <3>3 DEF RaceChange
  <2> QED
    BY <2>5, <2>6
<1> QED
  BY <1>1, <1>3, <1>4, <1>5 DEF RaceStep, waitForPacketReceipt, submitTimeout

(* So the races stay fit.                                                  *)
LEMMA RacesStep ==
  ASSUME PacketAssumption, TypeOK, HeadersInOrder, ClientsBehind, RacesFit, HeadersGrow,
         \A d \in Chain : consensus[d] \subseteq consensus'[d], RacesMove
  PROVE  RacesFit'
<1>1. CASE UNCHANGED races
  <2>1. \A c \in Chain, p \in Packet : \A b \in races'[c][p] : RaceFits(c, p, b)'
    BY <1>1, FitStays DEF RacesFit
  <2> QED
    BY <1>1, <2>1 DEF RacesFit
<1>2. ASSUME NEW c \in Chain, fetchBlockRange(c)
      PROVE  RacesFit'
  <2>1. PICK sent :
          races' = [races EXCEPT ![c] =
            [p \in Packet |-> IF p \in sent THEN AggregatePacketTimeout(p) ELSE @[p]]]
    BY <1>2 DEF fetchBlockRange
  <2>2. /\ races' \in [Chain -> [Packet -> SUBSET Branch]]
        /\ \A d \in Chain, p \in Packet :
             races'[d][p] = IF d = c /\ p \in sent THEN AggregatePacketTimeout(p)
                                                   ELSE races[d][p]
    BY <2>1, NewRace, PacketAssumption DEF RacesFit
  <2>3. ASSUME NEW d \in Chain, NEW p \in Packet, NEW b \in races'[d][p]
        PROVE  RaceFits(d, p, b)'
    <3>1. RaceFits(d, p, b)
      BY <2>2, <2>3, NewRace, PacketAssumption DEF RacesFit
    <3> QED
      BY <3>1, FitStays
  <2> QED
    BY <2>2, <2>3 DEF RacesFit
<1>3. ASSUME NEW c \in Chain, NEW p \in Packet, RaceStep(c, p)
      PROVE  RacesFit'
  <2>1. RaceChange(c, p)
    BY <1>3, RaceChanges
  <2> QED
    BY <2>1, OneRace DEF RaceChange
<1> QED
  BY <1>1, <1>2, <1>3 DEF RacesMove

(* A race is run for a packet that was sent, and goes on for no other.     *)
LEMMA RacedStep ==
  ASSUME PacketAssumption, TypeOK, TypeOK', HeadersInOrder, ClientsBehind, LoggedIsShown,
         RacesFit, RacedIsSent, StoresGrow, RacesMove
  PROVE  RacedIsSent'
<1> SUFFICES ASSUME NEW c \in Chain, NEW p \in Packet, races'[c][p] # {}
             PROVE  p.sequence < commitments'[c].nextSequenceSend
  BY DEF RacedIsSent
<1>1. p.sequence < commitments[c].nextSequenceSend
        => p.sequence < commitments'[c].nextSequenceSend
  <2>1. /\ p.sequence \in Nat /\ commitments[c].nextSequenceSend \in Nat
        /\ commitments'[c].nextSequenceSend \in Nat
    BY PacketAssumption DEF TypeOK, Store, Packet, Sequence
  <2> QED
    BY <2>1 DEF StoresGrow
<1>2. CASE races'[c][p] = races[c][p]
  BY <1>1, <1>2 DEF RacedIsSent
<1>3. ASSUME NEW d \in Chain, fetchBlockRange(d), races'[c][p] # races[c][p]
      PROVE  p.sequence < commitments[c].nextSequenceSend
  <2> DEFINE polled == {e \in log[d] : e.block \in next[d]..(latestHeader(d).height - 1)}
             sent == {e.event.packet : e \in {f \in polled : f.event.type = "SendPacket"}}
  <2>1. races' = [races EXCEPT ![d] =
          [q \in Packet |-> IF q \in sent THEN AggregatePacketTimeout(q) ELSE @[q]]]
    BY <1>3 DEF fetchBlockRange
  <2>2. ~(c = d /\ p \in sent) => races'[c][p] = races[c][p]
    <3> HIDE DEF sent
    <3> QED
      BY <2>1 DEF RacesFit
  <2>3. PICK e \in log[c] : e.event.type = "SendPacket" /\ e.event.packet = p
    BY <1>3, <2>2
  <2> QED
    BY <2>3 DEF LoggedIsShown, Happened
<1>4. ASSUME NEW d \in Chain, NEW q \in Packet, RaceStep(d, q), races'[c][p] # races[c][p]
      PROVE  races[c][p] # {}
  <2>1. RaceChange(d, q)
    BY <1>4, RaceChanges
  <2>2. d = c /\ q = p
    BY <1>4, <2>1 DEF RaceChange, RacesFit
  <2>3. \E b \in races[d][q] : TRUE
    BY <1>4 DEF RaceStep, waitForPacketReceipt, waitForTimestamp, aggregateTimeout, submitTimeout,
                endRace
  <2> QED
    BY <2>2, <2>3
<1> QED
  BY <1>1, <1>2, <1>3, <1>4 DEF RacesMove, RacedIsSent

(* Of two times the later one is not in an earlier second.                 *)
LEMMA SecondsGrow ==
  ASSUME NEW s \in Nat \ {0}, NEW a \in Nat, NEW b \in Nat, a <= b
  PROVE  /\ a \div s \in Nat /\ b \div s \in Nat
         /\ a \div s <= b \div s
<1> DEFINE q == a \div s
           r == b \div s
<1>1. q \in Nat /\ r \in Nat
  BY Z3
<1>2. a >= s * q
  BY Z3
<1>3. b < s * r + s
  BY Z3
<1> HIDE DEF q, r
<1>4. s * q < s * (r + 1)
  BY <1>1, <1>2, <1>3
<1>5. ~(q >= r + 1)
  <2> SUFFICES ASSUME q >= r + 1 PROVE FALSE
    OBVIOUS
  <2>1. s * q >= s * (r + 1)
    BY <1>1
  <2> QED
    BY <1>1, <1>4, <2>1
<1>6. q <= r
  BY <1>1, <1>5
<1> QED
  BY <1>1, <1>6 DEF q, r

OpenAndFit == OpenWhileSent /\ RacesFit /\ RacedIsSent

(* The handler refuses a timeout of a packet that is still committed only  *)
(* because its proof is not past all the packet's timeouts.                *)
LEMMA RefusedTooEarly ==
  ASSUME RelayAssumption, PacketAssumption, RelayInv, OpenAndFit,
         NEW c \in Chain, NEW p \in Packet, p \in commitments[c].packets,
         NEW b \in races[c][p], NEW cs \in b.proof, ~timeoutAccepted(c, p, cs)
  PROVE  TooEarly(c, p)
<1> DEFINE d == counterparty(c)
<1>1. /\ TypeOK /\ d \in Chain /\ consensus[c] \subseteq headers[d]
      /\ Second \in Nat \ {0} /\ p.timeout_timestamp \in Nat
  BY TwoChains, RelayAssumption, PacketAssumption
     DEF RelayInv, IInv, DeliveryInv, ClientsBehind, RelayAssumption, PacketAssumption, Packet
<1>2. b \in Branch /\ RaceFits(c, p, b)
  BY DEF OpenAndFit, RacesFit
<1>3. PICK h \in b.until : cs.height >= h
  BY <1>2 DEF RaceFits
<1>4. cs \in consensus[c] /\ p.sequence \notin cs.root.receipts
  BY <1>2 DEF RaceFits
<1>5. ~timeoutReached(c, p, cs)
  BY <1>4 DEF timeoutAccepted, ensureChannelState, OpenAndFit, OpenWhileSent, timeoutProof, RelayInv
<1>6. CASE b.kind = "height"
  BY <1>2, <1>3, <1>4, <1>5, <1>6 DEF RaceFits, TooEarly
<1>7. CASE b.kind = "timestamp"
  <2>1. p.timeout_timestamp # 0
    BY <1>2, <1>7 DEF RaceFits
  <2>2. PICK hd \in headers[d] : hd.height = h /\ timestampReached(hd, p)
    BY <1>2, <1>3, <1>7 DEF RaceFits
  <2>3. cs \in headers[d] /\ hd.timestamp <= cs.timestamp
    BY <1>1, <1>3, <1>4, <2>2 DEF RelayInv, HeadersInOrder
  <2>4. hd.timestamp \in Nat /\ cs.timestamp \in Nat
    BY <1>1, <2>3 DEF TypeOK, Header
  <2>5. /\ hd.timestamp \div Second \in Nat /\ cs.timestamp \div Second \in Nat
        /\ hd.timestamp \div Second <= cs.timestamp \div Second
    BY <1>1, <2>3, <2>4, SecondsGrow
  <2>6. hd.timestamp \div Second >= (p.timeout_timestamp \div Second) + 1
    BY <2>2 DEF timestampReached
  <2>7. p.timeout_timestamp \div Second \in Nat
    BY <1>1, SecondsGrow
  <2> DEFINE now == cs.timestamp \div Second
             then == hd.timestamp \div Second
             late == p.timeout_timestamp \div Second
  <2>8. now > late
    <3>1. now \in Nat /\ then \in Nat /\ late \in Nat /\ then <= now /\ then >= late + 1
      BY <2>5, <2>6, <2>7
    <3> HIDE DEF now, then, late
    <3> QED
      BY <3>1
  <2> QED
    BY <1>4, <1>5, <2>1, <2>8 DEF TooEarly
<1>8. CASE b.kind \in {"receipt", "won"}
  BY <1>2, <1>3, <1>8 DEF RaceFits
<1> QED
  BY <1>2, <1>6, <1>7, <1>8 DEF Branch

(* A packet that is still committed is logged, raced for or settled, and   *)
(* its race is not won before it is settled.                               *)
LEMMA ForgetsStep ==
  ASSUME RelayAssumption, PacketAssumption, RelayInv, OpenAndFit, NobodyForgets,
         TypeOK', StoresGrow, \A d \in Chain : consensus[d] \subseteq consensus'[d], RacesMove
  PROVE  NobodyForgets'
<1> SUFFICES ASSUME NEW c \in Chain, NEW p \in Packet, p \in commitments'[c].packets
             PROVE  Remembered(c, p)'
  BY DEF NobodyForgets, TypeOK, Store
<1>1. Settled(c, p) => Remembered(c, p)'
  <2>1. TooEarly(c, p) => TooEarly(c, p)'
    BY DEF TooEarly
  <2>2. commitments[counterparty(c)].receipts \subseteq commitments'[counterparty(c)].receipts
    BY TwoChains DEF StoresGrow
  <2> QED
    BY <2>1, <2>2 DEF Remembered, Settled
<1>2. p \in commitments[c].packets => Remembered(c, p)
  BY DEF NobodyForgets
<1>3. CASE UNCHANGED races /\ NothingSent
  BY <1>1, <1>2, <1>3 DEF NothingSent, Remembered, isPolled
<1>4. CASE UNCHANGED races /\ Transaction /\ emit
  <2>1. log'[c] = log[c] \cup {[block |-> block[c].number, event |-> e] : e \in emitted(c)}
    BY <1>4 DEF emit
  <2>2. CASE p \in commitments[c].packets
    BY <1>1, <1>2, <1>4, <2>1, <2>2 DEF Remembered, isPolled
  <2>3. CASE p \notin commitments[c].packets
    <3> DEFINE event == [type |-> "SendPacket", packet |-> p]
               e == [block |-> block[c].number, event |-> event]
    <3>1. event \in emitted(c)
      BY <2>3 DEF emitted
    <3>2. e.event = event /\ event.type = "SendPacket" /\ event.packet = p
      OBVIOUS
    <3>3. e \in log'[c]
      BY <2>1, <3>1
    <3> HIDE DEF e, event
    <3>4. ~isPolled(c, p)'
      BY <3>2, <3>3 DEF isPolled
    <3>5. races'[c][p] = {}
      BY <1>4, <2>3 DEF StoresGrow, OpenAndFit, RacedIsSent
    <3> QED
      BY <3>4, <3>5 DEF Remembered
  <2> QED
    BY <2>2, <2>3
<1>5. ASSUME UNCHANGED vars, NEW d \in Chain, fetchBlockRange(d)
      PROVE  Remembered(c, p)'
  <2> DEFINE to == latestHeader(d).height
             polled == {e \in log[d] : e.block \in next[d]..(to - 1)}
             sent == {e.event.packet : e \in {f \in polled : f.event.type = "SendPacket"}}
  <2>1. /\ log' = [log EXCEPT ![d] = @ \ polled]
        /\ races' = [races EXCEPT ![d] =
             [q \in Packet |-> IF q \in sent THEN AggregatePacketTimeout(q) ELSE @[q]]]
    BY <1>5 DEF fetchBlockRange
  <2>2. \A e \in polled : e.event.type = "SendPacket" => e.event.packet \in sent
    OBVIOUS
  <2> HIDE DEF to, polled, sent
  <2>3. /\ c # d => log'[c] = log[c] /\ races'[c][p] = races[c][p]
        /\ c = d => log'[c] = log[c] \ polled
        /\ c = d => races'[c][p] = IF p \in sent THEN AggregatePacketTimeout(p) ELSE races[c][p]
    BY <2>1 DEF OpenAndFit, RacesFit, RelayInv, LoggedIsShown
  <2>4. AggregatePacketTimeout(p) # {} /\ won \notin AggregatePacketTimeout(p)
    BY NewRace, PacketAssumption
  <2>5. p \in commitments[c].packets
    BY <1>5 DEF vars, packetVars
  <2>6. CASE races'[c][p] # races[c][p]
    BY <2>3, <2>4, <2>6 DEF Remembered
  <2>7. CASE races'[c][p] = races[c][p] /\ ~isPolled(c, p)
    <3>1. PICK e \in log[c] : e.event.type = "SendPacket" /\ e.event.packet = p
      BY <2>7 DEF isPolled
    <3>2. CASE c = d /\ e \in polled
      BY <2>2, <2>3, <2>4, <3>1, <3>2 DEF Remembered
    <3>3. CASE ~(c = d /\ e \in polled)
      <4>1. e \in log'[c]
        BY <2>3, <3>3
      <4>2. ~isPolled(c, p)'
        BY <3>1, <4>1 DEF isPolled
      <4> QED
        BY <1>1, <1>2, <2>5, <2>7, <4>2 DEF Remembered
    <3> QED
      BY <3>2, <3>3
  <2>8. CASE races'[c][p] = races[c][p] /\ isPolled(c, p)
    BY <1>1, <1>2, <2>5, <2>8 DEF Remembered
  <2> QED
    BY <2>6, <2>7, <2>8
<1>6. ASSUME NothingSent, NEW d \in Chain, NEW q \in Packet,
             RaceStep(d, q)
      PROVE  Remembered(c, p)'
  <2>1. p \in commitments[c].packets /\ log' = log
    BY <1>6 DEF NothingSent
  <2>2. RaceChange(d, q)
    BY <1>6, RaceChanges DEF RelayInv, IInv, DeliveryInv, OpenAndFit
  <2>3. CASE ~(d = c /\ q = p)
    <3>1. races'[c][p] = races[c][p]
      BY <2>2, <2>3 DEF RaceChange, OpenAndFit, RacesFit
    <3> QED
      BY <1>1, <1>2, <2>1, <3>1 DEF Remembered, isPolled
  <2>4. CASE waitForPacketReceipt(c, p)
    BY <1>1, <2>4 DEF waitForPacketReceipt, Settled
  <2>5. CASE waitForTimestamp(c, p)
    <3>1. PICK b \in races[c][p] :
            /\ b.kind = "timestamp"
            /\ races' = [races EXCEPT ![c][p] = (@ \ {b}) \cup
                 {[b EXCEPT !.until = {latestHeader(counterparty(c)).height}]}]
      BY <2>5 DEF waitForTimestamp
    <3> DEFINE new == [b EXCEPT !.until = {latestHeader(counterparty(c)).height}]
    <3>2. b \in Branch
      BY DEF OpenAndFit, RacesFit
    <3>3. new # won
      BY <3>1, <3>2 DEF won, branch, Branch
    <3>4. races' = [races EXCEPT ![c][p] = (@ \ {b}) \cup {new}]
      BY <3>1
    <3> HIDE DEF new
    <3>5. races'[c][p] = (races[c][p] \ {b}) \cup {new}
      BY <3>4 DEF OpenAndFit, RacesFit
    <3> QED
      BY <1>1, <1>2, <2>1, <3>3, <3>5 DEF Remembered
  <2>6. CASE aggregateTimeout(c, p)
    <3> DEFINE trusted == latestConsensus(c)
    <3>1. CASE p.sequence \in trusted.root.receipts
      <4>1. trusted \in headers[counterparty(c)] /\ counterparty(c) \in Chain
        BY TwoChains, TrustedIs DEF RelayInv, IInv, DeliveryInv, ClientsBehind
      <4>2. p.sequence \in commitments[counterparty(c)].receipts
        BY <3>1, <4>1 DEF RelayInv, HeadersInOrder
      <4> QED
        BY <1>1, <4>2 DEF Settled
    <3>2. CASE p.sequence \notin trusted.root.receipts
      <4>1. PICK b \in races[c][p] :
              /\ b.until # {}
              /\ races' = [races EXCEPT ![c][p] =
                   (@ \ {b}) \cup {[b EXCEPT !.proof = {trusted}]}]
        BY <2>6, <3>2 DEF aggregateTimeout
      <4> DEFINE new == [b EXCEPT !.proof = {trusted}]
      <4>2. b \in Branch
        BY DEF OpenAndFit, RacesFit
      <4>3. new # won
        BY <4>1, <4>2 DEF won, branch, Branch
      <4>4. races' = [races EXCEPT ![c][p] = (@ \ {b}) \cup {new}]
        BY <4>1
      <4> HIDE DEF new, trusted
      <4>5. races'[c][p] = (races[c][p] \ {b}) \cup {new}
        BY <4>4 DEF OpenAndFit, RacesFit
      <4> QED
        BY <1>1, <1>2, <2>1, <4>3, <4>5 DEF Remembered
    <3> QED
      BY <3>1, <3>2
  <2>7. CASE submitTimeout(c, p)
    <3>0. PICK b \in races[c][p] : \E cs \in b.proof :
            \/ MsgTimeout(c, p, cs)
            \/ ~timeoutAccepted(c, p, cs) /\ UNCHANGED vars
      BY <2>7 DEF submitTimeout
    <3>1. PICK cs \in b.proof :
            \/ MsgTimeout(c, p, cs)
            \/ ~timeoutAccepted(c, p, cs) /\ UNCHANGED vars
      BY <3>0
    <3>2. CASE MsgTimeout(c, p, cs)
      <4>1. commitments'[c].packets = commitments[c].packets \ {p}
        BY <3>2, ResolveEffect DEF MsgTimeout, RelayInv, IInv, DeliveryInv
      <4> QED
        BY <4>1
    <3>3. CASE ~timeoutAccepted(c, p, cs)
      <4>1. TooEarly(c, p)
        BY <2>1, <3>1, <3>3, RefusedTooEarly, RelayAssumption, PacketAssumption
      <4> QED
        BY <1>1, <4>1 DEF Settled
    <3> QED
      BY <3>1, <3>2, <3>3
  <2>8. CASE endRace(c, p)
    <3>1. Settled(c, p)
      BY <1>2, <2>1, <2>8 DEF endRace, Remembered
    <3> QED
      BY <1>1, <3>1
  <2> QED
    BY <1>6, <2>3, <2>4, <2>5, <2>6, <2>7, <2>8 DEF RaceStep
<1> QED
  BY <1>3, <1>4, <1>5, <1>6 DEF RacesMove

RaceInv == OpenAndFit /\ NobodyForgets

(* No packet was sent yet.                                                 *)
LEMMA InitRaceInv == ASSUME PacketAssumption, Init, InitRelay PROVE RaceInv
<1>1. \A c \in Chain : commitments[c].packets = {}
  BY DEF Init, InitStore
<1>2. races = [c \in Chain |-> [p \in Packet |-> {}]]
  BY DEF InitRelay
<1>3. RacesFit /\ RacedIsSent
  BY <1>2 DEF RacesFit, RacedIsSent
<1> QED
  BY <1>1, <1>3 DEF RaceInv, OpenAndFit, OpenWhileSent, NobodyForgets

(* The inductive invariant of the races, on top of RelayInv.               *)
THEOREM RaceInvariant == RelaySpec => []RaceInv
<1>1. Init /\ InitRelay => RaceInv
  BY InitRaceInv, PacketAssumption
<1>2. ASSUME RelayInv, RaceInv, [RelayNext]_allVars
      PROVE  RaceInv'
  <2>1. /\ RelayInv' /\ RacesMove /\ StoresGrow /\ HeadersGrow
        /\ \A c \in Chain : consensus[c] \subseteq consensus'[c]
    BY <1>2, RelayInvStep, ClientViewAssumption, PacketAssumption
  <2>2. /\ TypeOK /\ TypeOK' /\ ClientsBehind /\ HeadersInOrder
        /\ OpenAndFit /\ RacesFit /\ RacedIsSent /\ OpenWhileSent /\ NobodyForgets
        /\ LoggedIsShown
    BY <1>2, <2>1 DEF RelayInv, IInv, DeliveryInv, RaceInv, OpenAndFit
  <2>3. OpenWhileSent'
    BY <2>1, <2>2 DEF OpenWhileSent, StoresGrow
  <2>4. RacesFit'
    BY <2>1, <2>2, RacesStep, PacketAssumption
  <2>5. NobodyForgets'
    BY <1>2, <2>1, <2>2, ForgetsStep, RelayAssumption, PacketAssumption
  <2>6. RacedIsSent'
    BY <2>1, <2>2, RacedStep, PacketAssumption
  <2> QED
    BY <2>3, <2>4, <2>5, <2>6 DEF RaceInv, OpenAndFit
<1> QED
  BY <1>1, <1>2, RelayInvariant, PTL DEF RelaySpec

(* Voyager stops waiting to time out a packet that has not arrived only    *)
(* when it submitted a timeout at a header past one of the packet's        *)
(* timeouts that timeoutPacket, which wants both, does not take.           *)
THEOREM GivenUpTooEarly == RelaySpec => []GivesUpOnlyTooEarly
<1>1. ASSUME RaceInv, NEW c \in Chain, NEW p \in Packet, GivenUp(c, p)
      PROVE  TooEarly(c, p)
  BY <1>1 DEF RaceInv, NobodyForgets, Remembered, Settled, GivenUp
<1>2. RaceInv => GivesUpOnlyTooEarly
  BY <1>1 DEF GivesUpOnlyTooEarly, TooEarly
<1> QED
  BY <1>2, RaceInvariant, PTL

=============================================================================
