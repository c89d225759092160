----------------------------- MODULE IBCPacket -----------------------------
(***************************************************************************)
(* The packets of one channel between two deployments of the IBC handler   *)
(* (core/04-channel/IBCPacket.sol), from the moment the chain that began   *)
(* the handshake has opened its end: ChainA is OPEN and ChainB TRYOPEN.    *)
(*                                                                         *)
(* A message is handled in one transaction, so an action is one handler,   *)
(* the module callback it makes included; a handler that reverts, or whose *)
(* module reverts, is a step not taken.  A callback that re-enters the     *)
(* handler is the same steps one after the other: recvPacket's state is    *)
(* written before it calls the module, and a module that has more to do    *)
(* before the acknowledgement is one that returns an empty one.            *)
(***************************************************************************)
EXTENDS IBCClientView, Sequences, FiniteSets

CONSTANTS
  Ordering,         \* "ORDER_UNORDERED" or "ORDER_ORDERED"
  Senders,          \* the chains whose module sends packets
  Closable,         \* the chains whose module lets the channel be closed
  TimeoutHeight,    \* timeout heights a module asks for
  TimeoutTimestamp, \* timeout timestamps a module asks for, 0 for none
  Acknowledgement,  \* the acknowledgements a module returns
  EmptyAck,         \* what onRecvPacket returns to acknowledge later
  TimedOut,         \* the outcome of a packet that is not an acknowledgement
  MaxSequence       \* bound: packets sent per chain

Sequence == 1..MaxSequence
Packet == [sequence : Sequence,
           timeout_height : TimeoutHeight,
           timeout_timestamp : TimeoutTimestamp]
Outcome == Acknowledgement \cup {TimedOut}

ASSUME PacketAssumption ==
  /\ Ordering \in {"ORDER_UNORDERED", "ORDER_ORDERED"}
  /\ Senders \subseteq Chain /\ Closable \subseteq Chain
  /\ TimeoutHeight \subseteq Height
  /\ TimeoutTimestamp \subseteq Nat
  /\ EmptyAck \notin Acknowledgement
  /\ TimedOut \notin Acknowledgement
  /\ MaxSequence \in Nat

VARIABLES
  channels,     \* the state of the channel end each chain keeps
  commitments,  \* the provable store of each chain
  onRecv,       \* how often the module was handed each packet it receives
  outcomes      \* what the sending module was told about each packet, in order

packetVars == <<channels, commitments, onRecv, outcomes>>
vars == <<clientVars, packetVars>>

ChannelState == {"INIT", "TRYOPEN", "OPEN", "CLOSED"}

(* The commitments mapping, one field per kind of path.  A packet commit-  *)
(* ment is the hash of the packet's timeouts and data, kept as the packet. *)
Store == [channel : ChannelState,
          packets : SUBSET Packet,
          receipts : SUBSET Sequence,
          acks : SUBSET [sequence : Sequence, ack : Acknowledgement],
          nextSequenceSend : Nat,
          nextSequenceRecv : Nat,
          nextSequenceAck : Nat]

InitStore(state) ==
  [channel |-> state, packets |-> {}, receipts |-> {}, acks |-> {},
   nextSequenceSend |-> 1, nextSequenceRecv |-> 1, nextSequenceAck |-> 1]

(* channelOpenAck has run on ChainA in the current block.                  *)
Init ==
  /\ channels = [c \in Chain |-> IF c = ChainA THEN "OPEN" ELSE "TRYOPEN"]
  /\ commitments = [c \in Chain |-> InitStore(IF c = ChainA THEN "OPEN" ELSE "TRYOPEN")]
  /\ InitClientView([c \in Chain |-> InitStore(IF c = ChainA THEN "INIT" ELSE "TRYOPEN")])
  /\ onRecv = [c \in Chain |-> [p \in Packet |-> 0]]
  /\ outcomes = [c \in Chain |-> [p \in Packet |-> <<>>]]

-----------------------------------------------------------------------------
(* Helpers of the handlers *)

ensureChannelState(c) == channels[c] = "OPEN"

(* Writing at the key of entry's sequence replaces what the key held.      *)
put(entries, entry) ==
  {e \in entries : e.sequence # entry.sequence} \cup {entry}

(* Writing and deleting the packet commitment, with the sequence number    *)
(* each goes with.                                                         *)
withPacket(store, p) ==
  [store EXCEPT !.packets = put(@, p), !.nextSequenceSend = p.sequence + 1]

withoutPacket(store, p) == [store EXCEPT !.packets = @ \ {p}]

withAcknowledged(store, p) ==
  IF Ordering = "ORDER_ORDERED"
  THEN [store EXCEPT !.packets = @ \ {p}, !.nextSequenceAck = p.sequence + 1]
  ELSE withoutPacket(store, p)

(* The timeouts have passed at the counterparty header cs (timeoutPacket). *)
timeoutReached(c, p, cs) ==
  /\ cs.timestamp # 0
  /\ ~(p.timeout_timestamp > 0 /\ p.timeout_timestamp >= cs.timestamp)
  /\ ~(/\ ~isZero(p.timeout_height)
       /\ gte(p.timeout_height, heightOf(counterparty(c), cs)))

(* Mutant: the timeout height is not looked at.                            *)
timedOutHere_timestampOnly(c, p) ==
  p.timeout_timestamp # 0 /\ block[c].timestamp >= p.timeout_timestamp

(* The receiving chain is past one of the timeouts (recvPacket).  The      *)
(* revision number of the timeout height is not looked at.                 *)
timedOutHere(c, p) ==
  \/ /\ p.timeout_height.revision_height # 0
     /\ block[c].number >= p.timeout_height.revision_height
  \/ /\ p.timeout_timestamp # 0
     /\ block[c].timestamp >= p.timeout_timestamp

(* Mutant: an acknowledgement that exists is not noticed.                  *)
acknowledged_unnoticed(c, seq) == FALSE

acknowledged(c, seq) == \E a \in commitments[c].acks : a.sequence = seq

(* Mutant: an empty acknowledgement is written too.                        *)
withAck_empty(store, seq, ack) ==
  [store EXCEPT !.acks = @ \cup {[sequence |-> seq, ack |-> ack]}]

withAck(store, seq, ack) ==
  IF ack = EmptyAck THEN store
  ELSE [store EXCEPT !.acks = @ \cup {[sequence |-> seq, ack |-> ack]}]

(* Mutant: the new state is not committed.                                 *)
setChannel_uncommitted(c, state) ==
  /\ channels' = [channels EXCEPT ![c] = state]
  /\ UNCHANGED commitments

setChannel(c, state) ==
  /\ channels' = [channels EXCEPT ![c] = state]
  /\ commitments' = [commitments EXCEPT ![c].channel = state]

tell(c, p, outcome) == outcomes' = [outcomes EXCEPT ![c][p] = Append(@, outcome)]

-----------------------------------------------------------------------------
(* The rest of the channel's life *)

channelOpenConfirm(c) ==
  /\ channels[c] = "TRYOPEN"
  /\ \E cs \in consensus[c] : cs.root.channel = "OPEN"
  /\ setChannel(c, "OPEN")
  /\ UNCHANGED <<clientVars, onRecv, outcomes>>

channelCloseInit(c) ==
  /\ c \in Closable
  /\ ensureChannelState(c)
  /\ setChannel(c, "CLOSED")
  /\ UNCHANGED <<clientVars, onRecv, outcomes>>

channelCloseConfirm(c) ==
  /\ c \in Closable
  /\ ensureChannelState(c)
  /\ \E cs \in consensus[c] : cs.root.channel = "CLOSED"
  /\ setChannel(c, "CLOSED")
  /\ UNCHANGED <<clientVars, onRecv, outcomes>>

-----------------------------------------------------------------------------
(* Packets *)

sendPacket(c, timeoutHeight, timeoutTimestamp) ==
  LET seq == commitments[c].nextSequenceSend
      latest == latestConsensus(c)
      latestHeight == heightOf(counterparty(c), latest)
      p == [sequence |-> seq, timeout_height |-> timeoutHeight,
            timeout_timestamp |-> timeoutTimestamp]
  IN
  /\ c \in Senders /\ seq \in Sequence
  /\ ensureChannelState(c)
  /\ ~(timeoutTimestamp = 0 /\ isZero(timeoutHeight))
  /\ latestHeight.revision_height # 0
  /\ isZero(timeoutHeight) \/ ~gte(latestHeight, timeoutHeight)
  /\ latest.timestamp # 0
  /\ timeoutTimestamp = 0 \/ latest.timestamp < timeoutTimestamp
  /\ commitments' = [commitments EXCEPT ![c] = withPacket(@, p)]
  /\ UNCHANGED <<clientVars, channels, onRecv, outcomes>>

(* Mutants: no receipt is looked for; an ordered channel skips packets.    *)
receiptAllowed_again(c, seq) == Ordering = "ORDER_UNORDERED"
receiptAllowed_gap(c, seq) == seq >= commitments[c].nextSequenceRecv

(* The receipt, or the next sequence on an ordered channel.                *)
receiptAllowed(c, seq) ==
  \/ Ordering = "ORDER_UNORDERED" /\ seq \notin commitments[c].receipts
  \/ Ordering = "ORDER_ORDERED" /\ seq = commitments[c].nextSequenceRecv

withReceipt(store, seq) ==
  IF Ordering = "ORDER_UNORDERED"
  THEN [store EXCEPT !.receipts = @ \cup {seq}]
  ELSE [store EXCEPT !.nextSequenceRecv = seq + 1]

recvPacket(c, p, ack) ==
  /\ ensureChannelState(c)
  /\ ~timedOutHere(c, p)
  /\ \E cs \in consensus[c] : p \in cs.root.packets
  /\ receiptAllowed(c, p.sequence)
  /\ ack # EmptyAck => ~acknowledged(c, p.sequence)
  /\ commitments' = [commitments EXCEPT
       ![c] = withAck(withReceipt(@, p.sequence), p.sequence, ack)]
  /\ onRecv' = [onRecv EXCEPT ![c][p] = @ + 1]
  /\ UNCHANGED <<clientVars, channels, outcomes>>

(* The module acknowledges a packet it was handed and returned an empty    *)
(* acknowledgement for.                                                    *)
writeAcknowledgement(c, p, ack) ==
  /\ onRecv[c][p] > 0
  /\ ensureChannelState(c)
  /\ ~acknowledged(c, p.sequence)
  /\ commitments' = [commitments EXCEPT ![c] = withAck(@, p.sequence, ack)]
  /\ UNCHANGED <<clientVars, channels, onRecv, outcomes>>

acknowledgePacket(c, p, ack) ==
  LET seq == p.sequence IN
  /\ ensureChannelState(c)
  /\ p \in commitments[c].packets
  /\ \E cs \in consensus[c] : [sequence |-> seq, ack |-> ack] \in cs.root.acks
  /\ Ordering = "ORDER_ORDERED" => commitments[c].nextSequenceAck = seq
  /\ commitments' = [commitments EXCEPT ![c] = withAcknowledged(@, p)]
  /\ tell(c, p, ack)
  /\ UNCHANGED <<clientVars, channels, onRecv>>

(* Mutant: the unordered test as the ordered one stands, for a packet that *)
(* was received.                                                           *)
timeoutProof_received(p, cs) == p.sequence \in cs.root.receipts

(* The proof a timeout needs: on an unordered channel that there is no     *)
(* receipt, on an ordered one the counterparty's next sequence, which must *)
(* be past the packet's.                                                   *)
timeoutProof(p, cs) ==
  \/ /\ Ordering = "ORDER_ORDERED"
     /\ cs.root.nextSequenceRecv > p.sequence
  \/ /\ Ordering = "ORDER_UNORDERED"
     /\ p.sequence \notin cs.root.receipts

(* Mutant: the commitment is not deleted.                                  *)
timeoutPacket_kept(c, p) ==
  /\ ensureChannelState(c)
  /\ p \in commitments[c].packets
  /\ \E cs \in consensus[c] : timeoutReached(c, p, cs) /\ timeoutProof(p, cs)
  /\ tell(c, p, TimedOut)
  /\ UNCHANGED <<clientVars, channels, commitments, onRecv>>

(* An ordered channel is closed, its commitment left as it was.            *)
timeoutPacket(c, p) ==
  /\ ensureChannelState(c)
  /\ p \in commitments[c].packets
  /\ \E cs \in consensus[c] : timeoutReached(c, p, cs) /\ timeoutProof(p, cs)
  /\ channels' = [channels EXCEPT
       ![c] = IF Ordering = "ORDER_ORDERED" THEN "CLOSED" ELSE @]
  /\ commitments' = [commitments EXCEPT ![c] = withoutPacket(@, p)]
  /\ tell(c, p, TimedOut)
  /\ UNCHANGED <<clientVars, onRecv>>

-----------------------------------------------------------------------------
Next ==
  \E c \in Chain :
    \/ NewBlock(c, commitments[c]) /\ UNCHANGED packetVars
    \/ updateClient(c) /\ UNCHANGED packetVars
    \/ channelOpenConfirm(c)
    \/ channelCloseInit(c)
    \/ channelCloseConfirm(c)
    \/ \E h \in TimeoutHeight, t \in TimeoutTimestamp : sendPacket(c, h, t)
    \/ \E p \in Packet :
         \/ \E ack \in Acknowledgement \cup {EmptyAck} : recvPacket(c, p, ack)
         \/ \E ack \in Acknowledgement : writeAcknowledgement(c, p, ack)
         \/ \E ack \in Acknowledgement : acknowledgePacket(c, p, ack)
         \/ timeoutPacket(c, p)

Spec == Init /\ [][Next]_vars

(* A relayer keeps submitting what can be submitted, a module that took a  *)
(* packet acknowledges it, and the chains keep producing blocks.           *)
Fairness ==
  \A c \in Chain :
    /\ WF_vars(NewBlock(c, commitments[c]) /\ UNCHANGED packetVars)
    /\ WF_vars(updateClient(c) /\ UNCHANGED packetVars)
    /\ \A p \in Packet :
         /\ WF_vars(\E ack \in Acknowledgement : writeAcknowledgement(c, p, ack))
         /\ WF_vars(\E ack \in Acknowledgement : acknowledgePacket(c, p, ack))
         /\ WF_vars(timeoutPacket(c, p))

FairSpec == Spec /\ Fairness

-----------------------------------------------------------------------------
(* Properties *)

Header == [height : Nat, timestamp : Nat, root : Store]

(* The variables keep their types: every sequence number in a store is one *)
(* that was sent or may be, and no empty acknowledgement is ever written   *)
(* (recvPacket's test of its length).                                      *)
TypeOK ==
  /\ block \in [Chain -> [number : Nat, timestamp : Nat]]
  /\ headers \in [Chain -> SUBSET Header]
  /\ consensus \in [Chain -> SUBSET Header]
  /\ channels \in [Chain -> ChannelState]
  /\ commitments \in [Chain -> Store]
  /\ onRecv \in [Chain -> [Packet -> Nat]]
  /\ outcomes \in [Chain -> [Packet -> Seq(Outcome)]]

(* A module is handed at most one packet for each sequence number, at most *)
(* once, however often the packet is relayed and whichever stored header   *)
(* each submission is proven at (recvPacket).                              *)
ExactlyOnceDelivery ==
  \A c \in Chain, p, q \in Packet :
    /\ onRecv[c][p] <= 1
    /\ /\ p.sequence = q.sequence
       /\ onRecv[c][p] > 0 /\ onRecv[c][q] > 0
       => p = q

(* A packet the sending module was told to have timed out was not handed   *)
(* to the other module and never will be (timeoutPacket against            *)
(* recvPacket: refunding the sender is safe).                              *)
TimedOutNeverDelivered ==
  \A c \in Chain, p \in Packet :
    (\E i \in DOMAIN outcomes[c][p] : outcomes[c][p][i] = TimedOut)
      => onRecv[counterparty(c)][p] = 0

(* Every packet sent is either still committed and unanswered, or its      *)
(* commitment is gone and its module was told one outcome; no other packet *)
(* of that sequence exists (sendPacket, acknowledgePacket, timeoutPacket). *)
ResolvedExactlyOnce ==
  \A c \in Chain :
    LET pending == commitments[c].packets
        resolved == {p \in Packet : outcomes[c][p] # <<>>}
    IN /\ pending \cap resolved = {}
       /\ \A p \in resolved : Len(outcomes[c][p]) = 1
       /\ \A p, q \in pending \cup resolved : p.sequence = q.sequence => p = q
       /\ {p.sequence : p \in pending \cup resolved}
            = 1..(commitments[c].nextSequenceSend - 1)

(* On an ordered channel the packets handed over, and those acknowledged,  *)
(* are at all times the first ones sent, with no gap (ORDER_ORDERED:       *)
(* packets are delivered exactly in the order which they were sent).       *)
OrderedDelivery ==
  Ordering = "ORDER_ORDERED" =>
    \A c \in Chain :
      /\ {p.sequence : p \in {q \in Packet : onRecv[c][q] > 0}}
           = 1..(commitments[c].nextSequenceRecv - 1)
      /\ {p.sequence : p \in {q \in Packet : outcomes[c][q] # <<>>
                                              /\ outcomes[c][q][1] # TimedOut}}
           = 1..(commitments[c].nextSequenceAck - 1)

(* A closed end can be proven closed to the other chain, which closes its  *)
(* own end on that proof (channelCloseConfirm), unless it was a timeout    *)
(* that closed it: timeoutPacket does not write the channel commitment.    *)
ClosedIsProvableOrTimedOut ==
  \A c \in Chain :
    channels[c] = "CLOSED" /\ commitments[c].channel # "CLOSED"
      => \E p \in Packet : outcomes[c][p] = <<TimedOut>>

(* Every packet sent on an unordered channel is eventually acknowledged or *)
(* timed out, and its commitment deleted, unless an end is closed.         *)
EveryPacketResolved ==
  \A c \in Chain, p \in Packet :
    p \in commitments[c].packets ~>
      \/ p \notin commitments[c].packets
      \/ \E d \in Chain : channels[d] = "CLOSED"

-----------------------------------------------------------------------------
(* The handler implements PacketLifecycle on an unordered channel *)

stageOf(c, p) ==
  CASE TimedOut \in {outcomes[c][p][i] : i \in DOMAIN outcomes[c][p]} -> "timedOut"
    [] outcomes[c][p] # <<>> /\ outcomes[c][p][1] # TimedOut -> "acknowledged"
    [] outcomes[c][p] = <<>> /\ onRecv[counterparty(c)][p] > 0 -> "delivered"
    [] OTHER -> IF p \in commitments[c].packets THEN "inFlight" ELSE "unsent"

answerOf(c, p) ==
  LET written == {a \in commitments[counterparty(c)].acks : a.sequence = p.sequence}
  IN IF onRecv[counterparty(c)][p] > 0 /\ written # {}
     THEN (CHOOSE a \in written : TRUE).ack
     ELSE EmptyAck

Lifecycle == INSTANCE PacketLifecycle WITH
  NoAck <- EmptyAck,
  stage <- [c \in Chain |-> [p \in Packet |-> stageOf(c, p)]],
  answer <- [c \in Chain |-> [p \in Packet |-> answerOf(c, p)]]

(* Every step of the two handlers, seen by the modules alone, is a step of *)
(* the packet's life or none (all of IBCPacket.sol; false on an ordered    *)
(* channel, where a delivered packet is timed out).                        *)
ImplementsLifecycle == Lifecycle!Spec

=============================================================================
