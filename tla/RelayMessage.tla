---------------------------- MODULE RelayMessage ----------------------------
(***************************************************************************)
(* Voyager relaying the packets of one unordered channel: the messages the *)
(* block-message and relay-message libraries make of the events of the two *)
(* chains, from polling the blocks to the transaction.  The chains are     *)
(* those of IBCPacket, and what Voyager submits is handled there.          *)
(*                                                                         *)
(* A message of the queue is a task here.  A task waits until the client   *)
(* on the other chain trusts a height, remembers that height, fetches the  *)
(* proof at it and submits; the steps in between only read what the height *)
(* fixes.  A transaction that reverts is dropped, not tried again (do_msg  *)
(* answers Ok): every message has one chance.  What the queue adds, order  *)
(* and retries of a failing connection to a node, is QueueMsg's subject.   *)
(* The modules acknowledge a packet when they take it, as UCS01 does, and  *)
(* Voyager is the only relayer.                                            *)
(***************************************************************************)
EXTENDS IBCPacket

CONSTANT Second     \* how many units of a timestamp are a second

ASSUME RelayAssumption == Second \in Nat \ {0}

VARIABLES
  next,    \* the first block of each chain that has not been polled
  log,     \* the events of the blocks from there on, with their blocks
  relays,  \* the tasks that relay an event of one chain to the other
  races    \* for each packet, the branches that wait to time it out

voyagerVars == <<next, log, relays, races>>

allVars == <<vars, voyagerVars>>

(* proof is empty until the trusted height is known, then the header that  *)
(* was trusted.                                                            *)
task(c, event, height) ==
  [chain |-> c, event |-> event, height |-> height, proof |-> {}]

(* until is the height of the counterparty a branch needs to be trusted,   *)
(* empty while the branch does not know it.                                *)
branch(kind, until) == [kind |-> kind, until |-> until, proof |-> {}]

(* What is left of a branch that returned a noop: it goes to the end of    *)
(* the race, and wins when its turn comes.                                 *)
won == branch("won", {})

latestHeader(c) ==
  CHOOSE hd \in headers[c] : \A other \in headers[c] : other.height <= hd.height

-----------------------------------------------------------------------------
(* Events *)

(* What the IBC handler of c emits in this step: a packet that was sent,   *)
(* an acknowledgement that was written.                                    *)
emitted(c) ==
  {[type |-> "SendPacket", packet |-> p] :
      p \in commitments'[c].packets \ commitments[c].packets} \cup
  UNION {{[type |-> "WriteAcknowledgement", packet |-> p, ack |-> a.ack] :
            p \in {q \in Packet : q.sequence = a.sequence /\ onRecv'[c][q] > 0}} :
         a \in commitments'[c].acks \ commitments[c].acks}

emit ==
  log' = [c \in Chain |-> log[c] \cup
            {[block |-> block[c].number, event |-> e] : e \in emitted(c)}]

(* Polling begins at the latest height, and channelOpenAck of the channel, *)
(* an unordered one, has just run.                                         *)
InitRelay ==
  /\ Ordering = "ORDER_UNORDERED"
  /\ next = [c \in Chain |-> latestHeader(c).height]
  /\ log = [c \in Chain |->
       IF c = ChainA THEN {[block |-> block[c].number,
                            event |-> [type |-> "ChannelOpenAck"]]}
       ELSE {}]
  /\ relays = {}
  /\ races = [c \in Chain |-> [p \in Packet |-> {}]]

(* A range of slots is cut at every slot that has a block, as all of them  *)
(* have here, and what is found in a piece gets the height of its end.     *)
endOfSlotRange(number) == number + 1

(* Mutant: the event's own block, whose root does not have it yet.         *)
eventHeight_sameBlock(c, number) == number

(* The height an event is relayed at: the end of its slot range on an EVM  *)
(* chain, the next block where the root lags behind.                       *)
eventHeight(c, number) == IF RootLag[c] = 0 THEN endOfSlotRange(number) ELSE number + 1

(* The race that times packet p out: one branch looks for its receipt, the *)
(* others wait for the timeouts it has.                                    *)
AggregatePacketTimeout(p) ==
  {branch("receipt", {})} \cup
  (IF isZero(p.timeout_height) THEN {}
   ELSE {branch("height", {p.timeout_height.revision_height})}) \cup
  (IF p.timeout_timestamp = 0 THEN {} ELSE {branch("timestamp", {})})

(* Mutant: the next range starts behind the last block of this one.        *)
fetchBlockRange_skip(c) ==
  LET to == latestHeader(c).height
      polled == {e \in log[c] : e.block \in next[c]..(to - 1)}
      sent == {e.event.packet : e \in {f \in polled : f.event.type = "SendPacket"}}
  IN /\ to >= next[c] + 1
     /\ next' = [next EXCEPT ![c] = to + 1]
     /\ log' = [log EXCEPT ![c] = @ \ polled]
     /\ relays' = relays \cup {task(c, e.event, eventHeight(c, e.block)) : e \in polled}
     /\ races' = [races EXCEPT ![c] =
          [p \in Packet |-> IF p \in sent THEN AggregatePacketTimeout(p) ELSE @[p]]]
     /\ UNCHANGED vars

(* The blocks from next up to the latest one, which is left for the next   *)
(* range, are polled, and every event in them becomes a task.              *)
fetchBlockRange(c) ==
  LET to == latestHeader(c).height
      polled == {e \in log[c] : e.block \in next[c]..(to - 1)}
      sent == {e.event.packet : e \in {f \in polled : f.event.type = "SendPacket"}}
  IN /\ to >= next[c] + 1
     /\ next' = [next EXCEPT ![c] = to]
     /\ log' = [log EXCEPT ![c] = @ \ polled]
     /\ relays' = relays \cup {task(c, e.event, eventHeight(c, e.block)) : e \in polled}
     /\ races' = [races EXCEPT ![c] =
          [p \in Packet |-> IF p \in sent THEN AggregatePacketTimeout(p) ELSE @[p]]]
     /\ UNCHANGED vars

-----------------------------------------------------------------------------
(* Relaying an event to the other chain *)

(* The client on the other chain trusts a height that has the event.       *)
waitForTrustedHeight(t) ==
  LET trusted == latestConsensus(counterparty(t.chain)) IN
  /\ t.proof = {}
  /\ trusted.height >= t.height
  /\ relays' = (relays \ {t}) \cup {[t EXCEPT !.proof = {trusted}]}
  /\ UNCHANGED <<vars, next, log, races>>

(* The messages, each with the proof header cs gives for it.               *)
MsgChannelOpenConfirm(t, cs) ==
  /\ t.event.type = "ChannelOpenAck"
  /\ cs.root.channel = "OPEN"
  /\ channelOpenConfirm(counterparty(t.chain))

MsgRecvPacket(t, cs) ==
  /\ t.event.type = "SendPacket"
  /\ t.event.packet \in cs.root.packets
  /\ \E ack \in Acknowledgement :
       recvPacket(counterparty(t.chain), t.event.packet, ack)

MsgAckPacket(t, cs) ==
  /\ t.event.type = "WriteAcknowledgement"
  /\ [sequence |-> t.event.packet.sequence, ack |-> t.event.ack] \in cs.root.acks
  /\ acknowledgePacket(counterparty(t.chain), t.event.packet, t.event.ack)

message(t, cs) ==
  MsgChannelOpenConfirm(t, cs) \/ MsgRecvPacket(t, cs) \/ MsgAckPacket(t, cs)

(* The message is submitted and the task is over, also when it reverts.    *)
(* (For some errors, a price of gas that is too high or a revert without a *)
(* reason, do_msg queues the message again: that is this step later.)      *)
submit(t) ==
  /\ \E cs \in t.proof :
       \/ message(t, cs) /\ emit
       \/ ~ENABLED message(t, cs) /\ UNCHANGED <<vars, log>>
  /\ relays' = relays \ {t}
  /\ UNCHANGED <<next, races>>

(* Voyager stops between a submission and the end of the database          *)
(* transaction that deletes the task.                                      *)
crashAfterSubmit(t) ==
  /\ \E cs \in t.proof : message(t, cs) /\ emit
  /\ UNCHANGED <<next, relays, races>>

-----------------------------------------------------------------------------
(* Timing a packet out *)

returnNoop(c, p, b) == races' = [races EXCEPT ![c][p] = (@ \ {b}) \cup {won}]

(* The receipt is there: the packet arrived.                               *)
waitForPacketReceipt(c, p) ==
  /\ \E b \in races[c][p] : b.kind = "receipt" /\ returnNoop(c, p, b)
  /\ p.sequence \in commitments[counterparty(c)].receipts
  /\ UNCHANGED <<vars, next, log, relays>>

(* Mutant: the second is not rounded up.                                   *)
timestampReached_truncated(hd, p) ==
  hd.timestamp \div Second >= p.timeout_timestamp \div Second

timestampReached(hd, p) ==
  hd.timestamp \div Second >= (p.timeout_timestamp \div Second) + 1

(* The other chain's clock is past the timestamp: its latest height then   *)
(* is the one to be trusted.                                               *)
waitForTimestamp(c, p) ==
  LET latest == latestHeader(counterparty(c)) IN
  \E b \in races[c][p] :
    /\ b.kind = "timestamp" /\ b.until = {}
    /\ timestampReached(latest, p)
    /\ races' = [races EXCEPT ![c][p] =
         (@ \ {b}) \cup {[b EXCEPT !.until = {latest.height}]}]
    /\ UNCHANGED <<vars, next, log, relays>>

(* The client trusts a height past the timeout.  The receipt is looked up  *)
(* at that height; if it is there the packet is not timed out.             *)
aggregateTimeout(c, p) ==
  LET trusted == latestConsensus(c) IN
  \E b \in races[c][p], h \in UNION {a.until : a \in races[c][p]} :
    /\ h \in b.until /\ b.proof = {}
    /\ trusted.height >= h
    /\ IF p.sequence \in trusted.root.receipts
       THEN returnNoop(c, p, b)
       ELSE races' = [races EXCEPT ![c][p] =
              (@ \ {b}) \cup {[b EXCEPT !.proof = {trusted}]}]
    /\ UNCHANGED <<vars, next, log, relays>>

(* The handler does not revert with the proof in header cs.                *)
timeoutAccepted(c, p, cs) ==
  /\ ensureChannelState(c)
  /\ p \in commitments[c].packets
  /\ timeoutReached(c, p, cs) /\ timeoutProof(p, cs)

MsgTimeout(c, p, cs) == timeoutAccepted(c, p, cs) /\ timeoutPacket(c, p)

(* The timeout is submitted; accepted or not, its branch will win the race *)
(* unless another one does before.                                         *)
submitTimeout(c, p) ==
  /\ \E b \in races[c][p] : \E cs \in b.proof :
       /\ \/ MsgTimeout(c, p, cs)
          \/ ~timeoutAccepted(c, p, cs) /\ UNCHANGED vars
       /\ returnNoop(c, p, b)
  /\ UNCHANGED <<next, log, relays>>

(* It is the turn of a branch that won, and the other branches are dropped *)
(* (Op::Race).                                                             *)
endRace(c, p) ==
  /\ won \in races[c][p]
  /\ races' = [races EXCEPT ![c][p] = {}]
  /\ UNCHANGED <<vars, next, log, relays>>

crashAfterTimeout(c, p) ==
  /\ \E b \in races[c][p] : \E cs \in b.proof : MsgTimeout(c, p, cs)
  /\ UNCHANGED voyagerVars

-----------------------------------------------------------------------------
(* Clients and modules *)

(* The update Voyager makes of a client: to the other chain's latest       *)
(* height.                                                                 *)
AggregateUpdateClient(c) ==
  LET latest == latestHeader(counterparty(c)) IN
  /\ latest \notin consensus[c]
  /\ consensus' = [consensus EXCEPT ![c] = @ \cup {latest}]
  /\ UNCHANGED <<block, headers, packetVars, voyagerVars>>

(* A message waits for a later block of c than there is.                   *)
awaited(c) ==
  LET latest == latestHeader(c) IN
  \/ \E e \in log[c] : latest.height <= e.block
  \/ \E p \in Packet : \E b \in races[counterparty(c)][p] :
       \/ b.kind = "timestamp" /\ ~timestampReached(latest, p)
       \/ \E h \in b.until : latest.height < h

(* Blocks do not stop at MaxHeight while one is waited for.                *)
newBlock(c) ==
  /\ \/ NewBlock(c, commitments[c])
     \/ awaited(c) /\ EndBlock(c, commitments[c])
  /\ UNCHANGED <<packetVars, voyagerVars>>

(* The module on c sends a packet.                                         *)
sendingStep(c) ==
  /\ \E h \in TimeoutHeight, t \in TimeoutTimestamp : sendPacket(c, h, t)
  /\ emit
  /\ UNCHANGED <<next, relays, races>>

(* What goes on as long as it can.                                         *)
RelayStep(c) ==
  \/ newBlock(c)
  \/ AggregateUpdateClient(c)
  \/ fetchBlockRange(c)
  \/ \E t \in relays : waitForTrustedHeight(t) \/ submit(t)
  \/ \E p \in Packet :
       \/ waitForPacketReceipt(c, p)
       \/ waitForTimestamp(c, p)
       \/ aggregateTimeout(c, p)
       \/ submitTimeout(c, p)
       \/ endRace(c, p)

RelayNext ==
  \E c \in Chain :
    \/ sendingStep(c)
    \/ RelayStep(c)
    \/ \E t \in relays : crashAfterSubmit(t)
    \/ \E p \in Packet : crashAfterTimeout(c, p)

(* The chains, the modules and Voyager do not all stop while one of them   *)
(* has a step to take.  No step can be repeated for ever (every one polls, *)
(* ends or advances something), so fairness to each of them adds nothing.  *)
RelayFairness == WF_allVars(\E c \in Chain : RelayStep(c))

RelaySpec == Init /\ InitRelay /\ [][RelayNext]_allVars /\ RelayFairness

-----------------------------------------------------------------------------
(* Properties *)

(* The height a message is proven at is one the client knows and whose     *)
(* root has what the message claims, or the packet was resolved meanwhile  *)
(* (waitForTrustedHeight with the heights of block-message): since a       *)
(* message that reverts is dropped, one with a bad proof would be lost.    *)
RelayedIsProvable ==
  \A t \in relays : \A cs \in t.proof :
    /\ cs \in consensus[counterparty(t.chain)]
    /\ t.event.type = "ChannelOpenAck" => cs.root.channel = "OPEN"
    /\ t.event.type = "SendPacket" =>
         t.event.packet \in cs.root.packets \/ t.event.packet \notin commitments[t.chain].packets
    /\ t.event.type = "WriteAcknowledgement" =>
         [sequence |-> t.event.packet.sequence, ack |-> t.event.ack] \in cs.root.acks

isPolled(c, p) == \A e \in log[c] : e.event.type = "SendPacket" => e.event.packet # p

(* Nobody waits any more to time packet p out, although it has not arrived *)
(* and its sender still waits for an answer.                               *)
GivenUp(c, p) ==
  /\ p \in commitments[c].packets /\ isPolled(c, p) /\ races[c][p] = {}
  /\ p.sequence \notin commitments[counterparty(c)].receipts

(* Voyager gives a packet up only because timeoutPacket wants more than    *)
(* Voyager waits for: a proof strictly past the timeout height, and past   *)
(* both timeouts when there are two.  Then a header is known that is past  *)
(* a timeout for Voyager and not for the handler.                          *)
GivesUpOnlyTooEarly ==
  \A c \in Chain, p \in Packet : GivenUp(c, p) =>
    \E cs \in consensus[c] :
      /\ ~timeoutReached(c, p, cs)
      /\ \/ /\ ~isZero(p.timeout_height)
            /\ cs.height >= p.timeout_height.revision_height
         \/ /\ p.timeout_timestamp # 0
            /\ cs.timestamp \div Second > p.timeout_timestamp \div Second

(* With no relayer but Voyager, a packet that has a timestamp timeout only *)
(* is acknowledged or timed out in the end: its one message may revert, as *)
(* long as the other way stays open.                                       *)
EveryPacketRelayed ==
  \A c \in Senders :
    \A p \in {q \in Packet : isZero(q.timeout_height) /\ q.timeout_timestamp # 0} :
      p \in commitments[c].packets ~> p \notin commitments[c].packets

=============================================================================
