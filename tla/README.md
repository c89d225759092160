# A TLA+ verification of Union

This directory specifies the stateful core of Union, model-checks it with TLC
and proves most of what is safety in it with TLAPS. Paths below are relative to the repository
(`src/` is its root). `evm/` stands for `src/evm/contracts/`, `core/` for
`src/evm/contracts/core/`.

- [1. The system](#1-the-system) is the inventory: components, state, operations, hard behaviours.
- [2. The modules](#2-the-modules) says which module models what, and how.
- [3. The runs](#3-the-runs) says what TLC checks, within which bounds, under which fairness.
- [4. Disagreements](#4-disagreements-between-the-code-and-what-it-says) lists where the code departs from what it says, and what else modelling it brought up.
- [5. The proofs](#5-the-proofs) gives the theorems and the argument behind them.
- [6. Not modelled](#6-what-is-not-modelled) and [7. The plan](#7-the-plan) say what is left.

To run it: `tlc -config X.cfg M` for a row of the table in section 3,
`tlapm MProofs.tla` for the proofs about a module.

## 1. The system

Union joins chains by IBC. Four kinds of program matter here:

```
   EVM chain                                     Union (CometBFT chain)
 +--------------------+                        +--------------------+
 | UCS01, UCS02, ...  |  modules               | ibc-go, wasm apps  |
 | IBC handler        |  packets, handshakes   | ibc-go core        |
 | CometBLS client    |  of the other chain    | Ethereum client    |
 +--------------------+                        +--------------------+
          ^   events, proofs, transactions              ^
          +--------------- Voyager ---------------------+
                  (queue, workers, optimizer)
                            |  prove / poll
                         galoisd
   unionvisor supervises uniond; drip and hubble use the chains
```

| Component | State | Operations | What is hard | What makes it correct |
|---|---|---|---|---|
| IBC packets, `core/04-channel/IBCPacket.sol` | commitments, receipts, acknowledgements, three sequences per channel | `sendPacket`, `recvPacket`, `writeAcknowledgement`, `acknowledgePacket`, `timeoutPacket` | proofs are of old roots, at any height a relayer picks; timeouts race deliveries; every message may be repeated or reordered | exactly-once, order, a timeout excludes delivery, one outcome per packet, no packet stuck |
| IBC channel handshake, `IBCChannelHandshake.sol` | channel ends and their commitments | open init/try/ack/confirm, close init/confirm | crossing and repeated handshakes, proofs of an end that has since been closed | two ends agree, at most one partner, what the connection negotiated binds |
| IBC connection handshake, `core/03-connection/IBCConnection.sol` | connection ends and their commitments | open init/try/ack/confirm | several clients, chains with different versions, repeated messages | two ends agree on clients, version and delay |
| IBC clients, `core/02-client/` | clients by identifier, types | `createClient`, `updateClient`, `registerClient`, misbehaviour | headers learnt late and out of order | a stored root was published |
| CometBLS client, `evm/clients/CometblsClientV2.sol` | consensus states, processing moments, frozen height | update, misbehaviour, (non-)membership | two updates of one height, delay periods, expiry | a root does not change under a proof, delays are not cut short, what is committed is in use |
| UCS01, `evm/apps/ucs/01-relay/Relay.sol` | escrow per channel and denomination, wrapped tokens | send, receive, acknowledge, time out | refunds racing returns, callbacks that fail half way | the escrow is what the other chain can claim, every transfer settles |
| Voyager's queue, `src/lib/queue-msg`, `src/lib/pg-queue` | tables *queue/ready*, *optimize*, *done*, *failed* | `enqueue`, `process`, `optimize` | workers and an optimizer on several threads; crashes between an effect and its commit | every message handled, none lost, none twice |
| Relaying, `src/lib/block-message`, `src/lib/relay-message` | the next block to poll, one message per event, a race per packet | poll blocks, wait for a trusted height, fetch a proof, submit, time out | roots lag behind events; a transaction that reverts is not sent again; the timeout races the receipt | a proof is of a root that has the event, every packet ends |
| Voyager's messages, `queue_msg::Op` | the message itself | `handle`: retry, timeout, race, sequence, concurrent, aggregate | what survives a failure in the middle | combinators lose nothing |
| galoisd, `src/galoisd/grpc/server.go` | job table, count of running jobs | `Poll`, `Prove`, `Verify` | polls racing the end of a job, capacity | one job per request, an answer for every poll |
| unionvisor | binaries, a symbolic link, an upgrade file | supervise, upgrade | crash between file system steps, half-written files | a backup before an upgrade, only upgrades that are due, each of them in the end |
| drip | table of requests | enqueue, send, note | crash between paying and noting it | paid once |

The IBC handler calls modules back inside a transaction (`onRecvPacket` and
the like); modules call it for `sendPacket` and `writeAcknowledgement`. Voyager's
workers, its optimizer and its message endpoint share the queue. The chains are
tied only by proofs that Voyager carries, which is why the models let *anybody*
submit *any* message with *any* proof that a client would accept.

`PROJECT.json` lists under `hazards` the places where this is hard to test, each
with the properties that look at it.

## 2. The modules

```
 IBCChains   IBCHeight
     |  \      /
     |   IBCClientView
     |        |
     |    IBCPacket* ---- refines --> PacketLifecycle <-- uses -- UCS01Relay*
     |        |
     |   RelayMessage*
     |
   IBCConnection* -- IBCChannelHandshake*        CometblsClient*

 QueuePasses* -- InMemoryQueue*,  PgQueue* -- refines --> MessageQueue
 QueueMsg        Unionvisor*      ProverServer*
```

The modules with a star have proofs, in a module `...Proofs` beside them (those of
the light client and of both handshakes, what packets rest on, are in
`IBCCoreProofs`, those of `RelayMessage` at the end of
`IBCPacketProofs`, whose lemmas they use).

Each component has an MC module with its instance; `MCIBCHandshake` is the one of the two
handshakes, `MCIBCPacket` serves three runs.

**Common abstractions of the IBC part.** A handler is one transaction, so an
action is one handler with all its calls; a revert is a step not taken, and so
is one whose module callback reverts. Proofs are oracles: a Merkle and
zero-knowledge proof of a root that a client holds succeeds exactly when the
root commits to the value. Hashes are taken as collision-free, so a commitment is kept as
what it commits to. Client creation, ports and capabilities are taken as set up.

### IBCClientView: chains, blocks, clients
`block` is the block each chain executes, `headers` what it has published,
`consensus` what the other chain's client stores. `EndBlock` publishes a root (`NewBlock` is it
within the bound);
`RootLag` says whether it is of the state after the block (EVM) or before it
(CometBFT), which matters at the boundary of a timeout. `updateClient` stores
*any* published header, so clients lag and skip. A header keeps a copy of all
that its root commits to: a proof is reading the copy.

### IBCPacket: one channel, two chains
| Variable | In the code |
|---|---|
| `channels[c]` | `channels[port][channel].state` |
| `commitments[c]` | the mapping `commitments`, a field per kind of path |
| `onRecv[c][p]` | calls of the module's `onRecvPacket` (history) |
| `outcomes[c][p]` | calls of `onAcknowledgementPacket` and `onTimeoutPacket` (history) |

`sendPacket`, `recvPacket`, `writeAcknowledgement`, `acknowledgePacket` and
`timeoutPacket` are the handlers, `channelOpenConfirm`, `channelCloseInit` and
`channelCloseConfirm` the channel's changes that race them. The initial state is
the block in which `channelOpenAck` ran on one chain, so packets can be sent
before the other end is open. A module may acknowledge at once, later, or never, and only what it was
handed: `writeAcknowledgement` leaves that to the module, which owns the channel.

Asymmetries of the code that the module keeps: `recvPacket` rejects a packet if
*either* timeout has passed and ignores the revision of the timeout height;
`timeoutPacket` wants *both* to have passed and compares with the revision; the
two use `>=` on different sides; a channel an ordered timeout closes has a
commitment that still says open; an ordered timeout compares the sequence as it
is written (section 4). Left out: the encoding of `nextSequenceRecv`, which
`recvPacket` stores as a 256-bit word (IBCPacket.sol:257) and `timeoutPacket`
expects as eight bytes (:520), as a Cosmos chain stores it; the model takes the
proof of an ordered timeout to succeed when the two numbers are equal.
Delay periods are left out too: they only remove steps.

### IBCConnection and IBCChannelHandshake
`connections[c]` and `channels[c]` are the ends a chain keeps, `committed` and
`committedChannels` every end it ever committed: a handshake proof may be of any
height the verifying client knows, and a client may know any, so what was ever
committed can be proven for ever. (A value overwritten within one block is never
in a root; keeping it adds behaviours, and the properties hold with them.)
Identifiers are numbers, given out in order as in the code, 0 for the empty one.
Version negotiation is translated in full: order of preference, feature
intersection, the check that a version proposed at `Init` is supported. The
client-state proof of `connectionOpenTry` and `connectionOpenAck` needs only that the client
exists, since `validateSelfClient` accepts any. The counterparty's Merkle key prefix is left
out: a wrong one only makes proofs fail. `connectionOpenInit`, like the
code, checks neither that the client exists nor that the counterparty's
identifier is empty. `IBCChannelHandshake` extends `IBCConnection`, and its
`Next` has the steps of both.

### UCS01Relay: tokens over several channels
Two deployments of the contract, and the packet layer as `PacketLifecycle`
promises it (unordered, acknowledged at once: what the relay's channels are).
`relay[c]` is the ledger of a chain: the balances of every ERC20, `outstanding`
and the wrappers, by channel. A denomination is a sequence of prefixes and an
address, so a token that leaves by another channel than it came by is wrapped
twice, as in the code. A call that reverts clears `ok`: `send`, refunds and
timeouts are then not taken, while a failing `onRecvPacket` changes nothing but
the acknowledgement, as its inner call does. `sendTokens`, `refundTokens` and
`onRecvPacketProcessing` are the code's loops over the tokens of a packet, as functions
of how many have been handled. `FeeMax` stands for the largest
128-bit number, and `calculateFee` rounds as the code does.

### CometblsClient: one light client
`consensusStates`, `processedMoments` and `clientState` are the contract's,
`commitments` what `IBCClient` writes of them; `heldSince` is history, the moment
since which the client holds the state it has at a height. `createClient`,
`updateClient`, `misbehavior` and the verification of a proof are actions; which
headers have a zero-knowledge proof over which validators is a constant.

### RelayMessage: Voyager between the two chains of IBCPacket
The composition of the packet layer with the relayer that is meant to serve it.
`log` has the events of blocks not polled yet, `next` the first of these blocks,
`relays` a task for each event, `races` the branches that wait to time a packet
out. `fetchBlockRange` polls, `waitForTrustedHeight` and `submit` relay an
event, `waitForPacketReceipt`, `waitForTimestamp`, `aggregateTimeout` and
`submitTimeout` are `AggregatePacketTimeout`'s race. A branch that is over goes to the end of the race first and
ends it in its next turn (`won`, `endRace`), so another branch may submit in between. An event of
an EVM block is relayed at the end of the slots it was found in: the range is cut at every slot that
has a block, so this is the next block (`endOfSlotRange`). What is submitted is a
handler of `IBCPacket` with the proof of the height the task remembers; if the
handler reverts the message is gone, as `do_msg` answers `Ok`; for a few errors it queues the message
again, which is the same step later. (`submit` reads that as
`ENABLED`; `timeoutAccepted` spells it out for timeouts, because a property depends on why one is refused.)
`crashAfterSubmit` and `crashAfterTimeout` leave the task of a transaction that
was accepted. The clients are updated to the latest height, by Voyager only.

### QueueMsg: the messages themselves
`handle` is `Op::handle` with every combinator, `extract_data`, `remove_noop`,
`flatten_seq` and `flatten_conc` the passes of `Normalize`, `TxBatch` Voyager's
own. A program's messages are identifiers whose handlers (of effects, fetches, waits and events) succeed, fail
or (a wait) are not over yet; `tried` and `succeeded` count them. The queue is the one
`MessageQueue` describes, with workers that take any ready message. The
properties compare what happens with what the message says as it was written (`before`,
`times`, `attempts`, `first`), which knows nothing of the passes.

### Unionvisor: steps on a file system
One action for each step that a crash can follow: `start`, `poll`, `read`,
`beginBackup`, `endBackup`, `removeLink`, `makeLink`, `spawn`; `failBackup` and `failSwap` are their errors, after
which the supervisor exits and systemd starts it again. A backup overwrites the last one, and files that only
that one had stay: the model's backup is complete when every file of the home directory is in it. The node is external: it
truncates the upgrade file and then writes it, halts, and applies an upgrade
when its binary is the new one. `readAgain` keeps the position of the open file
(`consumed`). systemd's restart with `init` before `run` is `start`.

### ProverServer: Poll and its goroutines
`results` is the `sync.Map`, `nbJobs` the atomic counter, `call` the goroutines; an
action is what one of them does from an atomic operation to the next. The
relayer's `FetchProveRequest` messages are `client`; both sides can restart.

### PgQueue, InMemoryQueue, QueuePasses and MessageQueue
`MessageQueue` is what the trait `Queue` promises: a message waits until it is
handled, once, and what handling it produced is enqueued in the same step.
An item of a table is the *set* of messages joined in it; how a pass rewrites a
message is left out. `run_pass_pure` is the pass before enqueueing (`Normalize`
in Voyager's `run`, `NormalizeFinal` in `run_to_completion`), `run_pass` the
optimizer: `TxBatch` puts the items into batches, any number of them (`Partitions`), and `FinalPass` makes all ready.

`PgQueue` has an action per transaction boundary. A worker's transaction
(`tx[w]`) deletes and locks a row, runs the handler *outside* of the database
(`handle`, `handleFails`, counted in `effects`) and commits; the optimizer's
likewise. Deleted rows stay in their table until the commit and cannot be taken
by another (`SKIP LOCKED`). A transaction's insertions and its commit are one
step, because nobody sees them before. `crash` undoes what is open and restarts;
it stands for a killed process, a lost connection, and the panic
of `Engine::step` for a `Retry` outside of `Op::Retry`.

`InMemoryQueue` goes lock by lock: a step is what a task does between two points
where another thread can get in. A task that locks a second mutex while it holds
a first takes a step for each. The mutex of `done` is only taken for a single
insertion or as the last, so nobody waits while holding it.

## 3. The runs

| Run | Module, cfg | Shows | Bounds |
|---|---|---|---|
| `packet_unordered` | MCIBCPacket, ...Unordered | type, exactly-once, no delivery after a timeout, one outcome, refinement of `PacketLifecycle`, every packet resolved unless the channel is closed | 1 packet, heights to 4, two acknowledgements, ChainB can close |
| `packet_ordered` | MCIBCPacket, ...Ordered | order without gaps; when the other chain can learn of a close | 2 packets, a timestamp timeout, closed from either side |
| `ordered_timeout` | MCIBCPacket, ...OrderedTimeout | a violation, section 4 | 2 packets |
| `handshake` | MCIBCHandshake | both handshakes together: ends agree and pair up | 3 connection ends, 2+1 clients, chains with different versions, 3 channel ends, 2 ports, 2 channel versions |
| `in_memory_queue` | MCInMemoryQueue | nothing handled twice; what can be lost, and when a ready message may stay | 3 messages, 2 workers |
| `pg_queue` | MCPgQueue | refinement of `MessageQueue`, effects repeat only by a crash, no starvation | 3 messages, 2 workers, 1 crash |
| `ucs01` | MCUCS01Relay | escrow equals claims, outstanding covers them, transfers settle | 1 token, 2 channels, a packet per channel and direction, 1 token per packet, fees 0, 1/2 |
| `cometbls` | MCCometblsClient | delays kept, commitments current, roots stable | headers 1 to 4 and a second one at 3, 5 blocks, delays 0 and 2 |
| `queue_ops` | MCQueueMsg | order, repetitions, retries and aggregation as written; an end | every pair of small messages inside conc, seq, retry and aggregate; with and without batching; 3 setbacks |
| `unionvisor` | MCUnionvisor | backup first, only due upgrades, no old binary, upgrades happen, no deadlock | 3 upgrades, one of them not in the bundle, 4 faults |
| `prover` | MCProverServer | jobs counted, one owner per pending proof, results final, proofs arrive | 4 messages, 3 requests, 3 goroutines, 2 jobs, 1 restart |
| `relay` | MCRelayMessage | proofs are of roots that have the event; when a packet is given up; packets with a timestamp end | 1 packet, each kind of timeout and both, heights to 3 and as far as someone waits |

**Why these bounds.** *Packets*: two packets are the least that can be
delivered out of order or leave a gap; on an unordered channel packets share no
state but the counter, so one shows what can happen to each, with all kinds of
timeouts. `MaxHeight` only stops blocks that change
nothing (the next block that commits a change is always possible), so the runs
go on past the timeouts; heights and timestamps
start at 2 and the timeouts are at 3, so a packet can be sent, delivered before,
at and after its timeout, and a client can be behind, at and past it. ChainA has
EVM roots and revision 0, ChainB lagging roots and revision 1. The
height timeout is one that only ChainB can reach, so both kinds are tried
alone and together. Safety for *all* bounds is then proved (section 5).
*Handshakes*: three ends are an init and two tries of it, or two inits and a try
of one, for connections and for channels. The run starts from chains without
either; ports and channel versions are symmetric, identifiers are not.
*Queues*: two workers and the optimizer are one of each pair of actors
that share a table; with three messages, one can be waiting, one batched with
another, and one produced by a handler. (A second batch in one pass needs four; the theorems are for any number.) *UCS01*: two channels let a wrapper be wrapped
again and a token come back by the wrong way; a supply and an amount of 2 with a fee
of a half leave a fee of 1, of 0 by rounding, and a refund in competition
with a return. *CometBLS*: the validators of heights 1 and 4 have too little in
common for one step, and 5 blocks with steps of 1 or 2 reach the expiry, the clock
drift and both ends of the delays. *Messages*: the passes look at a message
and what directly holds it, so two deep is where they can go wrong; two attempts and three
setbacks exhaust a retry and fail once more. *Unionvisor*: the fault bound lets a
crash follow a crash in the middle of each of two upgrades. *Prover*: two messages ask
for one proof, and there are more requests than places and more goroutines than jobs.
*Relay*: a second is two units of time, the timeout lies inside of one.

Deadlock is checked in `unionvisor`. The other cfgs say `CHECK_DEADLOCK FALSE`:
the packet, client, token and handshake runs stop at their
bounds, the queues and the prover when everything has been handled, the relay when every
task is over.

**Fairness.** `packet_unordered` assumes weak fairness of blocks, of client
updates, of a module that owes an acknowledgement, and of a relayer's
acknowledgements and timeouts. It is what a relayer that does not give up
provides: each of these steps stays enabled until
taken. (Voyager itself has one attempt; that is the subject of `relay`.)
`recvPacket` is *not* fair: a packet nobody delivers is timed out.
A closed channel is excepted, because the code has no way to
resolve the packets in flight on it: every handler wants it open.
`pg_queue` assumes weak fairness of each worker and of the optimizer,
which are endless loops in `voyager/src/queue.rs`; crashes are bounded, that is,
the process does not die for ever. `in_memory_queue` assumes *strong*
fairness of every task, so that a message that stays is not due to a mutex that
was never granted. `queue_ops`: the workers, the optimizer and time go on.
`unionvisor`: systemd restarts it always and it is a loop, so its steps are
weakly fair; those of the node are strongly fair, since the node may be killed before it gets to
a step, but not each time. `prover`: every goroutine runs on, and a message that
was told to wait is polled again. `relay`: something that can go on does; as no step can be repeated for ever,
fairness to each step adds nothing to that.

**Mutants.** Each property of a passing run has a mutant (the definitions
preceded by "Mutant" in the modules): a plausible mistake in one
definition that the run then finds.

## 4. Disagreements between the code and what it says

1. **`ordered_timeout`** (IBCPacket.sol:506). On an ordered channel
   `timeoutPacket` reverts when `nextSequenceRecv <= packet.sequence`. It so
   accepts exactly the packets that *were* received, and refuses those that
   were not. ICS-4, which the contract says it implements, wants the
   opposite. TLC delivers a packet and then times it out.

The following came up while modelling. Except for `Void` (under *Messages*) no text of the repository
promises the contrary. Where a property bears on
one of them, it excepts exactly the case described.

- *Ordered timeouts* (IBCPacket.sol:525) close the end without
  `updateChannelCommitment`: the other chain cannot be shown it.
  `ClosedIsProvableOrTimedOut` says that it is the only such case.
- *In-memory queue* (queue-msg/src/lib.rs:1248). `optimize` copies the
  optimizer's queue, releases the lock while the passes run, and then moves
  all of the queue to `done`, with what arrived meanwhile:
  `LostOnlyBehindOptimizer`. At :1244 it takes `ready` and then
  `optimizer_queue`, the others the other way round: `ReadyIsHandled` excepts
  the deadlock. With Postgres neither occurs (`pg_queue`).
- *UCS01* (Relay.sol:405). A fee is paid out of the escrow but stays in
  `outstanding`, which may so exceed what can be claimed, never fall short
  of it.
- *CometBLS*. Two honest headers of different heights over one trusted height
  count as misbehaviour (CometblsClientV2.sol:281). Expiry is a matter of the new
  header's time only. A freeze does not reach the committed client state.
- *Messages*. `RemoveNoop` unwraps a `Void` (passes.rs:184), though
  queue-msg/src/lib.rs:153 says "voiding any returned `Data` messages that it returns"; one
  inside an `Aggregate` gives the receiver data it does not want, and it panics
  (`ReceiverGetsItsData`). A race with a message that
  returns data never ends. `Retry` and `Timeout` hold only until the first step of what they
  wrap is over, and `TxBatch` counts retries anew in every pass and drops the `Retry` of
  what is not a plain effect. `Normalize` once does not flatten
  `seq(conc(seq(a, b)), c)`; the next pass does.
- *Unionvisor*. After a partial read the retries read the rest of the file
  only (watcher.rs:52), so they fail until the process restarts. A crash between the
  two halves of `swap`, or a failure of the second, makes `init` link the fallback version, the only way an
  old binary meets a newer home.
- *Prover*. A failure is kept like a proof, until a restart, and makes the relayer
  that polls for it panic. `len(Signatures) > len(Signatures)` in its input
  check compares a length with itself.
- *Relaying*. `timeoutPacket` wants a proof strictly past the timeout height, and
  past both timeouts if there are two; Voyager waits for the height itself, or for one
  of them, and submits once. The revert ends the race, so the packet is never timed out:
  `GivesUpOnlyTooEarly` says that it is the only reason. A packet relayed before
  `ChannelOpenConfirm` is dropped too and can only time out.
  `AggregateFetchBlockRange` (block-message/src/aggregate.rs:91) asserts that a height exceeds a
  revision *number*.

## 5. The proofs

A theorem holds for every value of the constants, the bounds included: any number of
packets, ends, workers, goroutines, messages or crashes. Each proof module states
an inductive invariant (`IInv`, `LightClientInv`, `OutcomeInv`, `HandshakeInv`, `RelayInv`, `RaceInv`), which TLC
checked on the instance of the module's run, and draws the rest from it. (For UCS01, whose `IInv` speaks of
every address there could be, TLC checked it of those that can come up, without its type.)

| Module | Theorems | Properties |
|---|---|---|
| `IBCPacketProofs` | `TypeCorrect`, `InvariantHolds`, `DeliverySafe`, `TimeoutSafe`, `OutcomesHold`, `PacketsResolved`, `DeliveredInOrder`, `ClosingIsProvable`, `LifecycleImplemented` | `TypeOK`, `ExactlyOnceDelivery`, `TimedOutNeverDelivered`, `ResolvedExactlyOnce`, `OrderedDelivery`, `ClosedIsProvableOrTimedOut`, `ImplementsLifecycle` |
| `IBCPacketProofs`, of `RelayMessage` | `RelayInvariant`, `RelayedProvable`, `RaceInvariant`, `GivenUpTooEarly` | `RelayedIsProvable`, `GivesUpOnlyTooEarly` |
| `IBCCoreProofs`, of the handshakes | `HandshakeInvHolds`, `ConnectionsAgreeHolds`, `ConnectionsPairUpHolds`, `ChannelsAgreeHolds`, `ChannelsPairUpHolds` | `ConnectionsAgree`, `ConnectionsPairUp`, `ChannelsAgree`, `ChannelsPairUp` |
| `IBCCoreProofs`, of `CometblsClient` | `LightClientInvHolds`, `DelaysKept`, `CommitmentsCurrent`, `RootsStable` | `DelayRespected`, `CommittedIsCurrent`, `RootsAreStable` |
| `UCS01RelayProofs` | `InvariantHolds`, `EscrowBacked`, `ClaimsCovered`, `TransfersSettled` | `EscrowIsBacked`, `OutstandingCoversClaims`, `TransfersSettle` |
| `PgQueueProofs` | `InvariantHolds`, `EffectsCountedByCrashes`, `Refinement` | `EffectsRepeatOnlyByCrash`, `ImplementsMessageQueue` |
| `InMemoryQueueProofs` | `InvariantHolds`, `MessagesHandledOnce`, `LossOnlyBehindOptimizer` | `HandledOnce`, `LostOnlyBehindOptimizer` |
| `ProverServerProofs` | `InvariantHolds`, `JobsCounted`, `PendingOwned`, `ResultsFinal` | `JobsAreCounted`, `PendingHasOneOwner`, `ResultsAreFinal` |
| `UnionvisorProofs` | `InvariantHolds`, `OldBinaryNeedsLostLink`, `UpgradesAreBackedUp`, `UpgradesAreDue` | `OldBinaryOnlyAfterLostLink`, `BackedUpBeforeUpgrade`, `OnlyDueUpgrades` |
| `QueuePassesProofs` | lemmas on tables, batches and passes, for both queues | |

**Assumptions.** The ones the modules name: the two chains differ
(`ChainsAssumption`), blocks take time and roots lag by 0 or 1
(`ClientViewAssumption`), the goroutines are finitely many and there is room for
a job (`ProverAssumption`), a header's height and time are not 0 and blocks take time
(`ClientAssumption`), the fallback binary is in the bundle (`VersionAssumption`), a second is some units
of time (`RelayAssumption` of `RelayMessage`), the channels are finitely many and their ends on a chain have
different names, none that of a contract or of the hexadecimal mark, and the relay is nobody's account
(`RelayAssumption` of `UCS01Relay`), the
tasks of the in-memory queue are different ones (`TaskAssumption`); the others only say of what kind a constant is.
`TimeoutSafe` and `LifecycleImplemented` assume an unordered channel: on an ordered one
the first is false (section 4), and with it the second. In both queue modules a handler
returns a *finite* set of messages (a guard of `handle`), as a program does.

**Packets, delivery.** Exactly-once is nearly inductive: it needs only that what the
module was handed is recorded in the receipts, or below the next sequence
(`ReceivedIsRecorded`). That a timed-out packet was not delivered is a statement about
two chains that never see each other's present. Suppose a header of the receiver shows
both timeouts passed and no receipt. The packet may have been received *after*
that header. It was not, because the receiver's block number and
time only grow (`HeadersPast`) and `recvPacket` compares them with the same timeouts. So any
receipt is older than the header, and the header's root holds it: `ReceiptIsSeen`, the heart of
the invariant. It holds only for packets whose timeout means the same to both chains.
A height timeout of an *older revision* is passed for `timeoutPacket` from the
start, while `recvPacket`, which ignores revisions, would still deliver.
`sendPacket` refuses such a packet because the client's latest height is past
it (`SentIsSendable`); that is why the invariant has to speak of the packets
in every root. `TimeoutIsSeen` remembers, for a packet that was timed out, the header that showed it,
so that `recvPacket` cannot succeed later. The boundary works for both root lags: a header that shows
"at or past the timeout" commits to a state *before* which the receiver has
already rejected the packet.

**Packets, outcomes.** `OutcomeInv` adds what a proof can be about. A root shows
packets that were sent and acknowledgements that are still there (`RootsPast`), so what was
delivered was sent (`DeliveredWasSent`), what was acknowledged was written
by a module that was handed the packet (`AckWasDelivered`, `AcknowledgedWasWritten`).
A sequence is used once and lies below `nextSequenceSend`, so an outcome deletes the one
commitment it is about. On an ordered channel, delivery in order follows because a
delivered packet of sequence *n* was sent, and is the only one of its sequence.

*The refinement.* `PacketLifecycle` sees of a packet its stage and its
answer, which `IBCPacket` maps from the commitments of the sender, the receipts and the
acknowledgements of the receiver, on two chains. Blocks, client updates and channel
steps stutter; `sendPacket`, `recvPacket`, `writeAcknowledgement`, `acknowledgePacket` and
`timeoutPacket` are its actions. The difficult guards are the last two: an
acknowledgement is proven by an old root, while the lifecycle wants the answer to
be there now (`RootsPast`), and a timeout must find the packet not delivered
(`TimeoutSafe`).

**Relaying.** Every step of Voyager is a step of `IBCPacket` or leaves the chains as they are
(`RelayMoves`; blocks past `MaxHeight` included, which is why the packet lemmas speak of
`Step`), so `IInv` holds of it. A handler takes nothing out of a
store but the commitment of a packet it resolves, and a sequence is not given out again (`StoresGrow`);
headers are made in order, each with the root of the store there is (`HeadersGrow`,
`HeadersInOrder`). So when an event is logged, no header is yet at the
height that shows it first, its block's number and the root's lag, and every later one has it (`LoggedIsShown`).
`fetchBlockRange` gives a task no smaller height: the end of its slots is past the block on an EVM
chain, the next block is what a lagging root needs (`TasksAreShown`). That is
`RelayedIsProvable`; what `ENABLED` in `submit` says is not needed.

A committed packet is logged, raced for, or received (`NobodyForgets`): `emit` logs a packet when it
is sent, and a race begins in the step that polls the event. A race ends with a receipt, seen in a store or in a
root, which is older; with a timeout that is accepted, and then the commitment is gone; or with one that is
refused. Each leaves the packet settled (`Settled`) until the turn of the branch that won, and a sequence
that has a race is not sent again (`RacedIsSent`). A refused one had a commitment, an open channel and no receipt in the
proof's root, so `timeoutReached` was false; the proof is from the height on at which its branch's timeout
had passed (`RacesFit`), by the order of headers for a timestamp. That header
is the witness of `GivesUpOnlyTooEarly`.

**Handshakes.** A handshake proof may be of any end that was ever committed, so
nothing a chain learns is about the present. Two facts carry the argument. A committed end
that was *tried* or *open* stays as it is, but that it opens (`ConnectionsKept`); one
only *initialised* may still change. And an end opens only by a proof that the other
chain committed exactly its counterpart as tried or open (`OpenWasProven`). So the counterpart
is there now, with the clients, version and delay that were proven. Two ends with one
counterpart would need it to name both of them. For channels the same holds
(`ChannelsKept`, `OpenedWasProven`), with two additions: a channel's counterpart may have closed since,
and a proof is about the counterparty's hop, which is
looked up in the chain's own connection; `HopsOpen` and the agreement of
connections make the two hops two ends of one connection.

**Postgres queue.** A message has one row in `queue` or `optimize` until it
is committed as done or failed (`OneRow`). A worker's row is its own
(`TxHasRow`: it is what `SKIP LOCKED` is for), what handlers returned is new and of one worker
only (`NewIsNew`), and the rows the optimizer has deleted are what its
passes return (`OptimizerHasRows`), so nothing gets lost or doubled however commits interleave. A message was then
handled at most once for each crash, and once more if it is in a worker's hands or done
(`EffectsCounted`). The refinement maps both tables to the waiting messages; a
commit is `MessageQueue`'s step, all else, a crash too, stutters.

**In-memory queue.** Outside of the optimizer, a message is in one table or in one task's hands
(`WaitsOnce`). The optimizer has only a *copy*, of messages that are still in
its queue (`CopyIsQueued`): nobody else takes from there. When it moves that
queue to `done`, what it copied comes back by the result of its passes, and what is
lost is exactly what was added in between.

**Prover.** The counter is the number of goroutines in a job
because a `CompareAndSwap` that succeeds saw the count there is now, and whoever
counted saw that there was room (`SeenIsBelow`). An entry is pending exactly when one goroutine
owns it (`OwnedIffPending`), the one whose `LoadOrStore` made it; so `Delete` only
meets a pending entry.

**Tokens.** That the escrow of a token *equals* what can be claimed of it is a sum over
channels of sums over accounts and over the tokens of every packet that is not
settled. Three things make it provable. *Sums*: `SumFunction` is a fold, so
a function chosen to satisfy an equation on every subset; that there is exactly one, that any element
can be taken out of it (`SumWith`), and that it changes by as much as one of its
terms (`SumChanges`) are shown by the smallest subset that would be an exception,
which needs no induction on an operator. *Loops*: the same way, over the first tokens of
a packet (`UpTo`): `Moved` says what the ledger is after *i* of them. *Shifts*: an
operation of the relay changes one token by amounts that are named
(`Transacted`), and seen from both chains a packet that is sent, received or
refunded shifts its content (`carriedTo`) between escrow, wrappers and transit (`Shift`).

The invariant is then three parts. `Funds`: each relay knows exactly the wrappers whose
denomination begins with its end of their channel (`Known`), which is what makes
`isFromChannel` on one chain and `addressToDenom` on the other agree on
whose token comes home. `Stages`: an unsettled packet is fit to be refunded (`Packed`), that is, its tokens are
named as its channel would name them and a wrapper in it is still known, and
no packet to a good receiver was answered with a failure. `Books`: escrow and
outstanding, for *every* address, against what is owed (`owed`). One
needs the other: a refund or a receipt does not revert because the books
cover the packet, as all tokens of a packet together are part of the sum (`Affords`,
`Enough`, `OpenIsRefunded`), and the books stay in balance only if a packet is settled
whole (`Conserved`). The properties are the same for the tokens there are (`ClaimsAre`).
The fee needs nothing but that it is a part of the amount: it is minted or paid to somebody, and what
it leaves in `outstanding` is why that part of the books is an inequality.

**Light client.** Each state held is that of a signed header of its height
(`StoredIsSigned`), and is held at least since the moment it counts its delay from
(`HeldBeforeProcessed`): writing a state again can only restart the delay, never shorten it.

**Unionvisor.** What runs is what the link names, as the link changes only
while nothing runs (`NodeRunsLink`). The upgrade file is of the due upgrade, or of the last one
when the link is already that one's (`FileCurrent`), which is why reading it
again after a restart does nothing. From the copy until the new binary has run, the
backup is the home directory (`BackupKept`).

**Only model-checked.** Liveness, which rests on fairness and ENABLED:
`EveryPacketResolved`, `EveryMessageHandled`, `ReadyIsHandled`, `ProofsArrive`,
`UpgradesHappen`, `RunsToCompletion`, `EveryPacketRelayed`. All of `QueueMsg` (`EffectsHappenAsWritten`, `SequenceRespected`,
`RetriesAreSpent` and `ReceiverGetsItsData` besides its liveness): its operators are RECURSIVE, over
trees of messages, and the properties are about programs in which an identifier occurs once, as in the
run's.

## 6. What is not modelled

- `registerClient` and the choice of a client by its type.
- Capabilities: they bind a channel to one module, the models have one module per port.
- Cryptography and encodings: proof verification, circuits, Protobuf, ABI, RLP.
- In the queue modules a message is opaque and a handler returns any set of new ones;
  what a message is, is `QueueMsg`'s subject. A run with both would multiply two large
  state spaces that meet only in `MessageQueue`.
- UCS01's wrapper metadata (name and symbol, read from the denomination) and the
  channel callbacks, which check the version and keep no state.
- Voyager's HTTP endpoints. They acknowledge a message that is only in
  an unbounded channel in memory; nothing in the repository promises more.
- Of the relay library, the handshake messages before `ChannelOpenAck`: they take the same path from
  event to transaction. The fetches and the update headers of each chain type: conversions and I/O;
  the rollups (Scroll, Arbitrum), whose events are found by the slots of the chain they settle on, are not told
  from other EVM chains.
- Drip: its one question, a crash between the payment and its note, is `PgQueue`'s.
  UCS02: UCS01's discipline without amounts. The CosmWasm applications and Rust light
  clients: counterparts of contracts that are modelled.
- Unionvisor's first initialisation of a home directory, its logs and its other commands.
- The node's modules (`deferredack` passes a call on, `tokenfactory` is serial
  bookkeeping), ibc-go and the SDK (vendored), the web app, TypeScript clients, indexer, infrastructure.
- Optimizers that leave something to optimize further: `commitOptimize` puts it in `queue`, as
  `PgQueue::optimize` does, but every pipeline in the repository ends with `FinalPass`, so `run_pass` returns none.
- A row that does not decode makes `process` fail and Voyager restart with the row still first: the
  rows the models start from were written by the same program.
- Identifiers a rolled-back transaction used up (Postgres sequences do not roll back): only their order matters.
  They are taken when the transaction commits, in any order within a batch.

## 7. The plan

Modelled and then proved, in this order: packets, connection, channel, queues, tokens, the light
client, messages, Unionvisor, the prover, relaying. Every safety property and every refinement that
a run checks is now a theorem, except those of `QueueMsg`: its messages are trees, so what its
passes do to all of them is an induction over data, out of the prover's reach as they are written.
Liveness stays with TLC. Worth modelling next are the parts of section 6 that keep state of their
own, `registerClient` first.
