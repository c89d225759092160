----------------------------- MODULE UCS01Relay -----------------------------
(***************************************************************************)
(* Token transfers between two deployments of the UCS01 relay              *)
(* (apps/ucs/01-relay/Relay.sol) over several channels at once, on top of  *)
(* what the packet layer promises (PacketLifecycle, which IBCPacket        *)
(* implements on unordered channels, the only ones the relay accepts).     *)
(*                                                                         *)
(* A token travels over the channel it came by as its denomination, over   *)
(* any other as the address of its contract: a wrapper made for one        *)
(* channel is escrowed and wrapped again on another.                       *)
(***************************************************************************)
EXTENDS IBCChains, Integers, SequencesExt

CONSTANTS
  Channel,      \* the channels between the two relays
  Endpoint,     \* "port/channel/" of each chain's end of each channel
  Hex,          \* marks a denomination that is a contract's address
  Native,       \* the ERC20 contracts of each chain that no relay made
  Supply,       \* what the user of a chain has of each of them
  User, Relayer, Escrow, \* the accounts: Escrow is the relay itself
  BadReceiver,  \* receiver bytes that are not an address
  FeeMax,       \* type(uint128).max, the fee that takes everything
  Amount, Fee,  \* the amounts and fees of a transfer
  MaxTokens,    \* bound: tokens per packet
  MaxSequence,  \* bound: packets per channel and direction
  NoAck, ACK_SUCCESS, ACK_FAILURE,
  NoData        \* the data of a packet that was not sent

End == {Endpoint[c][ch] : c \in Chain, ch \in Channel}

ASSUME RelayAssumption ==
  /\ FeeMax \in Nat \ {0} /\ Fee \subseteq 0..FeeMax
  /\ Amount \subseteq Nat /\ Supply \in Nat
  /\ IsFiniteSet(Channel) /\ MaxTokens \in Nat /\ MaxSequence \in Nat
  /\ Endpoint \in [Chain -> [Channel -> End]] /\ Hex \notin End
  /\ \A c \in Chain : /\ \A ch, other \in Channel : Endpoint[c][ch] = Endpoint[c][other] => ch = other
                     /\ Native[c] \cap End = {}
  /\ Escrow \notin {User, Relayer} /\ BadReceiver # User
  /\ ACK_FAILURE \notin {NoAck, ACK_SUCCESS}

VARIABLES
  relay,          \* the ledger of each chain
  data,           \* the RelayPacket of each packet sent
  stage, answer   \* the packet layer's

vars == <<relay, data, stage, answer>>

Account == {User, Relayer, Escrow}
Acknowledgement == {ACK_SUCCESS, ACK_FAILURE}
Packet == [sequence : Channel \X (1..MaxSequence)]

Packets == INSTANCE PacketLifecycle

channelOf(p) == p.sequence[1]

-----------------------------------------------------------------------------
(* Denominations are sequences: an address with its hexadecimal mark, or a *)
(* denomination prefixed with an end of a channel.  The address of a       *)
(* wrapper, which the relay derives from its denomination (CREATE2), is    *)
(* that denomination; the address of another contract is its name.         *)
toHexString(address) == <<Hex>> \o address
hexToAddress(denom) == Tail(denom)
makeForeignDenom(c, ch, denom) == <<Endpoint[c][ch]>> \o denom
isFromChannel(c, ch, denom) == Head(denom) = Endpoint[c][ch]

-----------------------------------------------------------------------------
(* A ledger is what one chain keeps: the balances of every ERC20, and the  *)
(* relay's outstanding amounts and wrappers by channel.  ok becomes FALSE  *)
(* when a call reverts.                                                    *)

put(f, x, value) == [y \in DOMAIN f \cup {x} |-> IF y = x THEN value ELSE f[y]]

noBalance == [a \in Account |-> 0]

InitLedger(c) ==
  [ok |-> TRUE,
   balance |-> [t \in {<<n>> : n \in Native[c]} |-> [noBalance EXCEPT ![User] = Supply]],
   outstanding |-> [ch \in Channel |-> [t \in {} |-> 0]],
   denomToAddress |-> [ch \in Channel |-> {}]]

require(L, condition) == [L EXCEPT !.ok = @ /\ condition]

mint(L, token, account, amount) == [L EXCEPT !.balance[token][account] = @ + amount]

burn(L, token, account, amount) ==
  LET enough == L.balance[token][account] >= amount IN
  require([L EXCEPT !.balance[token][account] = IF enough THEN @ - amount ELSE @], enough)

transfer(L, token, from, to, amount) ==
  mint(burn(L, token, from, amount), token, to, amount)

getOutstanding(L, ch, token) ==
  IF token \in DOMAIN L.outstanding[ch] THEN L.outstanding[ch][token] ELSE 0

setOutstanding(L, ch, token, amount) ==
  [L EXCEPT !.outstanding[ch] = put(@, token, amount)]

increaseOutstanding(L, ch, token, amount) ==
  setOutstanding(L, ch, token, getOutstanding(L, ch, token) + amount)

decreaseOutstanding(L, ch, token, amount) ==
  LET left == getOutstanding(L, ch, token) - amount IN
  IF left >= 0 THEN setOutstanding(L, ch, token, left) ELSE require(L, FALSE)

calculateFee(amount, fee) ==
  LET feeAmount == (amount * fee) \div FeeMax
  IN [actual |-> amount - feeAmount, fee |-> feeAmount]

-----------------------------------------------------------------------------
(* The bodies of the relay's loops over the tokens of a packet *)

(* Mutant: a wrapper of any channel is burnt.                              *)
isWrapper_anyChannel(L, ch, token) == \E x \in Channel : token \in L.denomToAddress[x]

(* addressToDenom has the token: it came by this channel.                  *)
isWrapper(L, ch, token) == token \in L.denomToAddress[ch]

denomOf(L, ch, token) == IF isWrapper(L, ch, token) THEN token ELSE toHexString(token)

(* Mutant: only what remains after the fee is noted as outstanding.        *)
sendToken_net(L, ch, account, local) ==
  LET funded == require(L, local.amount # 0) IN
  IF isWrapper(L, ch, local.denom)
  THEN burn(funded, local.denom, account, local.amount)
  ELSE increaseOutstanding(
         transfer(funded, local.denom, account, Escrow, local.amount),
         ch, local.denom, calculateFee(local.amount, local.fee).actual)

sendToken(L, ch, account, local) ==
  LET funded == require(L, local.amount # 0) IN
  IF isWrapper(L, ch, local.denom)
  THEN burn(funded, local.denom, account, local.amount)
  ELSE increaseOutstanding(
         transfer(funded, local.denom, account, Escrow, local.amount),
         ch, local.denom, local.amount)

(* Mutant: a refund is always paid out of the escrow.                      *)
refundToken_unescrow(L, ch, account, token) ==
  LET address == hexToAddress(token.denom) IN
  IF address \in DOMAIN L.balance
  THEN transfer(decreaseOutstanding(L, ch, address, token.amount),
                address, Escrow, account, token.amount)
  ELSE require(L, FALSE)

refundToken(L, ch, account, token) ==
  LET address == hexToAddress(token.denom) IN
  IF token.denom \in L.denomToAddress[ch]
  THEN mint(L, token.denom, account, token.amount)
  ELSE transfer(decreaseOutstanding(L, ch, address, token.amount),
                address, Escrow, account, token.amount)

onRecvLocalTransfer(L, ch, denom, amounts) ==
  LET address == hexToAddress(denom)
      paid == transfer(decreaseOutstanding(L, ch, address, amounts.actual),
                       address, Escrow, User, amounts.actual)
  IN transfer(paid, address, Escrow, Relayer, amounts.fee)

(* The wrapper is made the first time the denomination arrives.            *)
onRecvRemoteTransfer(L, ch, denom, amounts) ==
  LET made == IF denom \in L.denomToAddress[ch] THEN L
              ELSE [L EXCEPT !.denomToAddress[ch] = @ \cup {denom},
                             !.balance = put(@, denom, noBalance)]
  IN mint(mint(made, denom, User, amounts.actual), denom, Relayer, amounts.fee)

recvToken(L, c, ch, receiver, token) ==
  LET amounts == calculateFee(token.amount, token.fee)
      checked == require(L, token.amount # 0 /\ receiver # BadReceiver)
  IN IF isFromChannel(counterparty(c), ch, token.denom)
     THEN onRecvLocalTransfer(checked, ch, Tail(token.denom), amounts)
     ELSE onRecvRemoteTransfer(checked, ch, makeForeignDenom(c, ch, token.denom), amounts)

sendTokens(c, ch, account, tokens) ==
  LET after[i \in 0..Len(tokens)] ==
        IF i = 0 THEN relay[c] ELSE sendToken(after[i - 1], ch, account, tokens[i])
  IN after[Len(tokens)]

refundTokens(c, p) ==
  LET packet == data[c][p]
      after[i \in 0..Len(packet.tokens)] ==
        IF i = 0 THEN relay[c]
        ELSE refundToken(after[i - 1], channelOf(p), packet.sender, packet.tokens[i])
  IN after[Len(packet.tokens)]

onRecvPacketProcessing(c, p) ==
  LET packet == data[counterparty(c)][p]
      after[i \in 0..Len(packet.tokens)] ==
        IF i = 0 THEN relay[c]
        ELSE recvToken(after[i - 1], c, channelOf(p), packet.receiver, packet.tokens[i])
  IN after[Len(packet.tokens)]

-----------------------------------------------------------------------------
(* The relay's operations *)

LocalToken(c) == [denom : DOMAIN relay[c].balance, amount : Amount, fee : Fee]

nextPacket(c, ch) ==
  {p \in Packet : /\ channelOf(p) = ch /\ stage[c][p] = "unsent"
                  /\ \A q \in Packet : /\ channelOf(q) = ch
                                       /\ q.sequence[2] < p.sequence[2]
                                       => stage[c][q] # "unsent"}

send(c, ch, account, receiver, tokens) ==
  LET after == sendTokens(c, ch, account, tokens)
      normalized == [i \in DOMAIN tokens |->
                       [tokens[i] EXCEPT !.denom = denomOf(relay[c], ch, @)]]
  IN
  /\ after.ok
  /\ relay' = [relay EXCEPT ![c] = after]
  /\ \E p \in nextPacket(c, ch) :
       /\ Packets!Send(c, p)
       /\ data' = [data EXCEPT ![c][p] =
            [sender |-> account, receiver |-> receiver, tokens |-> normalized]]

(* The packet p that the other chain sent: a processing that reverts does  *)
(* so alone, and is acknowledged as a failure.                             *)
onRecvPacket(c, p) ==
  LET after == onRecvPacketProcessing(c, p) IN
  /\ data[counterparty(c)][p] # NoData
  /\ \/ after.ok
        /\ relay' = [relay EXCEPT ![c] = after]
        /\ Packets!Deliver(counterparty(c), p, ACK_SUCCESS)
     \/ ~after.ok
        /\ UNCHANGED relay
        /\ Packets!Deliver(counterparty(c), p, ACK_FAILURE)
  /\ UNCHANGED data

refund(c, p) ==
  /\ refundTokens(c, p).ok
  /\ relay' = [relay EXCEPT ![c] = refundTokens(c, p)]

onAcknowledgementPacket(c, p) ==
  /\ Packets!Acknowledge(c, p)
  /\ \/ answer[c][p] = ACK_FAILURE /\ refund(c, p)
     \/ answer[c][p] = ACK_SUCCESS /\ UNCHANGED relay
  /\ UNCHANGED data

onTimeoutPacket(c, p) ==
  /\ Packets!Expire(c, p)
  /\ refund(c, p)
  /\ UNCHANGED data

-----------------------------------------------------------------------------
Init ==
  /\ relay = [c \in Chain |-> InitLedger(c)]
  /\ data = [c \in Chain |-> [p \in Packet |-> NoData]]
  /\ Packets!Init

Next ==
  \E c \in Chain :
    \/ \E ch \in Channel, account \in {User, Relayer}, receiver \in {User, BadReceiver},
          tokens \in SeqOf(LocalToken(c), MaxTokens) \ {<<>>} :
         send(c, ch, account, receiver, tokens)
    \/ \E p \in Packet :
         \/ onRecvPacket(c, p)
         \/ onAcknowledgementPacket(c, p)
         \/ onTimeoutPacket(c, p)

Spec == Init /\ [][Next]_vars

-----------------------------------------------------------------------------
(* Properties *)

supplyOf(L, token) ==
  IF token \in DOMAIN L.balance THEN SumFunction(L.balance[token]) ELSE 0

(* What tokens, those of a packet, have of denom.                          *)
carried(tokens, denom) ==
  SumFunctionOnSet([i \in DOMAIN tokens |-> tokens[i].amount],
                   {i \in DOMAIN tokens : tokens[i].denom = denom})

(* The packets of c on ch that were neither paid out nor given back yet.   *)
unsettled(c, ch) ==
  {p \in Packet : /\ channelOf(p) = ch
                  /\ \/ stage[c][p] = "inFlight"
                     \/ stage[c][p] = "delivered" /\ answer[c][p] = ACK_FAILURE}

inTransit(c, ch, denom) ==
  SumFunction([p \in unsettled(c, ch) |-> carried(data[c][p].tokens, denom)])

(* What of token the other chain can claim over ch: the wrappers there     *)
(* are, and the packets in either direction that carry it.                 *)
wrapper(c, ch, token) == makeForeignDenom(counterparty(c), ch, toHexString(token))

claims(c, ch, token) ==
  supplyOf(relay[counterparty(c)], wrapper(c, ch, token))
    + inTransit(c, ch, toHexString(token))
    + inTransit(counterparty(c), ch, wrapper(c, ch, token))

(* The relay holds of every token exactly what can be claimed over all its *)
(* channels together, fees, failed transfers and refunds included          *)
(* ("if we burn locally, the remote relay will unescrow; if we escrow      *)
(* locally, the remote relay will mint").                                  *)
EscrowIsBacked ==
  \A c \in Chain : \A token \in DOMAIN relay[c].balance :
    relay[c].balance[token][Escrow] = SumFunction([ch \in Channel |-> claims(c, ch, token)])

(* The outstanding amount of a channel never falls below what can be       *)
(* claimed over it, so that no claim of an honest holder is refused        *)
(* (decreaseOutstanding: the token must be outstanding).  It may be above, *)
(* because a fee is paid out of the escrow without it being decreased.     *)
OutstandingCoversClaims ==
  \A c \in Chain, ch \in Channel : \A token \in DOMAIN relay[c].balance :
    getOutstanding(relay[c], ch, token) >= claims(c, ch, token)

(* A transfer only fails because of its receiver (onRecvPacketProcessing), *)
(* and one that fails or times out can be refunded (refundTokens): no      *)
(* order of transfers over the channels leaves tokens that are neither     *)
(* paid out nor given back.                                                *)
TransfersSettle ==
  \A c \in Chain, p \in Packet :
    /\ stage[c][p] # "unsent" /\ data[c][p].receiver = User => answer[c][p] # ACK_FAILURE
    /\ \/ stage[c][p] = "inFlight"
       \/ stage[c][p] = "delivered" /\ answer[c][p] = ACK_FAILURE
       => refundTokens(c, p).ok

=============================================================================
