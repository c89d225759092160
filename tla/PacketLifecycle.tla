-------------------------- MODULE PacketLifecycle --------------------------
(***************************************************************************)
(* What a channel promises the two modules that use it, with no blocks,    *)
(* clients, proofs or stores: each packet is delivered at most once,       *)
(* acknowledged at most once, and its sender is told either the            *)
(* acknowledgement or a timeout, the latter only if it is not delivered.   *)
(***************************************************************************)
CONSTANTS
  Chain,            \* the chains that send packets
  Packet,           \* the packets, each with a sequence
  Acknowledgement,  \* what a receiving module may answer
  NoAck             \* no answer yet

VARIABLES
  stage,  \* by sending chain and packet
  answer  \* by sending chain and packet

vars == <<stage, answer>>

Stage == {"unsent", "inFlight", "delivered", "acknowledged", "timedOut"}

Init ==
  /\ stage = [c \in Chain |-> [p \in Packet |-> "unsent"]]
  /\ answer = [c \in Chain |-> [p \in Packet |-> NoAck]]

move(c, p, from, to) ==
  /\ stage[c][p] = from
  /\ stage' = [stage EXCEPT ![c][p] = to]

Send(c, p) ==
  /\ \A q \in Packet : q.sequence = p.sequence => stage[c][q] = "unsent"
  /\ move(c, p, "unsent", "inFlight")
  /\ UNCHANGED answer

(* The receiving module may answer at once or later.                       *)
Deliver(c, p, a) ==
  /\ move(c, p, "inFlight", "delivered")
  /\ answer' = [answer EXCEPT ![c][p] = a]

Answer(c, p, a) ==
  /\ stage[c][p] = "delivered" /\ answer[c][p] = NoAck
  /\ answer' = [answer EXCEPT ![c][p] = a]
  /\ UNCHANGED stage

Acknowledge(c, p) ==
  /\ answer[c][p] # NoAck
  /\ move(c, p, "delivered", "acknowledged")
  /\ UNCHANGED answer

Expire(c, p) ==
  /\ move(c, p, "inFlight", "timedOut")
  /\ UNCHANGED answer

Next ==
  \E c \in Chain, p \in Packet :
    \/ Send(c, p)
    \/ \E a \in Acknowledgement \cup {NoAck} : Deliver(c, p, a)
    \/ \E a \in Acknowledgement : Answer(c, p, a)
    \/ Acknowledge(c, p)
    \/ Expire(c, p)

Spec == Init /\ [][Next]_vars

=============================================================================
