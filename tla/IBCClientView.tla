--------------------------- MODULE IBCClientView ---------------------------
(***************************************************************************)
(* Two chains, the blocks they produce and what the light client on each   *)
(* of them knows of the other one.                                         *)
(*                                                                         *)
(* A proof handed to the IBC handler is checked against the root of one of *)
(* the consensus states the client has stored (ILightClient.verifyMember-  *)
(* ship and verifyNonMembership), at any height the relayer names: a proof *)
(* can be older than the latest header, and the latest header older than   *)
(* the chain.  A header is therefore a record of a height, a time and the  *)
(* commitments its root stands for; a root is modelled by what it commits  *)
(* to, and a valid proof by reading it.                                    *)
(***************************************************************************)
EXTENDS IBCChains, IBCHeight

CONSTANTS
  Revision,        \* the revision number of each chain's heights
  RootLag,         \* 0: header h commits to the state after block h (EVM);
                   \* 1: to the state before it (CometBFT's app hash)
  TimeStep,        \* how much later than its parent a block may be
  MaxHeight        \* bound: past this block, only blocks that change something

ASSUME ClientViewAssumption ==
  /\ Revision \in [Chain -> Nat]
  /\ RootLag \in [Chain -> {0, 1}]
  /\ TimeStep \subseteq Nat \ {0}
  /\ MaxHeight \in Nat

VARIABLES
  block,      \* the block each chain is executing: its number and timestamp
  headers,    \* the headers each chain has published
  consensus   \* the counterparty headers each chain's client has stored

clientVars == <<block, headers, consensus>>

(* The height by which the counterparty's client knows header hd of d.     *)
heightOf(d, hd) ==
  [revision_number |-> Revision[d], revision_height |-> hd.height]

(* The consensus state getLatestHeight and getTimestampAtHeight answer     *)
(* from in sendPacket.                                                     *)
latestConsensus(c) ==
  CHOOSE cs \in consensus[c] : \A other \in consensus[c] : other.height <= cs.height

(* Both chains are at block 2 and each client was created at the first     *)
(* header of the other chain.                                              *)
FirstHeader(c, root) ==
  [height |-> 1 + RootLag[c], timestamp |-> 1 + RootLag[c], root |-> root]

InitClientView(root) ==
  /\ block = [c \in Chain |-> [number |-> 2, timestamp |-> 2]]
  /\ headers = [c \in Chain |-> {FirstHeader(c, root[c])}]
  /\ consensus = [c \in Chain |-> {FirstHeader(counterparty(c), root[counterparty(c)])}]

(* Chain c ends its block, whose commitments are root, and starts the next *)
(* one.  The header that commits to root is the ended block's, or the new  *)
(* one's on a chain whose root lags.                                       *)
EndBlock(c, root) ==
  /\ \E step \in TimeStep :
       LET next == [number |-> block[c].number + 1,
                    timestamp |-> block[c].timestamp + step]
           head == IF RootLag[c] = 0 THEN block[c] ELSE next
       IN /\ block' = [block EXCEPT ![c] = next]
          /\ headers' = [headers EXCEPT
               ![c] = @ \cup {[height |-> head.number,
                               timestamp |-> head.timestamp,
                               root |-> root]}]
  /\ UNCHANGED consensus

(* Blocks that change nothing stop at MaxHeight; a change can always be    *)
(* committed.                                                              *)
NewBlock(c, root) ==
  /\ block[c].number < MaxHeight \/ \A hd \in headers[c] : hd.root # root
  /\ EndBlock(c, root)

(* A relayer submits a header of the counterparty to the client on c       *)
(* (IBCClient.updateClient): any one the client does not have, in any      *)
(* order.                                                                  *)
updateClient(c) ==
  /\ \E hd \in headers[counterparty(c)] \ consensus[c] :
       consensus' = [consensus EXCEPT ![c] = @ \cup {hd}]
  /\ UNCHANGED <<block, headers>>

=============================================================================
