---------------------------- MODULE QueuePasses ----------------------------
(***************************************************************************)
(* The optimization passes a queue of lib/queue-msg runs, as far as a      *)
(* queue can tell them apart: which messages come back to be optimized     *)
(* further, which are ready, and which were joined into one.  How a pass   *)
(* rewrites one message is left out.                                       *)
(***************************************************************************)
EXTENDS Naturals, FiniteSets

CONSTANTS
  Msg,     \* the messages that may exist
  PrePass  \* the pass an item takes before it is enqueued

ASSUME PrePassAssumption == PrePass \in {"Normalize", "NormalizeFinal"}

(* An item of a queue: the messages joined in it.                          *)
Item == (SUBSET Msg) \ {{}}

separately(msgs) == {{m} : m \in msgs}

(* Normalize returns everything to be optimized further, NormalizeFinal    *)
(* everything as ready.                                                    *)
run_pass_pure(items) ==
  IF PrePass = "Normalize" THEN [optimize_further |-> items, ready |-> {}]
                           ELSE [optimize_further |-> {}, ready |-> items]

(* The ways to put items into batches, each item into one.                 *)
Partitions(items) ==
  {batches \in SUBSET ((SUBSET items) \ {{}}) :
     /\ UNION batches = items
     /\ \A batch, other \in batches : batch # other => batch \cap other = {}}

(* What Voyager's optimizer may make of items: TxBatch joins the items of  *)
(* each batch (one or several batches for each pair of chains, an item of  *)
(* its own where there is nothing to join), and its last pass, FinalPass,  *)
(* makes everything ready.                                                 *)
run_pass(items) ==
  {[optimize_further |-> {}, ready |-> {UNION batch : batch \in batches}] :
      batches \in Partitions(items)}

(* The orders in which items may be inserted.                              *)
Orders(items) ==
  {order \in [1..Cardinality(items) -> items] :
     \A item \in items : \E i \in 1..Cardinality(items) : order[i] = item}

(* table with items inserted under the identifiers after last.             *)
insert(table, last, order) ==
  [id \in DOMAIN table \cup {last + i : i \in DOMAIN order} |->
     IF id \in DOMAIN table THEN table[id] ELSE order[id - last]]

without(table, ids) == [id \in DOMAIN table \ ids |-> table[id]]

messagesOf(table) == UNION {table[id] : id \in DOMAIN table}

emptyTable == [id \in {} |-> {}]

first(ids) == CHOOSE id \in ids : \A other \in ids : id <= other

=============================================================================
