------------------------------ MODULE PgQueue ------------------------------
(***************************************************************************)
(* The queue in a Postgres database (lib/pg-queue) and Voyager's tasks     *)
(* that share it.  Each call is one transaction; the rows it has deleted   *)
(* are locked until it commits, when what it did appears all at once, or   *)
(* are back as they were when the process dies.                            *)
(***************************************************************************)
EXTENDS QueuePasses

CONSTANTS
  Worker,      \* the workers
  MaxCrashes   \* bound: how often the process dies

ASSUME CrashAssumption == MaxCrashes \in Nat

VARIABLES
  id_seq,     \* the last identifier of queue_id_seq
  queue, optimize, done, failed,   \* the tables: items by identifier
  tx,         \* the transaction each worker has open
  optimizerTx,\* the rows the optimizer has deleted, and what they became
  effects,    \* how often each message was handled, in the world outside
  crashes

vars == <<id_seq, queue, optimize, done, failed, tx, optimizerTx, effects, crashes>>

noTx == [at |-> "none", id |-> 0, new |-> {}]

noOptimizerTx == [rows |-> {}, res |-> run_pass_pure({})]

Init ==
  /\ id_seq = 0
  /\ queue = emptyTable /\ optimize = emptyTable
  /\ done = emptyTable /\ failed = emptyTable
  /\ tx = [w \in Worker |-> noTx]
  /\ optimizerTx = noOptimizerTx
  /\ effects = [m \in Msg |-> 0]
  /\ crashes = 0

Waiting == messagesOf(queue) \cup messagesOf(optimize)

Handled == messagesOf(done) \cup messagesOf(failed)

Fresh == Msg \ (Waiting \cup Handled \cup (UNION {tx[w].new : w \in Worker}))

(* The rows of queue that another transaction would skip.                  *)
Locked == {tx[w].id : w \in {w \in Worker : tx[w].at # "none"}}

-----------------------------------------------------------------------------
(* What a pass returned is inserted in queueTable and optimizeTable.       *)
insertResult(queueTable, optimizeTable, res) ==
  \E now \in Orders(res.ready), further \in Orders(res.optimize_further) :
    LET n == Cardinality(res.ready) IN
    /\ queue' = insert(queueTable, id_seq, now)
    /\ optimize' = insert(optimizeTable, id_seq + n, further)
    /\ id_seq' = id_seq + n + Cardinality(res.optimize_further)

enqueue(m) ==
  /\ m \in Fresh
  /\ insertResult(queue, optimize, run_pass_pure({{m}}))
  /\ UNCHANGED <<done, failed, tx, optimizerTx, effects, crashes>>

(* Mutant: the row is chosen without looking at locks.                     *)
beginProcess_noSkip(w) ==
  /\ tx[w].at = "none"
  /\ DOMAIN queue # {}
  /\ tx' = [tx EXCEPT ![w] = [at |-> "handling", id |-> first(DOMAIN queue), new |-> {}]]
  /\ UNCHANGED <<id_seq, queue, optimize, done, failed, optimizerTx, effects, crashes>>

(* process: DELETE ... ORDER BY id FOR UPDATE SKIP LOCKED LIMIT 1.         *)
beginProcess(w) ==
  /\ tx[w].at = "none"
  /\ DOMAIN queue \ Locked # {}
  /\ tx' = [tx EXCEPT ![w] = [at |-> "handling",
                              id |-> first(DOMAIN queue \ Locked), new |-> {}]]
  /\ UNCHANGED <<id_seq, queue, optimize, done, failed, optimizerTx, effects, crashes>>

(* The item is handled, outside of the database, with a result or ...      *)
handle(w, new) ==
  /\ tx[w].at = "handling"
  /\ new \subseteq Fresh /\ IsFiniteSet(new)
  /\ tx' = [tx EXCEPT ![w].at = "handled", ![w].new = new]
  /\ effects' = [m \in Msg |-> IF m \in queue[tx[w].id] THEN effects[m] + 1 ELSE effects[m]]
  /\ UNCHANGED <<id_seq, queue, optimize, done, failed, optimizerTx, crashes>>

(* ... an error that is not worth a retry.                                 *)
handleFails(w) ==
  /\ tx[w].at = "handling"
  /\ tx' = [tx EXCEPT ![w].at = "failed"]
  /\ effects' = [m \in Msg |-> IF m \in queue[tx[w].id] THEN effects[m] + 1 ELSE effects[m]]
  /\ UNCHANGED <<id_seq, queue, optimize, done, failed, optimizerTx, crashes>>

moveRow(table, id) == insert(table, id - 1, <<queue[id]>>)

commitDone(w) ==
  /\ tx[w].at = "handled"
  /\ done' = moveRow(done, tx[w].id)
  /\ insertResult(without(queue, {tx[w].id}), optimize,
                  run_pass_pure(separately(tx[w].new)))
  /\ tx' = [tx EXCEPT ![w] = noTx]
  /\ UNCHANGED <<failed, optimizerTx, effects, crashes>>

commitFailed(w) ==
  /\ tx[w].at = "failed"
  /\ failed' = moveRow(failed, tx[w].id)
  /\ queue' = without(queue, {tx[w].id})
  /\ tx' = [tx EXCEPT ![w] = noTx]
  /\ UNCHANGED <<id_seq, optimize, done, optimizerTx, effects, crashes>>

(* Mutant: the optimizer waits for a batch.                                *)
beginOptimize_minBatch ==
  /\ optimizerTx.rows = {}
  /\ Cardinality(DOMAIN optimize) > 1
  /\ \E res \in run_pass({optimize[id] : id \in DOMAIN optimize}) :
       optimizerTx' = [rows |-> DOMAIN optimize, res |-> res]
  /\ UNCHANGED <<id_seq, queue, optimize, done, failed, tx, effects, crashes>>

(* optimize: all rows of its table are deleted and go through the passes.  *)
beginOptimize ==
  /\ optimizerTx.rows = {}
  /\ DOMAIN optimize # {}
  /\ \E res \in run_pass({optimize[id] : id \in DOMAIN optimize}) :
       optimizerTx' = [rows |-> DOMAIN optimize, res |-> res]
  /\ UNCHANGED <<id_seq, queue, optimize, done, failed, tx, effects, crashes>>

(* Mutant: rows that were inserted meanwhile are deleted with the others.  *)
commitOptimize_all ==
  /\ optimizerTx.rows # {}
  /\ insertResult(queue, emptyTable, optimizerTx.res)
  /\ optimizerTx' = noOptimizerTx
  /\ UNCHANGED <<done, failed, tx, effects, crashes>>

(* Whatever the passes returned is put in queue, to be handled.            *)
commitOptimize ==
  /\ optimizerTx.rows # {}
  /\ insertResult(queue, without(optimize, optimizerTx.rows),
                  [optimize_further |-> {},
                   ready |-> optimizerTx.res.ready \cup optimizerTx.res.optimize_further])
  /\ optimizerTx' = noOptimizerTx
  /\ UNCHANGED <<done, failed, tx, effects, crashes>>

(* The process dies, as when a handler asks for a retry outside of Retry   *)
(* (Engine::step panics), and is started again.                            *)
crash ==
  /\ crashes < MaxCrashes
  /\ crashes' = crashes + 1
  /\ tx' = [w \in Worker |-> noTx]
  /\ optimizerTx' = noOptimizerTx
  /\ UNCHANGED <<id_seq, queue, optimize, done, failed, effects>>

-----------------------------------------------------------------------------
processStep(w) ==
  \/ beginProcess(w)
  \/ \E new \in SUBSET Msg : handle(w, new)
  \/ handleFails(w)
  \/ commitDone(w)
  \/ commitFailed(w)

optimizeStep == beginOptimize \/ commitOptimize

Next ==
  \/ \E m \in Msg : enqueue(m)
  \/ \E w \in Worker : processStep(w)
  \/ optimizeStep
  \/ crash

Spec == Init /\ [][Next]_vars

(* Voyager's loops: every worker processes, and the optimizer optimizes,   *)
(* again and again.                                                        *)
FairSpec ==
  /\ Spec
  /\ \A w \in Worker : WF_vars(processStep(w))
  /\ WF_vars(optimizeStep)

-----------------------------------------------------------------------------
(* Properties *)

(* A message is handled at least once before it counts as done or failed,  *)
(* and more than once only for a crash between its handling and its        *)
(* commit (process).                                                       *)
EffectsRepeatOnlyByCrash ==
  \A m \in Msg :
    /\ m \in Handled => effects[m] > 0
    /\ effects[m] <= crashes + 1

Abstract == INSTANCE MessageQueue WITH waiting <- Waiting, handled <- Handled

(* Through crashes, concurrent workers and batching, the queue implements  *)
(* MessageQueue: no message is lost, none is committed twice, and what     *)
(* handling one produced is there as soon as it is done.                   *)
ImplementsMessageQueue == Abstract!Spec

(* A message in the queue is handled, however many others come, if the     *)
(* process does not die for ever.                                          *)
EveryMessageHandled == \A m \in Msg : m \in Waiting ~> m \in Handled

=============================================================================
