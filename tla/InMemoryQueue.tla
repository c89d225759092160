--------------------------- MODULE InMemoryQueue ---------------------------
(***************************************************************************)
(* The in-memory queue of lib/queue-msg and the tasks that share it when   *)
(* Voyager runs: the one that enqueues what its message server receives,   *)
(* the workers, and the optimizer.  The tasks run on several threads.      *)
(*                                                                         *)
(* A step is what a task does between two points where another can get in: *)
(* an await, or taking a lock while another is held.  The mutex of done is *)
(* only ever taken for one insertion or after the other two, so nobody is  *)
(* seen holding it.                                                        *)
(***************************************************************************)
EXTENDS QueuePasses

CONSTANTS Worker, Enqueuer, Optimizer, None

ASSUME TaskAssumption ==
  /\ Enqueuer \notin Worker /\ Optimizer \notin Worker /\ Enqueuer # Optimizer
  /\ None \notin Worker \cup {Enqueuer, Optimizer}

Task == Worker \cup {Enqueuer, Optimizer}

VARIABLES
  idx,              \* the last identifier handed out
  ready, done, optimizer_queue,  \* the tables: items by identifier
  holder,           \* who holds the mutex of ready, and of optimizer_queue
  task,             \* where each task is, and what it has at hand
  handled,          \* messages whose handler has returned
  panicked          \* a handler failed for good, and the process ended

vars == <<idx, ready, done, optimizer_queue, holder, task, handled, panicked>>

idle == [at |-> "idle", id |-> 0, item |-> {}, res |-> run_pass_pure({})]

Init ==
  /\ idx = 0
  /\ ready = emptyTable /\ done = emptyTable /\ optimizer_queue = emptyTable
  /\ holder = [mutex \in {"ready", "optimizer_queue"} |-> None]
  /\ task = [t \in Task |-> idle]
  /\ handled = {} /\ panicked = FALSE

resultOf(t) == UNION (task[t].res.optimize_further \cup task[t].res.ready)

(* Where a message can be, besides done.                                   *)
Held ==
  messagesOf(ready) \cup messagesOf(optimizer_queue) \cup
  (UNION {task[w].item : w \in Worker}) \cup
  (UNION {resultOf(t) : t \in Task \ {Optimizer}})

Fresh == Msg \ (Held \cup handled \cup messagesOf(done) \cup resultOf(Optimizer))

free(mutex) == holder[mutex] = None

-----------------------------------------------------------------------------
(* Mutant: what is ready is not put in its queue.                          *)
requeue_further(optimizerQueue, res) ==
  \E further \in Orders(res.optimize_further) :
    /\ optimizer_queue' = insert(optimizerQueue, idx, further)
    /\ idx' = idx + Cardinality(res.optimize_further)
    /\ UNCHANGED ready

(* The two loops of requeue, over the optimizer's queue as given.          *)
requeue(optimizerQueue, res) ==
  \E further \in Orders(res.optimize_further), now \in Orders(res.ready) :
    LET n == Cardinality(res.optimize_further) IN
    /\ optimizer_queue' = insert(optimizerQueue, idx, further)
    /\ ready' = insert(ready, idx + n, now)
    /\ idx' = idx + n + Cardinality(res.ready)

(* enqueue: a new message, through the pass it takes before enqueueing.    *)
enqueue(m) ==
  /\ task[Enqueuer].at = "idle"
  /\ m \in Fresh
  /\ task' = [task EXCEPT ![Enqueuer].at = "enqueue",
                          ![Enqueuer].res = run_pass_pure({{m}})]
  /\ UNCHANGED <<idx, ready, done, optimizer_queue, holder, handled, panicked>>

(* enqueue and process lock the optimizer's queue, ...                     *)
lockOptimizerQueue(t) ==
  /\ task[t].at = "enqueue" /\ free("optimizer_queue")
  /\ holder' = [holder EXCEPT !["optimizer_queue"] = t]
  /\ task' = [task EXCEPT ![t].at = "lockedOptimizerQueue"]
  /\ UNCHANGED <<idx, ready, done, optimizer_queue, handled, panicked>>

(* Mutant: the optimizer's queue stays locked when nothing was inserted.   *)
finishEnqueue_locked(t) ==
  /\ task[t].at = "lockedOptimizerQueue" /\ free("ready")
  /\ requeue(optimizer_queue, task[t].res)
  /\ holder' = [holder EXCEPT
       !["optimizer_queue"] = IF resultOf(t) = {} THEN @ ELSE None]
  /\ task' = [task EXCEPT ![t] = idle]
  /\ UNCHANGED <<done, handled, panicked>>

(* ... then ready, and insert what they have.                              *)
finishEnqueue(t) ==
  /\ task[t].at = "lockedOptimizerQueue" /\ free("ready")
  /\ requeue(optimizer_queue, task[t].res)
  /\ holder' = [holder EXCEPT !["optimizer_queue"] = None]
  /\ task' = [task EXCEPT ![t] = idle]
  /\ UNCHANGED <<done, handled, panicked>>

(* process: a worker takes the first ready item, ...                       *)
pop(w) ==
  LET id == first(DOMAIN ready) IN
  /\ task[w].at = "idle" /\ free("ready") /\ ready # emptyTable
  /\ ready' = without(ready, {id})
  /\ task' = [task EXCEPT ![w].at = "popped", ![w].id = id, ![w].item = ready[id]]
  /\ UNCHANGED <<idx, done, optimizer_queue, holder, handled, panicked>>

(* ... notes it as done before it is, ...                                  *)
markDone(w) ==
  /\ task[w].at = "popped"
  /\ done' = insert(done, task[w].id - 1, <<task[w].item>>)
  /\ task' = [task EXCEPT ![w].at = "handling"]
  /\ UNCHANGED <<idx, ready, optimizer_queue, holder, handled, panicked>>

(* ... and has it handled, which makes new messages ...                    *)
handle(w, new) ==
  /\ task[w].at = "handling"
  /\ new \subseteq Fresh /\ IsFiniteSet(new)
  /\ handled' = handled \cup task[w].item
  /\ task' = [task EXCEPT ![w] = [at |-> "enqueue", id |-> 0, item |-> {},
                                  res |-> run_pass_pure(separately(new))]]
  /\ UNCHANGED <<idx, ready, done, optimizer_queue, holder, panicked>>

(* ... or fails, and Voyager ends.                                         *)
fail(w) ==
  /\ task[w].at = "handling"
  /\ panicked' = TRUE
  /\ UNCHANGED <<idx, ready, done, optimizer_queue, holder, task, handled>>

(* optimize: a copy of the optimizer's queue goes through the passes, ...  *)
runPass ==
  /\ task[Optimizer].at = "idle" /\ free("optimizer_queue")
  /\ \E res \in run_pass({optimizer_queue[id] : id \in DOMAIN optimizer_queue}) :
       task' = [task EXCEPT ![Optimizer].at = "optimized", ![Optimizer].res = res]
  /\ UNCHANGED <<idx, ready, done, optimizer_queue, holder, handled, panicked>>

(* ... then the optimizer locks ready, ...                                 *)
lockReady ==
  /\ task[Optimizer].at = "optimized" /\ free("ready")
  /\ holder' = [holder EXCEPT !["ready"] = Optimizer]
  /\ task' = [task EXCEPT ![Optimizer].at = "lockedReady"]
  /\ UNCHANGED <<idx, ready, done, optimizer_queue, handled, panicked>>

(* Mutant: what went through the passes stays in the optimizer's queue.    *)
finishOptimize_kept ==
  /\ task[Optimizer].at = "lockedReady" /\ free("optimizer_queue")
  /\ done' = done
  /\ requeue(optimizer_queue, task[Optimizer].res)
  /\ holder' = [holder EXCEPT !["ready"] = None]
  /\ task' = [task EXCEPT ![Optimizer] = idle]
  /\ UNCHANGED <<handled, panicked>>

(* ... and its queue: all of that is moved to done, and the result is put  *)
(* in the queues.                                                          *)
finishOptimize ==
  /\ task[Optimizer].at = "lockedReady" /\ free("optimizer_queue")
  /\ done' = [id \in DOMAIN done \cup DOMAIN optimizer_queue |->
                IF id \in DOMAIN optimizer_queue THEN optimizer_queue[id] ELSE done[id]]
  /\ requeue(emptyTable, task[Optimizer].res)
  /\ holder' = [holder EXCEPT !["ready"] = None]
  /\ task' = [task EXCEPT ![Optimizer] = idle]
  /\ UNCHANGED <<handled, panicked>>

-----------------------------------------------------------------------------
processStep(w) ==
  \/ pop(w)
  \/ markDone(w)
  \/ \E new \in SUBSET Msg : handle(w, new)
  \/ lockOptimizerQueue(w)
  \/ finishEnqueue(w)

enqueueStep == lockOptimizerQueue(Enqueuer) \/ finishEnqueue(Enqueuer)

optimizeStep == runPass \/ lockReady \/ finishOptimize

Next ==
  /\ ~panicked
  /\ \/ \E m \in Msg : enqueue(m)
     \/ enqueueStep
     \/ \E w \in Worker : processStep(w) \/ fail(w)
     \/ optimizeStep

Spec == Init /\ [][Next]_vars

(* Every task runs, and one that waits for a mutex that is freed again and *)
(* again gets it.                                                          *)
FairSpec ==
  /\ Spec
  /\ SF_vars(~panicked /\ enqueueStep)
  /\ \A w \in Worker : SF_vars(~panicked /\ processStep(w))
  /\ SF_vars(~panicked /\ optimizeStep)

-----------------------------------------------------------------------------
(* Properties *)

Places(m) ==
  {<<"ready", id>> : id \in {id \in DOMAIN ready : m \in ready[id]}} \cup
  {<<"optimizer_queue", id>> :
      id \in {id \in DOMAIN optimizer_queue : m \in optimizer_queue[id]}} \cup
  {<<"item", w>> : w \in {w \in Worker : m \in task[w].item}} \cup
  {<<"result", t>> : t \in {t \in Task \ {Optimizer} : m \in resultOf(t)}}

(* No message is handled twice, whoever runs between the optimizer's copy  *)
(* and its return: it waits in one place, and when it has been handled in  *)
(* none (pop, optimize).                                                   *)
HandledOnce ==
  \A m \in Msg : Cardinality(Places(m)) <= (IF m \in handled THEN 0 ELSE 1)

Lost == messagesOf(done) \ (Held \cup handled)

(* What was put in the optimizer's queue after the optimizer copied it.    *)
Unseen ==
  IF task[Optimizer].at = "lockedReady"
  THEN messagesOf(optimizer_queue) \ resultOf(Optimizer) ELSE {}

(* A message waits somewhere until it is handled ("All items will be       *)
(* enqueued to be optimized, unless marked as ready"), but for the ones    *)
(* that are enqueued while the optimizer is at work on its copy of the     *)
(* queue: optimize moves them to done with the others, and nobody handles  *)
(* them.  No other step loses a message.                                   *)
LostOnlyBehindOptimizer ==
  [][Lost' \subseteq Lost \cup Unseen]_vars

(* enqueue and process lock the optimizer's queue and then ready, optimize *)
(* locks them the other way round: each waits for the other.               *)
Deadlocked ==
  /\ task[Optimizer].at = "lockedReady"
  /\ \E t \in Task : task[t].at = "lockedOptimizerQueue"

(* A message that is ready gets handled ("Process the item at the front of *)
(* the queue, if there is one"), unless Voyager ends, or the two orders in *)
(* which the mutexes are locked meet: nothing else can block the tasks.    *)
ReadyIsHandled ==
  \A m \in Msg :
    m \in messagesOf(ready) ~> (m \in handled \/ panicked \/ Deadlocked)

=============================================================================
