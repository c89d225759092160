------------------------ MODULE InMemoryQueueProofs ------------------------
(***************************************************************************)
(* The in-memory queue, for any messages and any number of workers: the    *)
(* inductive invariant of InMemoryQueue, that a message is handled at most *)
(* once, and that none is lost but in the optimizer's window.              *)
(***************************************************************************)
EXTENDS InMemoryQueue, QueuePassesProofs

(* The tasks that have messages of their own: all but the optimizer, which *)
(* has a copy of what is in its queue.                                     *)
User == Task \ {Optimizer}

Place == {"idle", "enqueue", "lockedOptimizerQueue", "popped", "handling", "optimized",
          "lockedReady"}
Result == [optimize_further : SUBSET Item, ready : SUBSET Item]

TaskRecord == [at : Place, id : Nat, item : SUBSET Msg, res : Result]

(* What a task has at hand, where it is.                                   *)
FitsTask(t, s) ==
  /\ Returns(s.res, Returned(s.res))
  /\ s.at \in {"popped", "handling"} => t \in Worker /\ s.item \in Item /\ Returned(s.res) = {}
  /\ s.at \notin {"popped", "handling"} => s.item = {}
  /\ s.at = "idle" => Returned(s.res) = {}

atHand(s) == s.item \cup UNION Returned(s.res)

QueueTypes ==
  /\ idx \in Nat
  /\ IsTable(ready, idx) /\ IsTable(optimizer_queue, idx)
  /\ task \in [Task -> TaskRecord]
  /\ \A t \in Task : FitsTask(t, task[t])

(* Every message waits in one place, and in none once it was handled.      *)
WaitsOnce ==
  /\ RowsApart(ready) /\ RowsApart(optimizer_queue)
  /\ messagesOf(ready) \cap messagesOf(optimizer_queue) = {}
  /\ \A t \in User : /\ atHand(task[t]) \cap messagesOf(ready) = {}
                     /\ atHand(task[t]) \cap messagesOf(optimizer_queue) = {}
                     /\ atHand(task[t]) \cap handled = {}
  /\ \A t, other \in User : t # other => atHand(task[t]) \cap atHand(task[other]) = {}
  /\ (messagesOf(ready) \cup messagesOf(optimizer_queue)) \cap handled = {}

(* Until the optimizer is back, what it copied stays in its queue.         *)
CopyIsQueued == UNION Returned(task[Optimizer].res) \subseteq messagesOf(optimizer_queue)

IInv == QueueTypes /\ WaitsOnce /\ CopyIsQueued

-----------------------------------------------------------------------------
(* What the steps do *)

Becomes(t, s) ==
  /\ t \in Task /\ s \in TaskRecord /\ FitsTask(t, s)
  /\ task' = [task EXCEPT ![t] = s]

(* A task goes on with what it has.                                        *)
GoesOn(t, s) ==
  /\ Becomes(t, s)
  /\ s.item = task[t].item /\ s.res = task[t].res
  /\ messagesOf(done') \subseteq messagesOf(done) \cup s.item
  /\ UNCHANGED <<idx, ready, optimizer_queue, handled>>

(* A worker takes a row.                                                   *)
Takes(t, s) ==
  /\ Becomes(t, s) /\ t \in Worker
  /\ atHand(task[t]) = {}
  /\ IsTable(ready', idx)
  /\ \E id \in DOMAIN ready : Shrinks(ready, {id}, ready') /\ atHand(s) = ready[id]
  /\ UNCHANGED <<idx, done, optimizer_queue, handled>>

(* New messages come, and those the task had at hand were handled.         *)
Receives(t, s) ==
  /\ Becomes(t, s) /\ t \in User
  /\ atHand(s) \subseteq Fresh
  /\ handled' = handled \cup atHand(task[t])
  /\ UNCHANGED <<idx, ready, done, optimizer_queue>>

(* What a task has at hand goes in the queues, over table.                 *)
Requeues(t, table) ==
  LET res == task[t].res
      n == Cardinality(res.optimize_further)
  IN /\ Becomes(t, idle)
     /\ Grows(table, idx, res.optimize_further, optimizer_queue')
     /\ Grows(ready, idx + n, res.ready, ready')
     /\ idx' = idx + n + Cardinality(res.ready)
     /\ UNCHANGED handled

PutsBack(t) ==
  t \in User /\ task[t].item = {} /\ Requeues(t, optimizer_queue) /\ UNCHANGED done

FinishesOptimize ==
  /\ Requeues(Optimizer, emptyTable)
  /\ task[Optimizer].at = "lockedReady"
  /\ messagesOf(done') \subseteq messagesOf(done) \cup messagesOf(optimizer_queue)

(* The optimizer copies its queue.                                         *)
Copies(s) ==
  /\ Becomes(Optimizer, s)
  /\ UNION Returned(s.res) = messagesOf(optimizer_queue)
  /\ UNCHANGED <<idx, ready, done, optimizer_queue, handled>>

OneStep ==
  \/ UNCHANGED <<idx, ready, done, optimizer_queue, task, handled>>
  \/ \E t, s : GoesOn(t, s) \/ Takes(t, s) \/ Receives(t, s)
  \/ \E t : PutsBack(t)
  \/ FinishesOptimize
  \/ \E s : Copies(s)

(* A task with nothing at hand.                                            *)
LEMMA IdleFits ==
  ASSUME NEW t
  PROVE  /\ idle \in TaskRecord /\ FitsTask(t, idle) /\ atHand(idle) = {}
         /\ Returned(idle.res) = {}
<1>1. Returns(run_pass_pure({}), {}) /\ Returned(run_pass_pure({})) = {}
  <2>1. Items({}) /\ Apart({})
    BY FS_EmptySet DEF Items, Apart
  <2> QED
    BY <2>1, PurePassReturns DEF Returned, run_pass_pure
<1>2. run_pass_pure({}) \in Result
  BY DEF run_pass_pure, Result
<1> QED
  BY <1>1, <1>2 DEF idle, TaskRecord, Place, FitsTask, atHand

(* The record of a task that has the result of the pass before enqueueing. *)
LEMMA ReceivedFits ==
  ASSUME NEW t, NEW items, Items(items), Apart(items),
         NEW s, s.at = "enqueue", s.item = {}, s.res = run_pass_pure(items)
  PROVE  /\ s.res \in Result
         /\ FitsTask(t, s) /\ atHand(s) = UNION items
<1>1. Returns(s.res, items) /\ Returned(s.res) = items
  BY PurePassReturns DEF Returned, run_pass_pure
<1>2. s.res \in Result
  BY DEF run_pass_pure, Items, Result
<1> QED
  BY <1>1, <1>2 DEF FitsTask, atHand

(* The two loops of requeue put each item in a row of its own.             *)
LEMMA Requeued ==
  ASSUME idx \in Nat, NEW table, IsTable(table, idx), IsTable(ready, idx),
         NEW res, Items(res.optimize_further), Items(res.ready), requeue(table, res)
  PROVE  /\ Grows(table, idx, res.optimize_further, optimizer_queue')
         /\ Grows(ready, idx + Cardinality(res.optimize_further), res.ready, ready')
         /\ idx' = idx + Cardinality(res.optimize_further) + Cardinality(res.ready)
<1> DEFINE n == Cardinality(res.optimize_further)
<1>1. PICK further \in Orders(res.optimize_further), now \in Orders(res.ready) :
        /\ optimizer_queue' = insert(table, idx, further)
        /\ ready' = insert(ready, idx + n, now)
        /\ idx' = idx + n + Cardinality(res.ready)
  BY DEF requeue
<1>2. Grows(table, idx, res.optimize_further, optimizer_queue')
  BY <1>1, Inserted
<1>3. n \in Nat
  BY FS_CardinalityType DEF Items
<1>4. IsTable(ready, idx + n) /\ idx + n \in Nat
  BY <1>3, TableGrows
<1>5. Grows(ready, idx + n, res.ready, ready')
  <2> HIDE DEF n
  <2> QED
    BY <1>1, <1>4, Inserted
<1> QED
  BY <1>1, <1>2, <1>5

(* Every action is one of these steps.                                     *)
LEMMA StepIs ==
  ASSUME QueueTypes, WaitsOnce, TaskAssumption, [Next]_vars PROVE OneStep
<1>1. /\ \A t \in Task : task[t] \in TaskRecord /\ FitsTask(t, task[t])
      /\ task \in [Task -> TaskRecord]
      /\ Enqueuer \in User /\ Optimizer \in Task /\ Worker \subseteq User
      /\ User \subseteq Task /\ Enqueuer \notin Worker /\ Optimizer \notin Worker
  BY TaskAssumption DEF QueueTypes, User, Task, TaskAssumption
<1>13. \A at \in Place, t \in Task :
        LET r == [task[t] EXCEPT !.at = at]
        IN r \in TaskRecord /\ r.at = at /\ r.item = task[t].item /\ r.res = task[t].res
  <2>1. \A s \in TaskRecord, at \in Place :
          LET r == [s EXCEPT !.at = at]
          IN r \in TaskRecord /\ r.at = at /\ r.item = s.item /\ r.res = s.res
    BY DEF TaskRecord
  <2> QED
    BY <1>1, <2>1
<1>2. ASSUME NEW m \in Msg, enqueue(m) PROVE OneStep
  <2> DEFINE s == [task[Enqueuer] EXCEPT !.at = "enqueue", !.res = run_pass_pure({{m}})]
  <2>1. /\ task[Enqueuer].at = "idle" /\ m \in Fresh /\ Enqueuer \in Task
        /\ task' = [task EXCEPT ![Enqueuer] = s]
        /\ UNCHANGED <<idx, ready, done, optimizer_queue, handled>>
    BY <1>1, <1>2 DEF enqueue
  <2>2. Items({{m}}) /\ Apart({{m}}) /\ UNION {{m}} = {m}
    BY FS_Singleton DEF Items, Item, Apart
  <2>3. /\ task[Enqueuer].item = {} /\ Returned(task[Enqueuer].res) = {}
        /\ run_pass_pure({{m}}) \in Result
    BY <1>1, <2>1, <2>2 DEF FitsTask, run_pass_pure, Result, Items
  <2>4. /\ s \in TaskRecord /\ s.at = "enqueue" /\ s.item = {}
        /\ s.res = run_pass_pure({{m}})
    <3>1. "enqueue" \in Place /\ task[Enqueuer] \in TaskRecord
      BY <1>1, <2>1 DEF Place
    <3> QED
      BY <2>3, <3>1 DEF TaskRecord
  <2> HIDE DEF s
  <2>5. FitsTask(Enqueuer, s) /\ atHand(s) = {m}
    BY <2>2, <2>4, ReceivedFits
  <2>6. atHand(task[Enqueuer]) = {}
    BY <2>3 DEF atHand
  <2>7. Receives(Enqueuer, s)
    BY <1>1, <2>1, <2>4, <2>5, <2>6 DEF Receives, Becomes
  <2> QED
    BY <2>7 DEF OneStep
<1>14. ASSUME NEW t \in Task, NEW at \in Place, task' = [task EXCEPT ![t].at = at],
             task[t].at \in {"popped", "handling"} <=> at \in {"popped", "handling"},
             at # "idle",
             messagesOf(done') \subseteq messagesOf(done) \cup task[t].item,
             UNCHANGED <<idx, ready, optimizer_queue, handled>>
      PROVE  OneStep
  <2> DEFINE s == [task[t] EXCEPT !.at = at]
  <2>1. s \in TaskRecord /\ s.at = at /\ s.item = task[t].item /\ s.res = task[t].res
    BY <1>13
  <2>2. task' = [task EXCEPT ![t] = s]
    BY <1>14
  <2> HIDE DEF s
  <2>3. FitsTask(t, s)
    BY <1>1, <1>14, <2>1 DEF FitsTask
  <2>4. GoesOn(t, s)
    BY <1>14, <2>1, <2>2, <2>3 DEF GoesOn, Becomes
  <2> QED
    BY <2>4 DEF OneStep
<1>3. ASSUME NEW t \in User, lockOptimizerQueue(t) PROVE OneStep
  <2>1. /\ task[t].at = "enqueue" /\ task' = [task EXCEPT ![t].at = "lockedOptimizerQueue"]
        /\ UNCHANGED <<idx, ready, done, optimizer_queue, handled>>
        /\ t \in Task /\ "lockedOptimizerQueue" \in Place
    BY <1>1, <1>3 DEF lockOptimizerQueue, Place
  <2> QED
    BY <1>14, <2>1
<1>4. ASSUME NEW t \in User, finishEnqueue(t) PROVE OneStep
  <2>1. /\ requeue(optimizer_queue, task[t].res) /\ task' = [task EXCEPT ![t] = idle]
        /\ UNCHANGED <<done, handled>> /\ t \in Task /\ task[t].item = {}
    BY <1>1, <1>4 DEF finishEnqueue, FitsTask
  <2>2. Items(task[t].res.optimize_further) /\ Items(task[t].res.ready)
    BY <1>1, <2>1 DEF FitsTask, Returns
  <2>3. PutsBack(t)
    BY <2>1, <2>2, Requeued, IdleFits DEF QueueTypes, PutsBack, Requeues, Becomes
  <2> QED
    BY <2>3 DEF OneStep
<1>5. ASSUME NEW w \in Worker, pop(w) PROVE OneStep
  <2> DEFINE id == first(DOMAIN ready)
             s == [task[w] EXCEPT !.at = "popped", !.id = id, !.item = ready[id]]
  <2>1. /\ task[w].at = "idle" /\ ready # emptyTable /\ w \in Task
        /\ ready' = without(ready, {id}) /\ task' = [task EXCEPT ![w] = s]
        /\ UNCHANGED <<idx, done, optimizer_queue, handled>>
    BY <1>1, <1>5 DEF pop
  <2>2. DOMAIN ready # {} /\ DOMAIN ready \subseteq Nat
    <3>1. ready = [k \in DOMAIN ready |-> ready[k]] /\ DOMAIN ready \subseteq 1..idx
      BY DEF QueueTypes, IsTable
    <3>2. ready = emptyTable \/ DOMAIN ready # {}
      BY <3>1 DEF emptyTable
    <3>3. 1..idx \subseteq Nat
      BY DEF QueueTypes
    <3> QED
      BY <2>1, <3>1, <3>2, <3>3
  <2>3. id \in DOMAIN ready
    BY <2>2, FirstIsOne
  <2>4. id \in Nat /\ ready[id] \in Item /\ ready[id] \in SUBSET Msg
    BY <2>2, <2>3 DEF QueueTypes, IsTable, Item
  <2>5. /\ s \in TaskRecord /\ s.at = "popped" /\ s.item = ready[id] /\ s.res = task[w].res
    <3>1. "popped" \in Place /\ task[w] \in TaskRecord
      BY <1>1, <2>1 DEF Place
    <3> HIDE DEF id
    <3> QED
      BY <2>4, <3>1 DEF TaskRecord
  <2> HIDE DEF s, id
  <2>6. /\ Returned(task[w].res) = {} /\ task[w].item = {}
        /\ Returns(task[w].res, Returned(task[w].res))
    BY <1>1, <2>1 DEF FitsTask
  <2>7. FitsTask(w, s) /\ atHand(s) = ready[id] /\ atHand(task[w]) = {}
    BY <2>4, <2>5, <2>6 DEF FitsTask, atHand
  <2>8. IsTable(ready', idx) /\ Shrinks(ready, {id}, ready')
    BY <2>1, Removed DEF QueueTypes
  <2>9. Takes(w, s)
    BY <2>1, <2>3, <2>5, <2>7, <2>8 DEF Takes, Becomes
  <2> QED
    BY <2>9 DEF OneStep
<1>6. ASSUME NEW w \in Worker, markDone(w) PROVE OneStep
  <2>1. /\ task[w].at = "popped" /\ task' = [task EXCEPT ![w].at = "handling"]
        /\ done' = insert(done, task[w].id - 1, <<task[w].item>>)
        /\ UNCHANGED <<idx, ready, optimizer_queue, handled>>
        /\ w \in Task /\ "handling" \in Place
    BY <1>1, <1>6 DEF markDone, Place
  <2>2. messagesOf(done') \subseteq messagesOf(done) \cup task[w].item
    <3> DEFINE item == task[w].item
               last == task[w].id - 1
    <3>1. /\ DOMAIN <<item>> = {1} /\ <<item>>[1] = item
          /\ last \in Int /\ (last + 1) - last = 1
      BY <1>1, <2>1 DEF TaskRecord
    <3> HIDE DEF item, last
    <3>2. /\ DOMAIN done' = DOMAIN done \cup {last + 1}
          /\ \A k \in DOMAIN done' :
               done'[k] = IF k \in DOMAIN done THEN done[k] ELSE <<item>>[k - last]
      BY <2>1, <3>1 DEF insert, item, last
    <3>3. \A k \in DOMAIN done' : (k \in DOMAIN done /\ done'[k] = done[k]) \/ done'[k] = item
      BY <3>1, <3>2
    <3> QED
      BY <3>3 DEF messagesOf, item
  <2> QED
    BY <1>14, <2>1, <2>2
<1>7. ASSUME NEW w \in Worker, NEW new \in SUBSET Msg, handle(w, new) PROVE OneStep
  <2> DEFINE s == [at |-> "enqueue", id |-> 0, item |-> {},
                   res |-> run_pass_pure(separately(new))]
  <2>1. /\ task[w].at = "handling" /\ new \subseteq Fresh /\ IsFiniteSet(new)
        /\ handled' = handled \cup task[w].item /\ task' = [task EXCEPT ![w] = s]
        /\ UNCHANGED <<idx, ready, done, optimizer_queue>>
    BY <1>7 DEF handle
  <2>2. /\ Items(separately(new)) /\ Apart(separately(new))
        /\ UNION separately(new) = new
    BY <2>1, Separate
  <2>3. /\ s.at = "enqueue" /\ s.item = {} /\ s.id = 0
        /\ s.res = run_pass_pure(separately(new))
    OBVIOUS
  <2>4. s.res \in Result /\ FitsTask(w, s) /\ atHand(s) = new
    <3> HIDE DEF s
    <3> QED
      BY <2>2, <2>3, ReceivedFits
  <2>5. s \in TaskRecord
    BY <2>4 DEF TaskRecord, Place
  <2> HIDE DEF s
  <2>6. atHand(task[w]) = task[w].item
    BY <1>1, <2>1 DEF FitsTask, atHand
  <2>7. Receives(w, s)
    BY <1>1, <2>1, <2>4, <2>5, <2>6 DEF Receives, Becomes
  <2> QED
    BY <2>7 DEF OneStep
<1>8. ASSUME NEW w \in Worker, fail(w) PROVE OneStep
  BY <1>8 DEF fail, OneStep
<1>9. CASE runPass
  <2> DEFINE items == {optimizer_queue[id] : id \in DOMAIN optimizer_queue}
  <2>1. PICK res \in run_pass(items) :
          task' = [task EXCEPT ![Optimizer].at = "optimized", ![Optimizer].res = res]
    BY <1>9 DEF runPass
  <2> DEFINE s == [task[Optimizer] EXCEPT !.at = "optimized", !.res = res]
  <2>2. /\ task[Optimizer].at = "idle" /\ task' = [task EXCEPT ![Optimizer] = s]
        /\ UNCHANGED <<idx, ready, done, optimizer_queue, handled>>
    BY <1>1, <1>9, <2>1 DEF runPass
  <2>3. Items(items) /\ UNION items = messagesOf(optimizer_queue) /\ Apart(items)
    BY ItemsOfTable DEF QueueTypes, WaitsOnce
  <2> HIDE DEF items
  <2>4. Returns(res, items) /\ Returns(res, Returned(res))
    <3>1. Returns(res, items)
      BY <2>1, <2>3, PassReturns
    <3> QED
      BY <3>1 DEF Returns, Returned
  <2>5. res \in Result
    <3>1. res = [optimize_further |-> res.optimize_further, ready |-> res.ready]
      BY <2>1 DEF run_pass
    <3>2. res.optimize_further \in SUBSET Item /\ res.ready \in SUBSET Item
      BY <2>4 DEF Returns, Items
    <3> QED
      BY <3>1, <3>2 DEF Result
  <2>6. s \in TaskRecord /\ s.at = "optimized" /\ s.item = task[Optimizer].item /\ s.res = res
    <3>1. "optimized" \in Place /\ task[Optimizer] \in TaskRecord
      BY <1>1 DEF Place
    <3> QED
      BY <2>5, <3>1 DEF TaskRecord
  <2> HIDE DEF s
  <2>7. FitsTask(Optimizer, s)
    BY <1>1, <2>2, <2>4, <2>6 DEF FitsTask
  <2>8. Copies(s)
    BY <1>1, <2>2, <2>3, <2>4, <2>6, <2>7 DEF Copies, Becomes, Returns, Returned
  <2> QED
    BY <2>8 DEF OneStep
<1>10. CASE lockReady
  <2>1. /\ task[Optimizer].at = "optimized"
        /\ task' = [task EXCEPT ![Optimizer].at = "lockedReady"]
        /\ UNCHANGED <<idx, ready, done, optimizer_queue, handled>> /\ "lockedReady" \in Place
    BY <1>10 DEF lockReady, Place
  <2> QED
    BY <1>1, <1>14, <2>1
<1>11. CASE finishOptimize
  <2>1. /\ requeue(emptyTable, task[Optimizer].res)
        /\ task' = [task EXCEPT ![Optimizer] = idle]
        /\ task[Optimizer].at = "lockedReady" /\ UNCHANGED handled
    BY <1>11 DEF finishOptimize
  <2>2. messagesOf(done') \subseteq messagesOf(done) \cup messagesOf(optimizer_queue)
    <3>1. /\ DOMAIN done' = DOMAIN done \cup DOMAIN optimizer_queue
          /\ \A id \in DOMAIN done' :
               done'[id] = IF id \in DOMAIN optimizer_queue THEN optimizer_queue[id]
                           ELSE done[id]
      BY <1>11 DEF finishOptimize
    <3> QED
      BY <3>1 DEF messagesOf
  <2>3. Items(task[Optimizer].res.optimize_further) /\ Items(task[Optimizer].res.ready)
    BY <1>1 DEF FitsTask, Returns
  <2>4. IsTable(emptyTable, idx)
    BY EmptyTable DEF QueueTypes
  <2>5. FinishesOptimize
    BY <1>1, <2>1, <2>2, <2>3, <2>4, Requeued, IdleFits
       DEF QueueTypes, FinishesOptimize, Requeues, Becomes
  <2> QED
    BY <2>5 DEF OneStep
<1>12. CASE UNCHANGED vars
  BY <1>12 DEF vars, OneStep
<1> QED
  BY <1>1, <1>2, <1>3, <1>4, <1>5, <1>6, <1>7, <1>8, <1>9, <1>10, <1>11, <1>12
     DEF Next, processStep, enqueueStep, optimizeStep

-----------------------------------------------------------------------------
(* The invariant is inductive *)

(* What a task has at hand stays types.                                    *)
LEMMA TypesStep == ASSUME QueueTypes, OneStep PROVE QueueTypes'
<1>1. ASSUME NEW t, NEW s, Becomes(t, s)
      PROVE  task' \in [Task -> TaskRecord] /\ \A other \in Task : FitsTask(other, task'[other])
  BY <1>1 DEF Becomes, QueueTypes
<1>2. CASE UNCHANGED <<idx, ready, done, optimizer_queue, task, handled>>
  BY <1>2 DEF QueueTypes
<1>3. ASSUME NEW t, NEW s, GoesOn(t, s) \/ Takes(t, s) \/ Receives(t, s) \/ Copies(s)
      PROVE  QueueTypes'
  <2>1. \E u : Becomes(u, s)
    BY <1>3 DEF GoesOn, Takes, Receives, Copies
  <2>2. idx' = idx /\ IsTable(ready', idx) /\ optimizer_queue' = optimizer_queue
    BY <1>3 DEF GoesOn, Takes, Receives, Copies, QueueTypes
  <2> QED
    BY <1>1, <2>1, <2>2 DEF QueueTypes
<1>4. ASSUME NEW t, NEW table, Requeues(t, table) PROVE QueueTypes'
  <2> DEFINE n == Cardinality(task[t].res.optimize_further)
             k == Cardinality(task[t].res.ready)
  <2>1. /\ n \in Nat /\ IsTable(optimizer_queue', idx + n)
        /\ k \in Nat /\ IsTable(ready', idx + n + k)
        /\ idx' = idx + n + k /\ Becomes(t, idle)
    BY <1>4 DEF Requeues, Grows
  <2> HIDE DEF n, k
  <2>2. idx + n \in Nat /\ idx + n + k \in Nat /\ idx + n <= idx + n + k
    BY <2>1 DEF QueueTypes
  <2>3. IsTable(optimizer_queue', idx + n + k)
    BY <2>1, <2>2, TableGrows
  <2> QED
    BY <1>1, <2>1, <2>2, <2>3 DEF QueueTypes
<1> QED
  BY <1>2, <1>3, <1>4 DEF OneStep, PutsBack, FinishesOptimize

(* Where a message can wait: in the tables and in hands.                   *)
LEMMA HeldIs ==
  ASSUME TaskAssumption, NEW tasks, \A t \in Task : FitsTask(t, tasks[t])
  PROVE  (UNION {tasks[w].item : w \in Worker})
           \cup (UNION {UNION (tasks[t].res.optimize_further \cup tasks[t].res.ready) : t \in User})
         = UNION {atHand(tasks[t]) : t \in User}
<1>1. Worker \subseteq User /\ User \subseteq Task
  BY DEF TaskAssumption, User, Task
<1>2. \A t \in User : t \notin Worker => tasks[t].item = {}
  BY <1>1 DEF FitsTask
<1> QED
  BY <1>1, <1>2 DEF atHand, Returned

(* The results of a pass share no message.                                 *)
LEMMA ResultsApart ==
  ASSUME NEW res, Returns(res, Returned(res))
  PROVE  /\ Apart(res.optimize_further) /\ Apart(res.ready)
         /\ (UNION res.optimize_further) \cap (UNION res.ready) = {}
         /\ UNION Returned(res) = (UNION res.optimize_further) \cup (UNION res.ready)
<1>1. Apart(Returned(res)) /\ res.optimize_further \cap res.ready = {}
  BY DEF Returns
<1> QED
  BY <1>1 DEF Apart, Returned

(* Each kind of step leaves every message in one place.                    *)
LEMMA WaitsStep ==
  ASSUME QueueTypes, TaskAssumption, WaitsOnce, CopyIsQueued, OneStep
  PROVE  WaitsOnce' /\ CopyIsQueued'
<1>1. Optimizer \in Task /\ Optimizer \notin User /\ User \subseteq Task /\ Worker \subseteq User
  BY DEF User, Task, TaskAssumption
<1>2. ASSUME NEW t, NEW s, Becomes(t, s)
      PROVE  task'[t] = s /\ \A other \in Task : other # t => task'[other] = task[other]
  BY <1>2 DEF Becomes, QueueTypes
<1>3. CASE UNCHANGED <<idx, ready, done, optimizer_queue, task, handled>>
  BY <1>3 DEF WaitsOnce, CopyIsQueued
<1>4. ASSUME NEW t, NEW s, GoesOn(t, s) PROVE WaitsOnce' /\ CopyIsQueued'
  <2>1. /\ Becomes(t, s) /\ s.item = task[t].item /\ s.res = task[t].res
        /\ UNCHANGED <<ready, optimizer_queue, handled>>
    BY <1>4 DEF GoesOn
  <2>2. \A other \in Task : /\ atHand(task'[other]) = atHand(task[other])
                            /\ task'[other].res = task[other].res
    BY <1>2, <2>1 DEF atHand
  <2> QED
    BY <1>1, <2>1, <2>2 DEF WaitsOnce, CopyIsQueued
<1>5. ASSUME NEW t, NEW s, Takes(t, s) PROVE WaitsOnce' /\ CopyIsQueued'
  <2>1. /\ Becomes(t, s) /\ t \in User /\ atHand(task[t]) = {}
        /\ UNCHANGED <<optimizer_queue, handled>>
    BY <1>1, <1>5 DEF Takes
  <2>2. PICK id \in DOMAIN ready : Shrinks(ready, {id}, ready') /\ atHand(s) = ready[id]
    BY <1>5 DEF Takes
  <2>3. /\ RowsApart(ready') /\ messagesOf(ready') \cap atHand(s) = {}
        /\ messagesOf(ready') \subseteq messagesOf(ready)
    BY <2>2 DEF Shrinks, WaitsOnce
  <2>4. atHand(s) \subseteq messagesOf(ready)
    BY <2>2 DEF messagesOf
  <2>5. /\ task'[t] = s /\ task'[Optimizer] = task[Optimizer]
        /\ \A other \in User : other # t => task'[other] = task[other]
    BY <1>1, <1>2, <2>1
  <2> QED
    BY <2>1, <2>3, <2>4, <2>5 DEF WaitsOnce, CopyIsQueued
<1>6. ASSUME NEW t, NEW s, Receives(t, s) PROVE WaitsOnce' /\ CopyIsQueued'
  <2>1. /\ Becomes(t, s) /\ t \in User /\ atHand(s) \subseteq Fresh
        /\ handled' = handled \cup atHand(task[t])
        /\ UNCHANGED <<ready, optimizer_queue>>
    BY <1>6 DEF Receives
  <2>2. /\ task'[t] = s /\ task'[Optimizer] = task[Optimizer]
        /\ \A other \in User : other # t => task'[other] = task[other]
    BY <1>1, <1>2, <2>1
  <2>3. Held = messagesOf(ready) \cup messagesOf(optimizer_queue)
                 \cup UNION {atHand(task[other]) : other \in User}
    <3>1. \A u \in Task : FitsTask(u, task[u])
      BY DEF QueueTypes
    <3>2. (UNION {task[w].item : w \in Worker})
            \cup (UNION {UNION (task[u].res.optimize_further \cup task[u].res.ready) : u \in User})
          = UNION {atHand(task[u]) : u \in User}
      BY <3>1, HeldIs, TaskAssumption
    <3>3. Held = messagesOf(ready) \cup messagesOf(optimizer_queue)
                   \cup ((UNION {task[w].item : w \in Worker})
                         \cup (UNION {UNION (task[u].res.optimize_further
                                              \cup task[u].res.ready) : u \in User}))
      BY DEF Held, resultOf, User
    <3> QED
      BY <3>2, <3>3
  <2>4. Fresh \cap (Held \cup handled) = {}
    BY DEF Fresh
  <2>5. /\ atHand(s) \cap messagesOf(ready) = {} /\ atHand(s) \cap messagesOf(optimizer_queue) = {}
        /\ atHand(s) \cap handled' = {}
        /\ \A other \in User : atHand(s) \cap atHand(task[other]) = {}
    BY <2>1, <2>3, <2>4
  <2> QED
    BY <2>1, <2>2, <2>5 DEF WaitsOnce, CopyIsQueued
<1>7. ASSUME NEW t, PutsBack(t) PROVE WaitsOnce' /\ CopyIsQueued'
  <2> DEFINE further == UNION task[t].res.optimize_further
             now == UNION task[t].res.ready
  <2>1. t \in User /\ Becomes(t, idle) /\ UNCHANGED handled
    BY <1>7 DEF PutsBack, Requeues
  <2>2. /\ Apart(task[t].res.optimize_further) /\ Apart(task[t].res.ready)
        /\ further \cap now = {} /\ further \cup now \subseteq atHand(task[t])
    BY <1>1, <2>1, ResultsApart DEF QueueTypes, FitsTask, atHand
  <2>3. /\ atHand(task[t]) \cap messagesOf(ready) = {}
        /\ atHand(task[t]) \cap messagesOf(optimizer_queue) = {}
        /\ atHand(task[t]) \cap handled = {}
    BY <2>1 DEF WaitsOnce
  <2>4. /\ messagesOf(optimizer_queue') = messagesOf(optimizer_queue) \cup further
        /\ messagesOf(ready') = messagesOf(ready) \cup now
        /\ RowsApart(optimizer_queue') /\ RowsApart(ready')
    BY <1>7, <2>2, <2>3 DEF PutsBack, Requeues, Grows, WaitsOnce
  <2>5. /\ task'[t] = idle /\ task'[Optimizer] = task[Optimizer] /\ atHand(idle) = {}
        /\ \A other \in User : other # t => task'[other] = task[other]
    BY <1>1, <1>2, <2>1, IdleFits
  <2> HIDE DEF further, now
  <2> QED
    BY <2>1, <2>2, <2>3, <2>4, <2>5 DEF WaitsOnce, CopyIsQueued
<1>8. CASE FinishesOptimize
  <2> DEFINE further == UNION task[Optimizer].res.optimize_further
             now == UNION task[Optimizer].res.ready
  <2>1. Becomes(Optimizer, idle) /\ UNCHANGED handled
    BY <1>8 DEF FinishesOptimize, Requeues
  <2>2. /\ Apart(task[Optimizer].res.optimize_further) /\ Apart(task[Optimizer].res.ready)
        /\ further \cap now = {} /\ further \cup now \subseteq messagesOf(optimizer_queue)
    BY <1>1, <2>1, ResultsApart DEF QueueTypes, FitsTask, CopyIsQueued
  <2>3. messagesOf(emptyTable) = {} /\ RowsApart(emptyTable)
    BY EmptyTable DEF QueueTypes
  <2>4. /\ messagesOf(optimizer_queue') = further
        /\ messagesOf(ready') = messagesOf(ready) \cup now
        /\ RowsApart(optimizer_queue') /\ RowsApart(ready')
    BY <1>8, <2>2, <2>3 DEF FinishesOptimize, Requeues, Grows, WaitsOnce
  <2>5. /\ UNION Returned(task'[Optimizer].res) = {}
        /\ \A other \in User : task'[other] = task[other]
    BY <1>1, <1>2, <2>1, IdleFits
  <2> HIDE DEF further, now
  <2> QED
    BY <2>1, <2>2, <2>4, <2>5 DEF WaitsOnce, CopyIsQueued
<1>9. ASSUME NEW s, Copies(s) PROVE WaitsOnce' /\ CopyIsQueued'
  <2>1. /\ Becomes(Optimizer, s) /\ UNION Returned(s.res) = messagesOf(optimizer_queue)
        /\ UNCHANGED <<ready, optimizer_queue, handled>>
    BY <1>9 DEF Copies
  <2>2. task'[Optimizer] = s /\ \A other \in User : task'[other] = task[other]
    BY <1>1, <1>2, <2>1
  <2> QED
    BY <2>1, <2>2 DEF WaitsOnce, CopyIsQueued
<1> QED
  BY <1>3, <1>4, <1>5, <1>6, <1>7, <1>8, <1>9 DEF OneStep

(* The queues are empty when Voyager starts.                               *)
LEMMA InitIInv == ASSUME Init PROVE IInv
<1>1. IsTable(emptyTable, 0) /\ messagesOf(emptyTable) = {} /\ RowsApart(emptyTable)
  BY EmptyTable
<1>2. \A t \in Task : task[t] = idle
  BY DEF Init
<1>3. QueueTypes
  BY <1>1, <1>2, IdleFits DEF Init, QueueTypes
<1>4. \A t \in Task : atHand(task[t]) = {} /\ Returned(task[t].res) = {}
  BY <1>2, IdleFits
<1>5. \A t \in User : t \in Task
  BY DEF User
<1>6. WaitsOnce
  BY <1>1, <1>4, <1>5 DEF WaitsOnce, Init
<1>7. CopyIsQueued
  BY <1>4 DEF CopyIsQueued, Task
<1> QED
  BY <1>3, <1>6, <1>7 DEF IInv

(* Every message waits in one place until it is handled.                   *)
THEOREM InvariantHolds == Spec => []IInv
<1>1. Init => IInv
  BY InitIInv
<1>2. IInv /\ [Next]_vars => IInv'
  BY StepIs, TypesStep, WaitsStep, TaskAssumption DEF IInv
<1> QED
  BY <1>1, <1>2, PTL DEF Spec

-----------------------------------------------------------------------------
(* What follows *)

(* Waiting once is being counted once.                                     *)
LEMMA OncePlaced ==
  ASSUME QueueTypes, WaitsOnce, TaskAssumption PROVE HandledOnce
<1>1. Worker \subseteq User /\ Task \ {Optimizer} = User /\ User \subseteq Task
  BY DEF TaskAssumption, User, Task
<1>2. \A t \in User : /\ task[t].item \subseteq atHand(task[t])
                      /\ resultOf(t) \subseteq atHand(task[t])
                      /\ task[t].item \cap resultOf(t) = {}
  BY <1>1 DEF QueueTypes, FitsTask, atHand, resultOf, Returned
<1> SUFFICES ASSUME NEW m \in Msg
             PROVE  Cardinality(Places(m)) <= (IF m \in handled THEN 0 ELSE 1)
  BY DEF HandledOnce
<1> DEFINE inReady == {<<"ready", id>> : id \in {id \in DOMAIN ready : m \in ready[id]}}
           inOptimizer == {<<"optimizer_queue", id>> :
                             id \in {id \in DOMAIN optimizer_queue : m \in optimizer_queue[id]}}
           inItem == {<<"item", w>> : w \in {w \in Worker : m \in task[w].item}}
           inResult == {<<"result", t>> : t \in {t \in Task \ {Optimizer} : m \in resultOf(t)}}
<1>3. Places(m) = inReady \cup inOptimizer \cup inItem \cup inResult
  BY DEF Places
<1>4. /\ m \notin messagesOf(ready) => inReady = {}
      /\ m \notin messagesOf(optimizer_queue) => inOptimizer = {}
  BY DEF messagesOf
<1>5. (\A t \in User : m \notin atHand(task[t])) => inItem = {} /\ inResult = {}
  BY <1>1, <1>2
<1>6. Cardinality({}) = 0 /\ \A x : Cardinality({x}) = 1
  BY FS_EmptySet, FS_Singleton
<1>7. ASSUME NEW x, Places(m) \subseteq {x}, m \in handled => Places(m) = {}
      PROVE  Cardinality(Places(m)) <= (IF m \in handled THEN 0 ELSE 1)
  <2>1. Places(m) = {} \/ Places(m) = {x}
    BY <1>7
  <2> QED
    BY <1>6, <1>7, <2>1
<1>8. CASE m \in messagesOf(ready)
  <2>1. PICK id \in DOMAIN ready : m \in ready[id]
    BY <1>8 DEF messagesOf
  <2>2. \A other \in DOMAIN ready : m \in ready[other] => other = id
    BY <2>1 DEF WaitsOnce, RowsApart
  <2>3. inReady \subseteq {<<"ready", id>>}
    BY <2>2
  <2>4. m \notin handled /\ m \notin messagesOf(optimizer_queue)
        /\ \A t \in User : m \notin atHand(task[t])
    BY <1>8 DEF WaitsOnce
  <2> HIDE DEF inReady, inOptimizer, inItem, inResult
  <2> QED
    BY <1>3, <1>4, <1>5, <1>7, <2>3, <2>4
<1>9. CASE m \in messagesOf(optimizer_queue)
  <2>1. PICK id \in DOMAIN optimizer_queue : m \in optimizer_queue[id]
    BY <1>9 DEF messagesOf
  <2>2. \A other \in DOMAIN optimizer_queue : m \in optimizer_queue[other] => other = id
    BY <2>1 DEF WaitsOnce, RowsApart
  <2>3. inOptimizer \subseteq {<<"optimizer_queue", id>>}
    BY <2>2
  <2>4. m \notin handled /\ m \notin messagesOf(ready)
        /\ \A t \in User : m \notin atHand(task[t])
    BY <1>9 DEF WaitsOnce
  <2> HIDE DEF inReady, inOptimizer, inItem, inResult
  <2> QED
    BY <1>3, <1>4, <1>5, <1>7, <2>3, <2>4
<1>10. ASSUME NEW t \in User, m \in atHand(task[t])
       PROVE  Cardinality(Places(m)) <= (IF m \in handled THEN 0 ELSE 1)
  <2>1. /\ m \notin handled /\ m \notin messagesOf(ready) /\ m \notin messagesOf(optimizer_queue)
        /\ \A other \in User : other # t => m \notin atHand(task[other])
    BY <1>10 DEF WaitsOnce
  <2>2. inReady = {} /\ inOptimizer = {}
    BY <1>4, <2>1
  <2>3. inItem \subseteq {<<"item", t>>} /\ inResult \subseteq {<<"result", t>>}
    BY <1>1, <1>2, <2>1
  <2>4. inItem = {} \/ inResult = {}
    <3>1. m \notin task[t].item \/ m \notin resultOf(t)
      BY <1>2
    <3> QED
      BY <1>1, <1>2, <2>1, <3>1
  <2> HIDE DEF inReady, inOptimizer, inItem, inResult
  <2> QED
    BY <1>3, <1>7, <2>1, <2>2, <2>3, <2>4
<1>11. CASE /\ m \notin messagesOf(ready) /\ m \notin messagesOf(optimizer_queue)
            /\ \A t \in User : m \notin atHand(task[t])
  <2> HIDE DEF inReady, inOptimizer, inItem, inResult
  <2> QED
    BY <1>3, <1>4, <1>5, <1>7, <1>11
<1> QED
  BY <1>8, <1>9, <1>10, <1>11

(* No message is handled twice, or waits in two places, however many       *)
(* workers there are and whenever the optimizer runs (pop, optimize).      *)
THEOREM MessagesHandledOnce == Spec => []HandledOnce
<1>1. IInv => HandledOnce
  BY OncePlaced, TaskAssumption DEF IInv
<1> QED
  BY <1>1, InvariantHolds, PTL

(* A step loses no message but those that came while the optimizer was at  *)
(* work on its copy of the queue.                                          *)
LEMMA LossIsUnseen ==
  ASSUME IInv, TaskAssumption, OneStep, QueueTypes' PROVE Lost' \subseteq Lost \cup Unseen
<1> DEFINE held(r, q, tasks) == messagesOf(r) \cup messagesOf(q)
                                  \cup UNION {atHand(tasks[t]) : t \in User}
<1>1. Held = held(ready, optimizer_queue, task) /\ Held' = held(ready', optimizer_queue', task')
  <2>1. ASSUME NEW r, NEW q, NEW tasks, \A t \in Task : FitsTask(t, tasks[t])
        PROVE  held(r, q, tasks)
               = messagesOf(r) \cup messagesOf(q) \cup (UNION {tasks[w].item : w \in Worker})
                   \cup (UNION {UNION (tasks[t].res.optimize_further \cup tasks[t].res.ready)
                                  : t \in User})
    <3>1. (UNION {tasks[w].item : w \in Worker})
            \cup (UNION {UNION (tasks[t].res.optimize_further \cup tasks[t].res.ready)
                           : t \in User})
          = UNION {atHand(tasks[t]) : t \in User}
      BY <2>1, HeldIs, TaskAssumption
    <3> QED
      BY <3>1
  <2>2. (\A t \in Task : FitsTask(t, task[t])) /\ (\A t \in Task : FitsTask(t, task'[t]))
    BY DEF IInv, QueueTypes
  <2> HIDE DEF held
  <2>3. Held = held(ready, optimizer_queue, task)
    BY <2>1, <2>2 DEF Held, resultOf, User
  <2>4. Held' = held(ready', optimizer_queue', task')
    BY <2>1, <2>2 DEF Held, resultOf, User
  <2> QED
    BY <2>3, <2>4
<1>2. Optimizer \in Task /\ Optimizer \notin User /\ User \subseteq Task /\ Worker \subseteq User
  BY DEF User, Task, TaskAssumption
<1>3. ASSUME NEW t, NEW s, Becomes(t, s)
      PROVE  task'[t] = s /\ \A other \in Task : other # t => task'[other] = task[other]
  BY <1>3 DEF Becomes, IInv, QueueTypes
<1> DEFINE kept == /\ Held \subseteq Held' \cup handled' \cup Unseen
                   /\ handled \subseteq handled'
                   /\ messagesOf(done') \subseteq messagesOf(done) \cup Held \cup Held'
<1>4. ASSUME UNCHANGED <<idx, ready, done, optimizer_queue, task, handled>> PROVE kept
  BY <1>1, <1>4
<1>5. ASSUME NEW t, NEW s, GoesOn(t, s) PROVE kept
  <2>1. /\ Becomes(t, s) /\ s.item = task[t].item /\ s.res = task[t].res
        /\ UNCHANGED <<ready, optimizer_queue, handled>>
        /\ messagesOf(done') \subseteq messagesOf(done) \cup s.item
    BY <1>5 DEF GoesOn
  <2>2. \A other \in Task : atHand(task'[other]) = atHand(task[other])
    BY <1>3, <2>1 DEF atHand
  <2>3. s.item = {} \/ (t \in User /\ s.item \subseteq atHand(task[t]))
    BY <1>2, <2>1 DEF Becomes, FitsTask, atHand
  <2> QED
    BY <1>1, <1>2, <2>1, <2>2, <2>3
<1>6. ASSUME NEW t, NEW s, Takes(t, s) PROVE kept
  <2>1. /\ Becomes(t, s) /\ t \in User /\ atHand(task[t]) = {}
        /\ UNCHANGED <<optimizer_queue, handled, done>>
    BY <1>2, <1>6 DEF Takes
  <2>2. PICK id \in DOMAIN ready : Shrinks(ready, {id}, ready') /\ atHand(s) = ready[id]
    BY <1>6 DEF Takes
  <2>3. messagesOf(ready) \subseteq messagesOf(ready') \cup atHand(s)
    BY <2>2 DEF Shrinks
  <2>4. \A other \in User : other # t => task'[other] = task[other]
    BY <1>2, <1>3, <2>1
  <2>5. task'[t] = s
    BY <1>3, <2>1
  <2> QED
    BY <1>1, <2>1, <2>3, <2>4, <2>5
<1>7. ASSUME NEW t, NEW s, Receives(t, s) PROVE kept
  <2>1. /\ Becomes(t, s) /\ t \in User
        /\ handled' = handled \cup atHand(task[t])
        /\ UNCHANGED <<ready, optimizer_queue, done>>
    BY <1>7 DEF Receives
  <2>2. \A other \in User : other # t => task'[other] = task[other]
    BY <1>2, <1>3, <2>1
  <2> QED
    BY <1>1, <2>1, <2>2
<1>8. ASSUME NEW t, PutsBack(t) PROVE kept
  <2>1. t \in User /\ Becomes(t, idle) /\ UNCHANGED <<handled, done>>
    BY <1>8 DEF PutsBack, Requeues
  <2>2. /\ messagesOf(optimizer_queue')
             = messagesOf(optimizer_queue) \cup UNION task[t].res.optimize_further
        /\ messagesOf(ready') = messagesOf(ready) \cup UNION task[t].res.ready
    BY <1>8 DEF PutsBack, Requeues, Grows
  <2>3. task[t].item = {}
    BY <1>8 DEF PutsBack, Requeues
  <2>4. \A other \in User : other # t => task'[other] = task[other]
    BY <1>2, <1>3, <2>1
  <2> QED
    BY <1>1, <2>1, <2>2, <2>3, <2>4 DEF atHand, Returned
<1>9. ASSUME FinishesOptimize PROVE kept
  <2>1. /\ Becomes(Optimizer, idle) /\ UNCHANGED handled
        /\ task[Optimizer].at = "lockedReady"
        /\ messagesOf(done') \subseteq messagesOf(done) \cup messagesOf(optimizer_queue)
    BY <1>9 DEF FinishesOptimize, Requeues
  <2>2. /\ messagesOf(optimizer_queue')
             = messagesOf(emptyTable) \cup UNION task[Optimizer].res.optimize_further
        /\ messagesOf(ready') = messagesOf(ready) \cup UNION task[Optimizer].res.ready
    BY <1>9 DEF FinishesOptimize, Requeues, Grows
  <2>3. resultOf(Optimizer) \subseteq messagesOf(optimizer_queue') \cup messagesOf(ready')
    BY <2>2 DEF resultOf
  <2>4. Unseen = messagesOf(optimizer_queue) \ resultOf(Optimizer)
    BY <2>1 DEF Unseen
  <2>5. \A other \in User : task'[other] = task[other]
    BY <1>2, <1>3, <2>1
  <2> QED
    BY <1>1, <2>1, <2>2, <2>3, <2>4, <2>5
<1>10. ASSUME NEW s, Copies(s) PROVE kept
  <2>1. Becomes(Optimizer, s) /\ UNCHANGED <<ready, optimizer_queue, done, handled>>
    BY <1>10 DEF Copies
  <2>2. \A other \in User : task'[other] = task[other]
    BY <1>2, <1>3, <2>1
  <2> QED
    BY <1>1, <2>1, <2>2
<1>11. kept
  BY <1>4, <1>5, <1>6, <1>7, <1>8, <1>9, <1>10 DEF OneStep
<1> QED
  BY <1>11 DEF Lost

(* What reaches done unhandled was queued behind the optimizer's back      *)
(* (optimize): every other message waits until it is handled.              *)
THEOREM LossOnlyBehindOptimizer == Spec => LostOnlyBehindOptimizer
<1>1. IInv /\ IInv' /\ [Next]_vars => [Lost' \subseteq Lost \cup Unseen]_vars
  BY LossIsUnseen, StepIs, TaskAssumption DEF IInv
<1> QED
  BY <1>1, InvariantHolds, PTL DEF Spec, LostOnlyBehindOptimizer

=============================================================================
