--------------------------- MODULE PgQueueProofs ---------------------------
(***************************************************************************)
(* Proofs about PgQueue, for any number of workers, messages and crashes:  *)
(* how often a message is handled, and that the queue implements           *)
(* MessageQueue.                                                           *)
(***************************************************************************)
EXTENDS PgQueue, QueuePassesProofs

Open(w) == tx[w].at # "none"

(* w has handled the messages of its row, and has not committed.           *)
HasHandled(w) == tx[w].at \in {"handled", "failed"}

TxState == [at : {"none", "handling", "handled", "failed"}, id : Nat, new : SUBSET Msg]

TypeOK ==
  /\ id_seq \in Nat
  /\ IsTable(queue, id_seq) /\ IsTable(optimize, id_seq)
  /\ IsTable(done, id_seq) /\ IsTable(failed, id_seq)
  /\ tx \in [Worker -> TxState]
  /\ effects \in [Msg -> Nat]
  /\ crashes \in Nat

(* A message has one row, and no row comes back under an identifier that   *)
(* is done or failed.                                                      *)
OneRow ==
  /\ RowsApart(queue) /\ RowsApart(optimize)
  /\ messagesOf(queue) \cap messagesOf(optimize) = {}
  /\ Waiting \cap Handled = {}
  /\ DOMAIN queue \cap (DOMAIN done \cup DOMAIN failed) = {}

(* An open transaction has a row of queue, and no two have the same.       *)
TxHasRow ==
  /\ \A w \in Worker : Open(w) => tx[w].id \in DOMAIN queue
  /\ \A w, v \in Worker : Open(w) /\ Open(v) /\ tx[w].id = tx[v].id => w = v

(* What handlers returned, and is not committed yet, is new.               *)
NewIsNew ==
  /\ \A w \in Worker : IsFiniteSet(tx[w].new)
  /\ \A w \in Worker : tx[w].new \cap (Waiting \cup Handled) = {}
  /\ \A w, v \in Worker : w # v => tx[w].new \cap tx[v].new = {}

rowsOf(ids) == {optimize[id] : id \in ids}

(* The rows the optimizer has are still there, and are what it returns.    *)
OptimizerHasRows ==
  /\ optimizerTx.rows \subseteq DOMAIN optimize
  /\ Returns(optimizerTx.res, rowsOf(optimizerTx.rows))

InHand(m) == \E w \in Worker : HasHandled(w) /\ m \in queue[tx[w].id]

(* A message that waits was handled at most once for every crash.          *)
EffectsCounted ==
  \A m \in Msg :
    IF m \in Handled \/ InHand(m) THEN effects[m] > 0 /\ effects[m] <= crashes + 1
                                  ELSE effects[m] <= crashes

(* The inductive invariant.                                                *)
IInv ==
  /\ TypeOK
  /\ OneRow
  /\ TxHasRow
  /\ NewIsNew
  /\ OptimizerHasRows
  /\ EffectsCounted

-----------------------------------------------------------------------------
(* Lemmas *)

(* The tables that were q and o have also the messages msgs, in new rows.  *)
Requeued(q, o, msgs) ==
  /\ id_seq' \in Nat /\ id_seq <= id_seq'
  /\ IsTable(queue', id_seq') /\ IsTable(optimize', id_seq')
  /\ KeepsRows(q, queue') /\ KeepsRows(o, optimize')
  /\ RowsApart(queue') /\ RowsApart(optimize')
  /\ messagesOf(queue') \cap messagesOf(optimize') = {}
  /\ Waiting' = messagesOf(q) \cup messagesOf(o) \cup msgs
  /\ \A id \in DOMAIN queue' : id \in DOMAIN q \/ id > id_seq

(* What a pass returned is in the tables, with what was there.             *)
LEMMA ResultInserted ==
  ASSUME NEW q, NEW o, NEW res, NEW items, id_seq \in Nat,
         IsTable(q, id_seq), IsTable(o, id_seq), RowsApart(q), RowsApart(o),
         messagesOf(q) \cap messagesOf(o) = {},
         (messagesOf(q) \cup messagesOf(o)) \cap (UNION items) = {},
         Returns(res, items), insertResult(q, o, res)
  PROVE  Requeued(q, o, UNION items)
<1> DEFINE n == Cardinality(res.ready)
           k == Cardinality(res.optimize_further)
<1>1. PICK now \in Orders(res.ready), further \in Orders(res.optimize_further) :
        /\ queue' = insert(q, id_seq, now)
        /\ optimize' = insert(o, id_seq + n, further)
        /\ id_seq' = id_seq + n + k
  BY DEF insertResult
<1>2. /\ Items(res.ready) /\ Items(res.optimize_further)
      /\ Apart(res.ready) /\ Apart(res.optimize_further)
      /\ (UNION res.ready) \cap (UNION res.optimize_further) = {}
      /\ (UNION res.ready) \cup (UNION res.optimize_further) = UNION items
  <2>1. /\ Items(res.ready) /\ Items(res.optimize_further)
        /\ Apart(res.ready) /\ Apart(res.optimize_further)
    BY DEF Returns, Returned, Apart
  <2>2. (UNION res.ready) \cap (UNION res.optimize_further) = {}
    BY DEF Returns, Returned, Apart
  <2>3. (UNION res.ready) \cup (UNION res.optimize_further) = UNION items
    BY DEF Returns
  <2> QED
    BY <2>1, <2>2, <2>3
<1>3. /\ n \in Nat /\ IsTable(queue', id_seq + n) /\ KeepsRows(q, queue')
      /\ DOMAIN queue' = DOMAIN q \cup (id_seq + 1)..(id_seq + n)
      /\ messagesOf(queue') = messagesOf(q) \cup (UNION res.ready)
      /\ RowsApart(queue')
  <2>1. messagesOf(q) \cap (UNION res.ready) = {}
    BY <1>2
  <2>2. Grows(q, id_seq, res.ready, queue')
    BY <1>1, <1>2, Inserted
  <2> QED
    BY <1>2, <2>1, <2>2 DEF Grows
<1>4. IsTable(o, id_seq + n) /\ id_seq + n \in Nat
  BY <1>3, TableGrows
<1>5. /\ k \in Nat /\ IsTable(optimize', id_seq + n + k) /\ KeepsRows(o, optimize')
      /\ messagesOf(optimize') = messagesOf(o) \cup (UNION res.optimize_further)
      /\ RowsApart(optimize')
  <2>1. messagesOf(o) \cap (UNION res.optimize_further) = {}
    BY <1>2
  <2>2. Grows(o, id_seq + n, res.optimize_further, optimize')
    BY <1>1, <1>2, <1>4, Inserted
  <2> QED
    BY <1>2, <2>1, <2>2 DEF Grows
<1>6. id_seq' \in Nat /\ id_seq <= id_seq' /\ id_seq + n <= id_seq'
  BY <1>1, <1>3, <1>5
<1>7. IsTable(queue', id_seq')
  BY <1>3, <1>6, TableGrows
<1>8. IsTable(optimize', id_seq')
  BY <1>1, <1>5
<1>9. messagesOf(queue') \cap messagesOf(optimize') = {}
  BY <1>2, <1>3, <1>5
<1>10. Waiting' = messagesOf(q) \cup messagesOf(o) \cup (UNION items)
  BY <1>2, <1>3, <1>5 DEF Waiting
<1>11. \A id \in DOMAIN queue' : id \in DOMAIN q \/ id > id_seq
  BY <1>3
<1> QED
  BY <1>3, <1>5, <1>6, <1>7, <1>8, <1>9, <1>10, <1>11 DEF Requeued

-----------------------------------------------------------------------------
(* The invariant, action by action *)

(* An empty database.                                                      *)
LEMMA InitInv == Init => IInv
<1> SUFFICES ASSUME Init
             PROVE  IInv
  OBVIOUS
<1>1. /\ DOMAIN emptyTable = {} /\ IsTable(emptyTable, 0)
      /\ RowsApart(emptyTable) /\ messagesOf(emptyTable) = {}
  BY EmptyTable
<1>2. TypeOK
  BY <1>1 DEF Init, TypeOK, noTx, TxState
<1>3. Waiting = {} /\ Handled = {}
  BY <1>1 DEF Init, Waiting, Handled
<1>4. OneRow
  BY <1>1, <1>3 DEF Init, OneRow
<1>5. \A w \in Worker : ~Open(w) /\ ~HasHandled(w) /\ tx[w].new = {}
  BY DEF Init, Open, HasHandled, noTx
<1>6. TxHasRow /\ NewIsNew
  BY <1>5, FS_EmptySet DEF TxHasRow, NewIsNew
<1>7. OptimizerHasRows
  <2>1. Items({}) /\ Apart({})
    BY FS_EmptySet DEF Items, Apart
  <2>2. Returns(run_pass_pure({}), {})
    BY <2>1, PurePassReturns
  <2>3. rowsOf({}) = {}
    BY DEF rowsOf
  <2> QED
    BY <2>2, <2>3 DEF Init, OptimizerHasRows, noOptimizerTx
<1>8. EffectsCounted
  BY <1>3, <1>5 DEF Init, EffectsCounted, InHand
<1> QED
  BY <1>2, <1>4, <1>6, <1>7, <1>8 DEF IInv

(* The tables that only grow by new rows keep what the invariant says of   *)
(* the transactions, which still have their rows.                          *)
LEMMA RowsKept ==
  ASSUME IInv, KeepsRows(queue, queue'), UNCHANGED tx
  PROVE  /\ TxHasRow'
         /\ \A m \in Msg : InHand(m)' <=> InHand(m)
<1>1. \A w \in Worker : Open(w) => tx[w].id \in DOMAIN queue'
                                   /\ queue'[tx[w].id] = queue[tx[w].id]
  BY DEF IInv, TxHasRow, KeepsRows
<1>2. TxHasRow'
  BY <1>1 DEF IInv, TxHasRow, Open
<1>3. \A w \in Worker : HasHandled(w) => Open(w)
  BY DEF HasHandled, Open
<1>4. \A m \in Msg : InHand(m)' <=> InHand(m)
  BY <1>1, <1>3 DEF InHand, HasHandled
<1> QED
  BY <1>2, <1>4

(* A message that is enqueued.                                             *)
LEMMA EnqueueInv ==
  ASSUME IInv, NEW m \in Msg, enqueue(m)
  PROVE  /\ IInv'
         /\ m \notin Waiting \cup Handled
         /\ Waiting' = Waiting \cup {m} /\ UNCHANGED Handled
<1> USE DEF IInv
<1>1. /\ m \notin Waiting /\ m \notin Handled
      /\ \A w \in Worker : m \notin tx[w].new
  BY DEF enqueue, Fresh
<1>2. Items({{m}}) /\ Apart({{m}}) /\ UNION {{m}} = {m}
  BY FS_Singleton DEF Items, Item, Apart
<1>3. Requeued(queue, optimize, {m})
  <2>1. Returns(run_pass_pure({{m}}), {{m}})
    BY <1>2, PurePassReturns
  <2>2. (messagesOf(queue) \cup messagesOf(optimize)) \cap (UNION {{m}}) = {}
    BY <1>1, <1>2 DEF Waiting
  <2>3. Requeued(queue, optimize, UNION {{m}})
    BY <2>1, <2>2, ResultInserted DEF TypeOK, OneRow, enqueue
  <2> QED
    BY <1>2, <2>3
<1>4. UNCHANGED <<done, failed, tx, optimizerTx, effects, crashes>> /\ UNCHANGED Handled
  BY DEF enqueue, Handled
<1>5. IsTable(done, id_seq') /\ IsTable(failed, id_seq')
  BY <1>3, TableGrows DEF TypeOK, Requeued
<1>6. TypeOK'
  BY <1>3, <1>4, <1>5 DEF TypeOK, Requeued
<1>7. Waiting' = Waiting \cup {m}
  BY <1>3 DEF Requeued, Waiting
<1>8. OneRow'
  <2>1. DOMAIN queue' \cap (DOMAIN done \cup DOMAIN failed) = {}
    BY <1>3 DEF Requeued, OneRow, TypeOK, IsTable
  <2> QED
    BY <1>1, <1>3, <1>4, <1>7, <2>1 DEF OneRow, Requeued
<1>9. TxHasRow' /\ \A k \in Msg : InHand(k)' <=> InHand(k)
  BY <1>3, <1>4, RowsKept DEF Requeued
<1>10. NewIsNew'
  BY <1>1, <1>4, <1>7 DEF NewIsNew
<1>11. OptimizerHasRows'
  <2>1. rowsOf(optimizerTx.rows)' = rowsOf(optimizerTx.rows)
    BY <1>3, <1>4 DEF OptimizerHasRows, rowsOf, Requeued, KeepsRows
  <2> QED
    BY <1>3, <1>4, <2>1 DEF OptimizerHasRows, Requeued, KeepsRows
<1>12. EffectsCounted'
  BY <1>4, <1>9 DEF EffectsCounted
<1> QED
  BY <1>1, <1>4, <1>6, <1>7, <1>8, <1>9, <1>10, <1>11, <1>12

(* As long as no table changes, messages stay where they are.              *)
LEMMA TablesSame ==
  ASSUME IInv, UNCHANGED <<id_seq, queue, optimize, done, failed, optimizerTx>>
  PROVE  OneRow' /\ OptimizerHasRows' /\ UNCHANGED <<Waiting, Handled>>
<1>1. UNCHANGED <<Waiting, Handled>>
  BY DEF Waiting, Handled
<1>2. OneRow'
  BY <1>1 DEF IInv, OneRow
<1>3. rowsOf(optimizerTx.rows)' = rowsOf(optimizerTx.rows)
  BY DEF rowsOf
<1>4. OptimizerHasRows'
  BY <1>3 DEF IInv, OptimizerHasRows
<1> QED
  BY <1>1, <1>2, <1>4

(* A worker takes a row that is not locked.                                *)
LEMMA BeginProcessInv ==
  ASSUME IInv, NEW w \in Worker, beginProcess(w)
  PROVE  IInv' /\ UNCHANGED <<Waiting, Handled>>
<1> USE DEF IInv
<1>1. PICK row \in DOMAIN queue \ Locked : row = first(DOMAIN queue \ Locked)
  <2>1. DOMAIN queue \ Locked \subseteq Nat
    BY DEF TypeOK, IsTable
  <2> QED
    BY <2>1, FirstIsOne DEF beginProcess
<1>2. row \in DOMAIN queue /\ \A v \in Worker : Open(v) => tx[v].id # row
  BY <1>1 DEF Locked, Open
<1>3. /\ ~Open(w)
      /\ tx' = [tx EXCEPT ![w] = [at |-> "handling", id |-> row, new |-> {}]]
      /\ UNCHANGED <<id_seq, queue, optimize, done, failed, optimizerTx, effects, crashes>>
  BY <1>1 DEF beginProcess, Open
<1>4. /\ tx'[w] = [at |-> "handling", id |-> row, new |-> {}]
      /\ \A v \in Worker \ {w} : tx'[v] = tx[v]
  BY <1>3 DEF TypeOK
<1>5. TypeOK'
  <2>1. row \in Nat
    BY <1>2 DEF TypeOK, IsTable
  <2> QED
    BY <1>3, <2>1 DEF TypeOK, TxState
<1>6. OneRow' /\ OptimizerHasRows' /\ UNCHANGED <<Waiting, Handled>>
  BY <1>3, TablesSame
<1>7. TxHasRow'
  BY <1>2, <1>3, <1>4 DEF TxHasRow, Open
<1>8. NewIsNew'
  BY <1>4, <1>6, FS_EmptySet DEF NewIsNew
<1>9. \A m \in Msg : InHand(m)' <=> InHand(m)
  BY <1>3, <1>4 DEF InHand, HasHandled, Open
<1>10. EffectsCounted'
  BY <1>3, <1>6, <1>9 DEF EffectsCounted
<1> QED
  BY <1>5, <1>6, <1>7, <1>8, <1>10

(* Its messages are handled, once more.                                    *)
LEMMA EffectsOnce ==
  ASSUME IInv, NEW w \in Worker, tx[w].at = "handling", tx'[w].at \in {"handled", "failed"},
         tx'[w].id = tx[w].id, \A v \in Worker \ {w} : tx'[v] = tx[v],
         effects' = [m \in Msg |-> IF m \in queue[tx[w].id] THEN effects[m] + 1 ELSE effects[m]],
         UNCHANGED <<queue, done, failed, crashes>>
  PROVE  effects' \in [Msg -> Nat] /\ EffectsCounted'
<1> USE DEF IInv
<1>1. effects' \in [Msg -> Nat]
  BY DEF TypeOK
<1>2. UNCHANGED Handled
  BY DEF Handled
<1>3. tx[w].id \in DOMAIN queue /\ queue[tx[w].id] \subseteq messagesOf(queue)
  BY DEF TxHasRow, Open, messagesOf
<1>4. SUFFICES ASSUME NEW m \in Msg
               PROVE  IF m \in Handled' \/ InHand(m)'
                      THEN effects'[m] > 0 /\ effects'[m] <= crashes' + 1
                      ELSE effects'[m] <= crashes'
  BY <1>1 DEF EffectsCounted
<1>5. CASE m \in queue[tx[w].id]
  <2>1. m \notin Handled
    BY <1>3, <1>5 DEF OneRow, Waiting
  <2>2. ~InHand(m)
    <3>1. SUFFICES ASSUME NEW v \in Worker, HasHandled(v), m \in queue[tx[v].id]
                   PROVE  FALSE
      BY DEF InHand
    <3>2. v # w /\ Open(v) /\ Open(w)
      BY <3>1 DEF HasHandled, Open
    <3>3. tx[v].id # tx[w].id /\ tx[v].id \in DOMAIN queue
      BY <3>2 DEF TxHasRow
    <3> QED
      BY <1>3, <1>5, <3>1, <3>3 DEF OneRow, RowsApart
  <2>3. effects[m] \in Nat /\ effects[m] <= crashes /\ crashes \in Nat
    BY <2>1, <2>2 DEF EffectsCounted, TypeOK
  <2>4. InHand(m)'
    BY <1>5 DEF InHand, HasHandled
  <2>5. effects'[m] = effects[m] + 1
    BY <1>5
  <2> QED
    BY <2>3, <2>4, <2>5
<1>6. CASE m \notin queue[tx[w].id]
  <2>1. InHand(m)' <=> InHand(m)
    BY <1>6 DEF InHand, HasHandled
  <2>2. effects'[m] = effects[m]
    BY <1>6
  <2> QED
    BY <1>2, <2>1, <2>2 DEF EffectsCounted
<1> QED
  BY <1>5, <1>6

(* A worker that has its row keeps it.                                     *)
LEMMA TxGoesOn ==
  ASSUME IInv, NEW w \in Worker, Open(w), tx'[w].id = tx[w].id,
         \A v \in Worker \ {w} : tx'[v] = tx[v], UNCHANGED queue
  PROVE  TxHasRow'
BY DEF IInv, TxHasRow, Open

(* The item is handled, and what that produced is new.                     *)
LEMMA HandleInv ==
  ASSUME IInv, NEW w \in Worker, NEW new \in SUBSET Msg, handle(w, new)
  PROVE  IInv' /\ UNCHANGED <<Waiting, Handled>>
<1> USE DEF IInv
<1>1. /\ tx[w].at = "handling" /\ IsFiniteSet(new) /\ new \subseteq Fresh
      /\ tx' = [tx EXCEPT ![w].at = "handled", ![w].new = new]
      /\ UNCHANGED <<id_seq, queue, optimize, done, failed, optimizerTx, crashes>>
  BY DEF handle
<1>2. /\ tx'[w] = [at |-> "handled", id |-> tx[w].id, new |-> new]
      /\ \A v \in Worker \ {w} : tx'[v] = tx[v]
      /\ tx' \in [Worker -> TxState]
  BY <1>1 DEF TypeOK, TxState
<1>3. effects' \in [Msg -> Nat] /\ EffectsCounted'
  BY <1>1, <1>2, EffectsOnce DEF handle
<1>4. TypeOK'
  BY <1>1, <1>2, <1>3 DEF TypeOK
<1>5. OneRow' /\ OptimizerHasRows' /\ UNCHANGED <<Waiting, Handled>>
  BY <1>1, TablesSame
<1>6. TxHasRow'
  BY <1>1, <1>2, TxGoesOn DEF Open
<1>7. NewIsNew'
  <2>1. new \cap (Waiting \cup Handled) = {} /\ \A v \in Worker : new \cap tx[v].new = {}
    BY <1>1 DEF Fresh
  <2>2. \A v \in Worker : tx'[v].new = IF v = w THEN new ELSE tx[v].new
    BY <1>2
  <2>3. \A v \in Worker : IsFiniteSet(tx'[v].new)
    BY <1>1, <2>2 DEF NewIsNew
  <2>4. \A v \in Worker : tx'[v].new \cap (Waiting \cup Handled) = {}
    BY <2>1, <2>2 DEF NewIsNew
  <2>5. \A v, u \in Worker : v # u => tx'[v].new \cap tx'[u].new = {}
    BY <2>1, <2>2 DEF NewIsNew
  <2> QED
    BY <1>5, <2>3, <2>4, <2>5 DEF NewIsNew
<1> QED
  BY <1>3, <1>4, <1>5, <1>6, <1>7

(* The item cannot be handled.                                             *)
LEMMA HandleFailsInv ==
  ASSUME IInv, NEW w \in Worker, handleFails(w)
  PROVE  IInv' /\ UNCHANGED <<Waiting, Handled>>
<1> USE DEF IInv
<1>1. /\ tx[w].at = "handling"
      /\ tx' = [tx EXCEPT ![w].at = "failed"]
      /\ UNCHANGED <<id_seq, queue, optimize, done, failed, optimizerTx, crashes>>
  BY DEF handleFails
<1>2. /\ tx'[w] = [at |-> "failed", id |-> tx[w].id, new |-> tx[w].new]
      /\ \A v \in Worker \ {w} : tx'[v] = tx[v]
      /\ tx' \in [Worker -> TxState]
  BY <1>1 DEF TypeOK, TxState
<1>3. effects' \in [Msg -> Nat] /\ EffectsCounted'
  BY <1>1, <1>2, EffectsOnce DEF handleFails
<1>4. TypeOK'
  BY <1>1, <1>2, <1>3 DEF TypeOK
<1>5. OneRow' /\ OptimizerHasRows' /\ UNCHANGED <<Waiting, Handled>>
  BY <1>1, TablesSame
<1>6. TxHasRow'
  BY <1>1, <1>2, TxGoesOn DEF Open
<1>7. \A v \in Worker : tx'[v].new = tx[v].new
  BY <1>2
<1>8. NewIsNew'
  BY <1>5, <1>7 DEF NewIsNew
<1> QED
  BY <1>3, <1>4, <1>5, <1>6, <1>8

(* The row a worker is about to commit, and the table without it.          *)
LEMMA RowLeaves ==
  ASSUME IInv, NEW w \in Worker, Open(w), NEW row, row = tx[w].id
  PROVE  /\ row \in 1..id_seq /\ row \notin DOMAIN done \cup DOMAIN failed
         /\ queue[row] \in Item /\ queue[row] \subseteq messagesOf(queue)
         /\ IsTable(without(queue, {row}), id_seq) /\ RowsApart(without(queue, {row}))
         /\ DOMAIN without(queue, {row}) = DOMAIN queue \ {row}
         /\ KeepsRows(without(queue, {row}), queue)
         /\ messagesOf(without(queue, {row})) = messagesOf(queue) \ queue[row]
<1> USE DEF IInv
<1>1. row \in DOMAIN queue
  BY DEF TxHasRow
<1>2. /\ row \in 1..id_seq /\ row \notin DOMAIN done \cup DOMAIN failed
      /\ queue[row] \in Item /\ queue[row] \subseteq messagesOf(queue)
  BY <1>1 DEF TypeOK, IsTable, OneRow, messagesOf
<1>3. IsTable(without(queue, {row}), id_seq) /\ Shrinks(queue, {row}, without(queue, {row}))
  BY Removed DEF TypeOK
<1>4. UNION {queue[id] : id \in {row} \cap DOMAIN queue} = queue[row]
  BY <1>1
<1>5. messagesOf(without(queue, {row})) = messagesOf(queue) \ queue[row]
  BY <1>3, <1>4 DEF Shrinks, OneRow
<1>6. RowsApart(without(queue, {row}))
  BY <1>3 DEF Shrinks, OneRow
<1> QED
  BY <1>2, <1>3, <1>5, <1>6 DEF Shrinks

(* A transaction commits: its row is gone, the others have theirs.         *)
LEMMA TxCommits ==
  ASSUME IInv, NEW w \in Worker, HasHandled(w), tx' = [tx EXCEPT ![w] = noTx],
         NEW msgs \in SUBSET tx[w].new,
         KeepsRows(without(queue, {tx[w].id}), queue'),
         Waiting' = (Waiting \ queue[tx[w].id]) \cup msgs,
         Handled' = Handled \cup queue[tx[w].id],
         UNCHANGED <<effects, crashes>>
  PROVE  /\ tx' \in [Worker -> TxState] /\ TxHasRow' /\ NewIsNew' /\ EffectsCounted'
         /\ Waiting' \cap Handled' = {}
<1> USE DEF IInv
<1>1. /\ tx' \in [Worker -> TxState]
      /\ tx'[w] = noTx /\ \A v \in Worker \ {w} : tx'[v] = tx[v]
      /\ Open(w) /\ ~Open(w)' /\ ~HasHandled(w)' /\ tx'[w].new = {}
  BY DEF TypeOK, TxState, noTx, Open, HasHandled
<1>2. \A v \in Worker \ {w} : Open(v) => /\ tx[v].id \in DOMAIN queue'
                                         /\ queue'[tx[v].id] = queue[tx[v].id]
  <2>1. \A v \in Worker \ {w} : Open(v) => tx[v].id \in DOMAIN queue \ {tx[w].id}
    BY <1>1 DEF TxHasRow
  <2>2. \A id \in DOMAIN queue \ {tx[w].id} : /\ id \in DOMAIN without(queue, {tx[w].id})
                                             /\ without(queue, {tx[w].id})[id] = queue[id]
    BY DEF without
  <2> QED
    BY <2>1, <2>2 DEF KeepsRows
<1>3. TxHasRow'
  BY <1>1, <1>2 DEF TxHasRow, Open
<1>4. queue[tx[w].id] \subseteq Waiting
  BY <1>1 DEF TxHasRow, Waiting, messagesOf
<1>5. NewIsNew'
  <2>1. \A v \in Worker : tx'[v].new = IF v = w THEN {} ELSE tx[v].new
    BY <1>1
  <2>2. \A v \in Worker : IsFiniteSet(tx'[v].new)
    BY <2>1, FS_EmptySet DEF NewIsNew
  <2>3. \A v \in Worker : tx'[v].new \cap (Waiting' \cup Handled') = {}
    <3>1. SUFFICES ASSUME NEW v \in Worker, v # w
                   PROVE  tx[v].new \cap (Waiting' \cup Handled') = {}
      BY <2>1
    <3>2. tx[v].new \cap msgs = {} /\ tx[v].new \cap (Waiting \cup Handled) = {}
      BY <3>1 DEF NewIsNew
    <3> QED
      BY <1>4, <3>2
  <2>4. \A v, u \in Worker : v # u => tx'[v].new \cap tx'[u].new = {}
    BY <2>1 DEF NewIsNew
  <2> QED
    BY <2>2, <2>3, <2>4 DEF NewIsNew
<1>6. \A m \in Msg : m \in Handled' \/ InHand(m)' <=> m \in Handled \/ InHand(m)
  <2> TAKE m \in Msg
  <2>1. InHand(m)' <=> \E v \in Worker \ {w} : HasHandled(v) /\ m \in queue[tx[v].id]
    BY <1>1, <1>2 DEF InHand, HasHandled, Open
  <2>2. InHand(m) <=> InHand(m)' \/ m \in queue[tx[w].id]
    BY <2>1 DEF InHand
  <2> QED
    BY <2>2
<1>7. EffectsCounted'
  BY <1>6 DEF EffectsCounted
<1>8. Waiting' \cap Handled' = {}
  <2>1. msgs \cap (Waiting \cup Handled) = {}
    BY DEF NewIsNew
  <2> QED
    BY <1>4, <2>1 DEF OneRow
<1> QED
  BY <1>1, <1>3, <1>5, <1>7, <1>8

(* The row is done, and what its item produced is enqueued.                *)
LEMMA CommitDoneInv ==
  ASSUME IInv, NEW w \in Worker, commitDone(w)
  PROVE  /\ IInv'
         /\ queue[tx[w].id] # {} /\ queue[tx[w].id] \subseteq Waiting
         /\ tx[w].new \in SUBSET Msg /\ tx[w].new \cap (Waiting \cup Handled) = {}
         /\ Waiting' = (Waiting \ queue[tx[w].id]) \cup tx[w].new
         /\ Handled' = Handled \cup queue[tx[w].id]
<1> USE DEF IInv
<1> DEFINE row  == tx[w].id
           rest == without(queue, {row})
<1>1. HasHandled(w) /\ Open(w)
  BY DEF commitDone, HasHandled, Open
<1>2. /\ row \in 1..id_seq /\ row \notin DOMAIN done \cup DOMAIN failed
      /\ queue[row] \in Item /\ queue[row] \subseteq messagesOf(queue)
      /\ IsTable(rest, id_seq) /\ RowsApart(rest) /\ DOMAIN rest = DOMAIN queue \ {row}
      /\ KeepsRows(rest, queue) /\ messagesOf(rest) = messagesOf(queue) \ queue[row]
  BY <1>1, RowLeaves
<1>3. /\ tx[w].new \in SUBSET Msg /\ tx[w].new \cap (Waiting \cup Handled) = {}
      /\ IsFiniteSet(tx[w].new)
  BY DEF TypeOK, TxState, NewIsNew
<1>4. Requeued(rest, optimize, tx[w].new)
  <2>1. /\ Items(separately(tx[w].new)) /\ Apart(separately(tx[w].new))
        /\ UNION separately(tx[w].new) = tx[w].new
    BY <1>3, Separate
  <2>2. Returns(run_pass_pure(separately(tx[w].new)), separately(tx[w].new))
    BY <2>1, PurePassReturns
  <2>3. /\ messagesOf(rest) \cap messagesOf(optimize) = {}
        /\ (messagesOf(rest) \cup messagesOf(optimize)) \cap tx[w].new = {}
    BY <1>2, <1>3 DEF OneRow, Waiting
  <2>4. insertResult(rest, optimize, run_pass_pure(separately(tx[w].new)))
    BY DEF commitDone
  <2>5. Requeued(rest, optimize, UNION separately(tx[w].new))
    <3> HIDE DEF rest
    <3>1. (messagesOf(rest) \cup messagesOf(optimize)) \cap (UNION separately(tx[w].new)) = {}
      BY <2>1, <2>3
    <3> QED
      BY <1>2, <2>2, <2>3, <2>4, <3>1, ResultInserted DEF TypeOK, OneRow
  <2> QED
    BY <2>1, <2>5
<1>5. IsTable(done', id_seq) /\ GetsRow(done, row, queue[row], done')
  BY <1>2, Moved DEF TypeOK, commitDone, moveRow
<1>6. /\ tx' = [tx EXCEPT ![w] = noTx]
      /\ UNCHANGED <<failed, optimizerTx, effects, crashes>>
  BY DEF commitDone
<1>7. Waiting' = (Waiting \ queue[row]) \cup tx[w].new
  BY <1>2, <1>4 DEF Requeued, Waiting, OneRow
<1>8. Handled' = Handled \cup queue[row]
  BY <1>5, <1>6 DEF GetsRow, Handled
<1>9. /\ tx' \in [Worker -> TxState] /\ TxHasRow' /\ NewIsNew' /\ EffectsCounted'
      /\ Waiting' \cap Handled' = {}
  BY <1>1, <1>4, <1>6, <1>7, <1>8, TxCommits DEF Requeued
<1>10. TypeOK'
  <2>1. IsTable(done', id_seq') /\ IsTable(failed', id_seq')
    BY <1>4, <1>5, <1>6, TableGrows DEF TypeOK, Requeued
  <2> QED
    BY <1>4, <1>6, <1>9, <2>1 DEF TypeOK, Requeued
<1>11. OneRow'
  <2>1. \A id \in DOMAIN queue' : id \in DOMAIN queue \ {row} \/ id > id_seq
    BY <1>2, <1>4 DEF Requeued
  <2>2. DOMAIN done' \cup DOMAIN failed' = DOMAIN done \cup DOMAIN failed \cup {row}
    BY <1>5, <1>6 DEF GetsRow
  <2>3. \A id \in DOMAIN done' \cup DOMAIN failed' : id \in 1..id_seq
    BY <1>2, <2>2 DEF TypeOK, IsTable
  <2>4. DOMAIN queue' \cap (DOMAIN done' \cup DOMAIN failed') = {}
    BY <2>1, <2>2, <2>3 DEF OneRow, TypeOK
  <2> QED
    BY <1>4, <1>9, <2>4 DEF OneRow, Requeued
<1>12. OptimizerHasRows'
  <2>1. rowsOf(optimizerTx.rows)' = rowsOf(optimizerTx.rows)
    BY <1>4, <1>6 DEF OptimizerHasRows, rowsOf, Requeued, KeepsRows
  <2> QED
    BY <1>4, <1>6, <2>1 DEF OptimizerHasRows, Requeued, KeepsRows
<1>13. queue[row] # {} /\ queue[row] \subseteq Waiting
  BY <1>2 DEF Item, Waiting
<1> QED
  BY <1>3, <1>7, <1>8, <1>9, <1>10, <1>11, <1>12, <1>13

(* The row has failed.                                                     *)
LEMMA CommitFailedInv ==
  ASSUME IInv, NEW w \in Worker, commitFailed(w)
  PROVE  /\ IInv'
         /\ queue[tx[w].id] # {} /\ queue[tx[w].id] \subseteq Waiting
         /\ Waiting' = Waiting \ queue[tx[w].id]
         /\ Handled' = Handled \cup queue[tx[w].id]
<1> USE DEF IInv
<1> DEFINE row  == tx[w].id
           rest == without(queue, {row})
<1>1. HasHandled(w) /\ Open(w)
  BY DEF commitFailed, HasHandled, Open
<1>2. /\ row \in 1..id_seq /\ row \notin DOMAIN done \cup DOMAIN failed
      /\ queue[row] \in Item /\ queue[row] \subseteq messagesOf(queue)
      /\ IsTable(rest, id_seq) /\ RowsApart(rest) /\ DOMAIN rest = DOMAIN queue \ {row}
      /\ KeepsRows(rest, queue) /\ messagesOf(rest) = messagesOf(queue) \ queue[row]
  BY <1>1, RowLeaves
<1>3. IsTable(failed', id_seq) /\ GetsRow(failed, row, queue[row], failed')
  BY <1>2, Moved DEF TypeOK, commitFailed, moveRow
<1>4. /\ queue' = rest /\ tx' = [tx EXCEPT ![w] = noTx]
      /\ UNCHANGED <<id_seq, optimize, done, optimizerTx, effects, crashes>>
  BY DEF commitFailed
<1>5. Waiting' = Waiting \ queue[row]
  BY <1>2, <1>4 DEF Waiting, OneRow
<1>6. Handled' = Handled \cup queue[row]
  BY <1>3, <1>4 DEF GetsRow, Handled
<1>7. /\ tx' \in [Worker -> TxState] /\ TxHasRow' /\ NewIsNew' /\ EffectsCounted'
      /\ Waiting' \cap Handled' = {}
  <2>1. KeepsRows(without(queue, {tx[w].id}), queue')
    BY <1>4 DEF KeepsRows
  <2>2. {} \in SUBSET tx[w].new /\ Waiting' = (Waiting \ queue[tx[w].id]) \cup {}
    BY <1>5
  <2> QED
    BY <1>1, <1>4, <1>6, <2>1, <2>2, TxCommits
<1>8. TypeOK'
  BY <1>2, <1>3, <1>4, <1>7 DEF TypeOK
<1>9. OneRow'
  <2>1. DOMAIN queue' \cap (DOMAIN done' \cup DOMAIN failed') = {}
    BY <1>2, <1>3, <1>4 DEF OneRow, GetsRow
  <2>2. messagesOf(queue') \cap messagesOf(optimize') = {}
    BY <1>2, <1>4 DEF OneRow
  <2> QED
    BY <1>2, <1>4, <1>7, <2>1, <2>2 DEF OneRow
<1>10. OptimizerHasRows'
  BY <1>4 DEF OptimizerHasRows, rowsOf
<1>11. queue[row] # {} /\ queue[row] \subseteq Waiting
  BY <1>2 DEF Item, Waiting
<1> QED
  BY <1>5, <1>6, <1>7, <1>8, <1>9, <1>10, <1>11

(* Nothing stands on the optimizer when it has no rows.                    *)
LEMMA NoOptimizerTx == Returns(noOptimizerTx.res, {}) /\ noOptimizerTx.rows = {}
<1>1. Items({}) /\ Apart({})
  BY FS_EmptySet DEF Items, Apart
<1> QED
  BY <1>1, PurePassReturns DEF noOptimizerTx

(* The optimizer takes all the rows there are.                             *)
LEMMA BeginOptimizeInv ==
  ASSUME IInv, beginOptimize
  PROVE  IInv' /\ UNCHANGED <<Waiting, Handled>>
<1> USE DEF IInv
<1>1. PICK res \in run_pass(rowsOf(DOMAIN optimize)) :
        optimizerTx' = [rows |-> DOMAIN optimize, res |-> res]
  BY DEF beginOptimize, rowsOf
<1>2. UNCHANGED <<id_seq, queue, optimize, done, failed, tx, effects, crashes>>
  BY DEF beginOptimize
<1>3. UNCHANGED <<Waiting, Handled>>
  BY <1>2 DEF Waiting, Handled
<1>4. Items(rowsOf(DOMAIN optimize)) /\ Apart(rowsOf(DOMAIN optimize))
  BY ItemsOfTable DEF rowsOf, TypeOK, OneRow
<1>5. Returns(res, rowsOf(DOMAIN optimize))
  BY <1>4, PassReturns
<1>6. OptimizerHasRows'
  <2>1. rowsOf(optimizerTx.rows)' = rowsOf(DOMAIN optimize)
    BY <1>1, <1>2 DEF rowsOf
  <2> QED
    BY <1>1, <1>2, <1>5, <2>1 DEF OptimizerHasRows
<1>7. TypeOK' /\ OneRow'
  BY <1>2, <1>3 DEF TypeOK, OneRow
<1>8. TxHasRow' /\ NewIsNew'
  BY <1>2, <1>3 DEF TxHasRow, NewIsNew, Open
<1>9. EffectsCounted'
  BY <1>2, <1>3 DEF EffectsCounted, InHand, HasHandled
<1> QED
  BY <1>3, <1>6, <1>7, <1>8, <1>9

(* Its rows are gone, and what they became is in queue.                    *)
LEMMA CommitOptimizeInv ==
  ASSUME IInv, commitOptimize
  PROVE  IInv' /\ UNCHANGED <<Waiting, Handled>>
<1> USE DEF IInv
<1> DEFINE rows == optimizerTx.rows
           rest == without(optimize, rows)
           res  == [optimize_further |-> {},
                    ready |-> optimizerTx.res.ready \cup optimizerTx.res.optimize_further]
<1>1. /\ insertResult(queue, rest, res)
      /\ optimizerTx' = noOptimizerTx
      /\ UNCHANGED <<done, failed, tx, effects, crashes>>
  BY DEF commitOptimize
<1>2. Returns(res, rowsOf(rows))
  <2>1. /\ Items(optimizerTx.res.optimize_further) /\ Items(optimizerTx.res.ready)
        /\ Apart(Returned(optimizerTx.res))
        /\ UNION Returned(optimizerTx.res) = UNION rowsOf(rows)
    BY DEF OptimizerHasRows, Returns, Returned
  <2>2. IsFiniteSet(res.ready)
    BY <2>1, FS_Union DEF Items
  <2>3. Items(res.ready) /\ Items(res.optimize_further)
    BY <2>1, <2>2, FS_EmptySet DEF Items
  <2>4. Returned(res) = Returned(optimizerTx.res) /\ res.optimize_further = {}
    BY DEF Returned
  <2>5. res.optimize_further \cup res.ready = Returned(optimizerTx.res)
    BY <2>4 DEF Returned
  <2> HIDE DEF res
  <2> QED
    BY <2>1, <2>3, <2>4, <2>5 DEF Returns
<1>3. /\ IsTable(rest, id_seq) /\ Shrinks(optimize, rows, rest)
  BY Removed DEF TypeOK
<1>4. UNION {optimize[id] : id \in rows \cap DOMAIN optimize} = UNION rowsOf(rows)
  BY DEF OptimizerHasRows, rowsOf
<1>5. UNION rowsOf(rows) \subseteq messagesOf(optimize)
  BY DEF OptimizerHasRows, rowsOf, messagesOf
<1>6. messagesOf(rest) = messagesOf(optimize) \ (UNION rowsOf(rows)) /\ RowsApart(rest)
  BY <1>3, <1>4 DEF Shrinks, OneRow
<1>7. Requeued(queue, rest, UNION rowsOf(rows))
  <2>1. /\ messagesOf(queue) \cap messagesOf(rest) = {}
        /\ (messagesOf(queue) \cup messagesOf(rest)) \cap (UNION rowsOf(rows)) = {}
    BY <1>5, <1>6 DEF OneRow
  <2> HIDE DEF rest, res, rows
  <2> QED
    BY <1>1, <1>2, <1>3, <1>6, <2>1, ResultInserted DEF TypeOK, OneRow
<1>8. UNCHANGED <<Waiting, Handled>>
  <2>1. Waiting' = Waiting
    BY <1>5, <1>6, <1>7 DEF Requeued, Waiting
  <2> QED
    BY <1>1, <2>1 DEF Handled
<1>9. IsTable(done, id_seq') /\ IsTable(failed, id_seq')
  BY <1>7, TableGrows DEF TypeOK, Requeued
<1>10. TypeOK'
  BY <1>1, <1>7, <1>9 DEF TypeOK, Requeued
<1>11. OneRow'
  <2>1. DOMAIN queue' \cap (DOMAIN done \cup DOMAIN failed) = {}
    BY <1>7 DEF Requeued, OneRow, TypeOK, IsTable
  <2> QED
    BY <1>1, <1>7, <1>8, <2>1 DEF OneRow, Requeued
<1>12. TxHasRow' /\ \A k \in Msg : InHand(k)' <=> InHand(k)
  BY <1>1, <1>7, RowsKept DEF Requeued
<1>13. NewIsNew'
  BY <1>1, <1>8 DEF NewIsNew
<1>14. OptimizerHasRows'
  <2>1. rowsOf(optimizerTx.rows)' = {}
    BY <1>1, NoOptimizerTx DEF rowsOf
  <2> QED
    BY <1>1, <2>1, NoOptimizerTx DEF OptimizerHasRows
<1>15. EffectsCounted'
  BY <1>1, <1>8, <1>12 DEF EffectsCounted
<1> QED
  BY <1>8, <1>10, <1>11, <1>12, <1>13, <1>14, <1>15

(* The process dies: nobody has a row, and what was handled is forgotten.  *)
LEMMA CrashInv ==
  ASSUME IInv, crash
  PROVE  IInv' /\ UNCHANGED <<Waiting, Handled>>
<1> USE DEF IInv
<1>1. /\ tx' = [w \in Worker |-> noTx] /\ optimizerTx' = noOptimizerTx
      /\ crashes' = crashes + 1
      /\ UNCHANGED <<id_seq, queue, optimize, done, failed, effects>>
  BY DEF crash
<1>2. UNCHANGED <<Waiting, Handled>>
  BY <1>1 DEF Waiting, Handled
<1>3. TypeOK'
  BY <1>1 DEF TypeOK, TxState, noTx
<1>4. OneRow'
  BY <1>1, <1>2 DEF OneRow
<1>5. \A w \in Worker : ~Open(w)' /\ ~HasHandled(w)' /\ tx'[w].new = {}
  BY <1>1 DEF Open, HasHandled, noTx
<1>6. TxHasRow' /\ NewIsNew'
  BY <1>5, FS_EmptySet DEF TxHasRow, NewIsNew
<1>7. OptimizerHasRows'
  <2>1. rowsOf(optimizerTx.rows)' = {}
    BY <1>1, NoOptimizerTx DEF rowsOf
  <2> QED
    BY <1>1, <2>1, NoOptimizerTx DEF OptimizerHasRows
<1>8. EffectsCounted'
  <2>1. \A m \in Msg : ~InHand(m)'
    BY <1>5 DEF InHand
  <2>2. \A m \in Msg : m \in Handled => effects[m] > 0 /\ effects[m] <= crashes + 1
    BY DEF EffectsCounted
  <2>3. \A m \in Msg : effects[m] <= crashes + 1
    BY DEF EffectsCounted, TypeOK
  <2> QED
    BY <1>1, <1>2, <2>1, <2>2, <2>3 DEF EffectsCounted, TypeOK
<1> QED
  BY <1>2, <1>3, <1>4, <1>6, <1>7, <1>8

(* Every step preserves the invariant, and is one of MessageQueue, or      *)
(* leaves its variables alone.                                             *)
LEMMA NextInv ==
  ASSUME IInv, [Next]_vars
  PROVE  IInv' /\ [Abstract!Next]_(Abstract!vars)
<1>1. ASSUME UNCHANGED <<Waiting, Handled>>
      PROVE  [Abstract!Next]_(Abstract!vars)
  BY <1>1 DEF Abstract!vars
<1>2. ASSUME NEW batch \in SUBSET Msg, NEW new \in SUBSET Msg,
             batch # {}, batch \subseteq Waiting, new \cap (Waiting \cup Handled) = {},
             Waiting' = (Waiting \ batch) \cup new, Handled' = Handled \cup batch
      PROVE  Abstract!Next
  <2>1. Abstract!process(batch, new)
    BY <1>2 DEF Abstract!process, Abstract!Fresh
  <2> QED
    BY <2>1 DEF Abstract!Next
<1>3. ASSUME NEW w \in Worker, HasHandled(w)
      PROVE  queue[tx[w].id] \in SUBSET Msg
  BY <1>3, RowLeaves DEF HasHandled, Open, Item
<1>4. ASSUME NEW m \in Msg, enqueue(m)
      PROVE  IInv' /\ Abstract!Next
  <2>1. Abstract!enqueue(m)
    BY <1>4, EnqueueInv DEF Abstract!enqueue, Abstract!Fresh
  <2> QED
    BY <1>4, <2>1, EnqueueInv DEF Abstract!Next
<1>5. ASSUME NEW w \in Worker, beginProcess(w)
      PROVE  IInv' /\ [Abstract!Next]_(Abstract!vars)
  BY <1>1, <1>5, BeginProcessInv
<1>6. ASSUME NEW w \in Worker, NEW new \in SUBSET Msg, handle(w, new)
      PROVE  IInv' /\ [Abstract!Next]_(Abstract!vars)
  BY <1>1, <1>6, HandleInv
<1>7. ASSUME NEW w \in Worker, handleFails(w)
      PROVE  IInv' /\ [Abstract!Next]_(Abstract!vars)
  BY <1>1, <1>7, HandleFailsInv
<1>8. ASSUME NEW w \in Worker, commitDone(w)
      PROVE  IInv' /\ Abstract!Next
  <2>1. HasHandled(w)
    BY <1>8 DEF commitDone, HasHandled
  <2> QED
    BY <1>2, <1>3, <1>8, <2>1, CommitDoneInv
<1>9. ASSUME NEW w \in Worker, commitFailed(w)
      PROVE  IInv' /\ Abstract!Next
  <2>1. HasHandled(w)
    BY <1>9 DEF commitFailed, HasHandled
  <2>2. /\ {} \in SUBSET Msg /\ {} \cap (Waiting \cup Handled) = {}
        /\ Waiting' = (Waiting \ queue[tx[w].id]) \cup {}
    BY <1>9, CommitFailedInv
  <2> QED
    BY <1>2, <1>3, <1>9, <2>1, <2>2, CommitFailedInv
<1>10. CASE optimizeStep
  BY <1>1, <1>10, BeginOptimizeInv, CommitOptimizeInv DEF optimizeStep
<1>11. CASE crash
  BY <1>1, <1>11, CrashInv
<1>12. CASE UNCHANGED vars
  <2>1. IInv' /\ UNCHANGED <<Waiting, Handled>>
    BY <1>12 DEF vars, IInv, TypeOK, OneRow, TxHasRow, NewIsNew, OptimizerHasRows, rowsOf,
                 EffectsCounted, InHand, HasHandled, Open, Waiting, Handled
  <2> QED
    BY <1>1, <2>1
<1> QED
  BY <1>4, <1>5, <1>6, <1>7, <1>8, <1>9, <1>10, <1>11, <1>12 DEF Next, processStep

-----------------------------------------------------------------------------
(* Theorems *)

(* Of every row, transaction and message, the invariant holds.             *)
THEOREM InvariantHolds == Spec => []IInv
<1>1. IInv /\ [Next]_vars => IInv'
  BY NextInv
<1> QED
  BY InitInv, <1>1, PTL DEF Spec

(* A message is handled before it counts as done or failed, and again only *)
(* after a crash (process).                                                *)
THEOREM EffectsCountedByCrashes == Spec => []EffectsRepeatOnlyByCrash
<1>1. IInv => EffectsRepeatOnlyByCrash
  BY DEF IInv, TypeOK, EffectsCounted, EffectsRepeatOnlyByCrash
<1> QED
  BY InvariantHolds, <1>1, PTL

(* The tables, transactions, batches and crashes implement MessageQueue:   *)
(* no message is lost, none is committed twice, and what handling one      *)
(* produced is there as soon as it is done (trait Queue, PgQueue).         *)
THEOREM Refinement == Spec => ImplementsMessageQueue
<1>1. Init => Abstract!Init
  <2>1. messagesOf(emptyTable) = {}
    BY DEF messagesOf, emptyTable
  <2> QED
    BY <2>1 DEF Init, Abstract!Init, Waiting, Handled
<1>2. IInv /\ [Next]_vars => [Abstract!Next]_(Abstract!vars)
  BY NextInv
<1> QED
  BY InvariantHolds, <1>1, <1>2, PTL DEF Spec, ImplementsMessageQueue, Abstract!Spec

=============================================================================
