------------------------- MODULE QueuePassesProofs -------------------------
(***************************************************************************)
(* What the operators of QueuePasses do to the tables of a queue, and what *)
(* a pass does to the messages it is given.                                *)
(***************************************************************************)
EXTENDS QueuePasses, Integers, FiniteSetTheorems, WellFoundedInduction, TLAPS

(* A table of items under identifiers up to last.                          *)
IsTable(table, last) ==
  /\ table \in [DOMAIN table -> Item]
  /\ DOMAIN table \subseteq 1..last

(* No message is in two items.                                             *)
Apart(items) == \A item, other \in items : item # other => item \cap other = {}

(* No message is in two rows.                                              *)
RowsApart(table) ==
  \A id, other \in DOMAIN table : id # other => table[id] \cap table[other] = {}

Items(items) == IsFiniteSet(items) /\ items \subseteq Item

(* Every row of table is a row of larger.                                  *)
KeepsRows(table, larger) ==
  /\ DOMAIN table \subseteq DOMAIN larger
  /\ \A id \in DOMAIN table : larger[id] = table[id]

-----------------------------------------------------------------------------
(* Tables *)

(* The empty table is one, whatever the last identifier.                   *)
LEMMA EmptyTable ==
  ASSUME NEW last \in Nat
  PROVE  /\ IsTable(emptyTable, last) /\ DOMAIN emptyTable = {}
         /\ RowsApart(emptyTable) /\ messagesOf(emptyTable) = {}
BY DEF IsTable, emptyTable, RowsApart, messagesOf

(* A table of few identifiers is one of many.                              *)
LEMMA TableGrows ==
  ASSUME NEW table, NEW last \in Nat, NEW later \in Nat, last <= later, IsTable(table, last)
  PROVE  IsTable(table, later)
BY DEF IsTable

(* A table has finitely many rows.                                         *)
LEMMA TableFinite ==
  ASSUME NEW table, NEW last \in Nat, IsTable(table, last)
  PROVE  IsFiniteSet(DOMAIN table)
<1>1. DOMAIN table \in SUBSET (1..last) /\ IsFiniteSet(1..last)
  BY FS_Interval DEF IsTable
<1> QED
  BY <1>1, FS_Subset

(* The first of some identifiers is one of them.                           *)
LEMMA FirstIsOne ==
  ASSUME NEW ids, ids \subseteq Nat, ids # {}
  PROVE  first(ids) \in ids
<1> DEFINE upTo == {0..id : id \in ids}
<1>1. upTo \subseteq FiniteSubsetsOf(Nat) /\ upTo # {}
  <2>1. \A id \in ids : 0..id \in SUBSET Nat /\ IsFiniteSet(0..id)
    BY FS_Interval
  <2> QED
    BY <2>1 DEF FiniteSubsetsOf
<1>2. PICK least \in upTo : \A other \in upTo : <<other, least>> \notin StrictSubsetOrdering(Nat)
  BY <1>1, FS_StrictSubsetOrderingWellFounded, WFMin
<1>3. PICK id \in ids : least = 0..id
  OBVIOUS
<1>4. ASSUME NEW other \in ids
      PROVE  id <= other
  <2>1. <<0..other, 0..id>> \notin StrictSubsetOrdering(Nat)
    BY <1>2, <1>3
  <2>2. ~(0..other \subseteq 0..id /\ 0..other # 0..id)
    BY <2>1 DEF StrictSubsetOrdering
  <2> QED
    BY <2>2
<1>5. \E one \in ids : \A other \in ids : one <= other
  BY <1>4
<1> QED
  BY <1>5 DEF first

(* Items in some order: none is left out, none comes twice.                *)
LEMMA OrderIsOneToOne ==
  ASSUME NEW items, IsFiniteSet(items), NEW order \in Orders(items)
  PROVE  /\ Cardinality(items) \in Nat
         /\ DOMAIN order = 1..Cardinality(items)
         /\ {order[i] : i \in DOMAIN order} = items
         /\ \A i, j \in DOMAIN order : order[i] = order[j] => i = j
<1> DEFINE n == Cardinality(items)
<1>1. n \in Nat
  BY FS_CardinalityType
<1>2. IsFiniteSet(1..n) /\ Cardinality(1..n) = n
  BY <1>1, FS_Interval
<1>3. order \in [1..n -> items] /\ \A item \in items : \E i \in 1..n : order[i] = item
  BY DEF Orders
<1>4. order \in Surjection(1..n, items)
  BY <1>3 DEF Surjection
<1>5. order \in Injection(1..n, items)
  BY <1>2, <1>4, FS_SurjSameCardinalityImpliesInj
<1>6. DOMAIN order = 1..n /\ {order[i] : i \in 1..n} = items
  BY <1>3
<1>7. \A i, j \in 1..n : order[i] = order[j] => i = j
  BY <1>5 DEF Injection, IsInjective
<1> QED
  BY <1>1, <1>6, <1>7

(* larger is table, with items under the identifiers after last.           *)
Grows(table, last, items, larger) ==
  LET n == Cardinality(items) IN
  /\ n \in Nat
  /\ IsTable(larger, last + n)
  /\ KeepsRows(table, larger)
  /\ DOMAIN larger = DOMAIN table \cup (last + 1)..(last + n)
  /\ messagesOf(larger) = messagesOf(table) \cup (UNION items)
  /\ RowsApart(table) /\ Apart(items) /\ messagesOf(table) \cap (UNION items) = {}
       => RowsApart(larger)

(* What is inserted in a table is in it, with what was there before.       *)
LEMMA Inserted ==
  ASSUME NEW table, NEW last \in Nat, NEW items, NEW order \in Orders(items),
         IsTable(table, last), Items(items),
         NEW larger, larger = insert(table, last, order)
  PROVE  Grows(table, last, items, larger)
<1> DEFINE n == Cardinality(items)
<1>1. /\ n \in Nat /\ DOMAIN order = 1..n /\ {order[i] : i \in 1..n} = items
      /\ \A i, j \in 1..n : order[i] = order[j] => i = j
  BY OrderIsOneToOne DEF Items
<1>2. {last + i : i \in 1..n} = (last + 1)..(last + n)
  <2>1. ASSUME NEW id \in (last + 1)..(last + n)
        PROVE  \E i \in 1..n : id = last + i
    <3>1. id - last \in 1..n /\ id = last + (id - last)
      BY <1>1, <2>1
    <3> QED
      BY <3>1
  <2> QED
    BY <1>1, <2>1
<1>3. /\ DOMAIN larger = DOMAIN table \cup (last + 1)..(last + n)
      /\ \A id \in DOMAIN larger :
           larger[id] = IF id \in DOMAIN table THEN table[id] ELSE order[id - last]
  BY <1>1, <1>2 DEF insert
<1>4. larger = [id \in DOMAIN larger |-> larger[id]]
  BY DEF insert
<1>5. \A id \in DOMAIN table : larger[id] = table[id] /\ table[id] \in Item /\ id \in 1..last
  BY <1>3 DEF IsTable
<1>6. \A i \in 1..n : /\ last + i \in DOMAIN larger /\ last + i \notin DOMAIN table
                      /\ larger[last + i] = order[i] /\ order[i] \in items
  <2> TAKE i \in 1..n
  <2>1. last + i \in (last + 1)..(last + n) /\ last + i \notin 1..last /\ (last + i) - last = i
    BY <1>1
  <2> QED
    BY <1>1, <1>3, <2>1 DEF IsTable
<1>7. \A id \in DOMAIN larger : id \in DOMAIN table \/ \E i \in 1..n : id = last + i
  BY <1>2, <1>3
<1>8. IsTable(larger, last + n)
  <2>1. \A id \in DOMAIN larger : larger[id] \in Item
    BY <1>5, <1>6, <1>7 DEF Items
  <2>2. larger \in [DOMAIN larger -> Item]
    BY <1>4, <2>1
  <2>3. DOMAIN larger \subseteq 1..(last + n)
    BY <1>1, <1>3 DEF IsTable
  <2> QED
    BY <2>2, <2>3 DEF IsTable
<1>9. KeepsRows(table, larger)
  BY <1>3 DEF KeepsRows
<1>10. messagesOf(larger) = messagesOf(table) \cup (UNION items)
  <2>1. messagesOf(larger) \subseteq messagesOf(table) \cup (UNION items)
    BY <1>5, <1>6, <1>7 DEF messagesOf
  <2>2. messagesOf(table) \subseteq messagesOf(larger)
    BY <1>3, <1>5 DEF messagesOf
  <2>3. UNION items \subseteq messagesOf(larger)
    BY <1>1, <1>6 DEF messagesOf
  <2> QED
    BY <2>1, <2>2, <2>3
<1>11. ASSUME RowsApart(table), Apart(items), messagesOf(table) \cap (UNION items) = {}
       PROVE  RowsApart(larger)
  <2> SUFFICES ASSUME NEW id \in DOMAIN larger, NEW other \in DOMAIN larger, id # other
               PROVE  larger[id] \cap larger[other] = {}
    BY DEF RowsApart
  <2>1. CASE id \in DOMAIN table /\ other \in DOMAIN table
    BY <1>5, <1>11, <2>1 DEF RowsApart
  <2>2. CASE id \in DOMAIN table /\ other \notin DOMAIN table
    <3>1. larger[id] \subseteq messagesOf(table) /\ larger[other] \subseteq UNION items
      BY <1>5, <1>6, <1>7, <2>2 DEF messagesOf
    <3> QED
      BY <1>11, <3>1
  <2>3. CASE id \notin DOMAIN table /\ other \in DOMAIN table
    <3>1. larger[other] \subseteq messagesOf(table) /\ larger[id] \subseteq UNION items
      BY <1>5, <1>6, <1>7, <2>3 DEF messagesOf
    <3> QED
      BY <1>11, <3>1
  <2>4. CASE id \notin DOMAIN table /\ other \notin DOMAIN table
    <3>1. PICK i \in 1..n, j \in 1..n : id = last + i /\ other = last + j
      BY <1>7, <2>4
    <3>2. order[i] # order[j] /\ order[i] \in items /\ order[j] \in items
      BY <1>1, <1>6, <3>1
    <3> QED
      BY <1>6, <1>11, <3>1, <3>2 DEF Apart
  <2> QED
    BY <2>1, <2>2, <2>3, <2>4
<1> QED
  BY <1>1, <1>3, <1>8, <1>9, <1>10, <1>11 DEF Grows

(* smaller is table without the rows ids, which have taken their messages  *)
(* with them, and nothing else.                                            *)
Shrinks(table, ids, smaller) ==
  LET gone == UNION {table[id] : id \in ids \cap DOMAIN table} IN
  /\ DOMAIN smaller = DOMAIN table \ ids
  /\ KeepsRows(smaller, table)
  /\ messagesOf(smaller) \subseteq messagesOf(table)
  /\ messagesOf(table) \ gone \subseteq messagesOf(smaller)
  /\ RowsApart(table) => RowsApart(smaller) /\ messagesOf(smaller) \cap gone = {}

(* Rows can be taken out of a table.                                       *)
LEMMA Removed ==
  ASSUME NEW table, NEW last \in Nat, NEW ids, IsTable(table, last),
         NEW smaller, smaller = without(table, ids)
  PROVE  IsTable(smaller, last) /\ Shrinks(table, ids, smaller)
<1> DEFINE gone == UNION {table[id] : id \in ids \cap DOMAIN table}
<1>1. /\ DOMAIN smaller = DOMAIN table \ ids
      /\ \A id \in DOMAIN table \ ids : smaller[id] = table[id]
      /\ smaller = [id \in DOMAIN smaller |-> smaller[id]]
  BY DEF without
<1>2. IsTable(smaller, last)
  BY <1>1 DEF IsTable
<1>3. KeepsRows(smaller, table) /\ (RowsApart(table) => RowsApart(smaller))
  BY <1>1 DEF KeepsRows, RowsApart
<1>4. messagesOf(smaller) \subseteq messagesOf(table)
  BY <1>1 DEF messagesOf
<1>5. messagesOf(table) \ gone \subseteq messagesOf(smaller)
  BY <1>1 DEF messagesOf
<1>6. RowsApart(table) => messagesOf(smaller) \cap gone = {}
  BY <1>1 DEF messagesOf, RowsApart
<1> QED
  BY <1>1, <1>2, <1>3, <1>4, <1>5, <1>6 DEF Shrinks

GetsRow(table, id, item, larger) ==
  /\ DOMAIN larger = DOMAIN table \cup {id}
  /\ messagesOf(larger) = messagesOf(table) \cup item

(* A row that is moved to another table, under its own identifier.         *)
LEMMA Moved ==
  ASSUME NEW table, NEW last \in Nat, NEW id \in 1..last, NEW item \in Item,
         IsTable(table, last), id \notin DOMAIN table,
         NEW larger, larger = insert(table, id - 1, <<item>>)
  PROVE  IsTable(larger, last) /\ GetsRow(table, id, item, larger)
<1>1. DOMAIN <<item>> = {1} /\ <<item>>[1] = item
  OBVIOUS
<1>2. {(id - 1) + i : i \in DOMAIN <<item>>} = {id} /\ id - (id - 1) = 1
  BY <1>1
<1>3. /\ DOMAIN larger = DOMAIN table \cup {id}
      /\ larger = [k \in DOMAIN larger |-> larger[k]]
      /\ \A k \in DOMAIN table : larger[k] = table[k]
      /\ larger[id] = item
  BY <1>1, <1>2 DEF insert
<1>4. IsTable(larger, last)
  BY <1>3 DEF IsTable
<1>5. messagesOf(larger) = messagesOf(table) \cup item
  BY <1>3 DEF messagesOf
<1> QED
  BY <1>3, <1>4, <1>5 DEF GetsRow

-----------------------------------------------------------------------------
(* Passes *)

(* The items of a table.                                                   *)
LEMMA ItemsOfTable ==
  ASSUME NEW table, NEW last \in Nat, IsTable(table, last),
         NEW items, items = {table[id] : id \in DOMAIN table}
  PROVE  /\ Items(items)
         /\ UNION items = messagesOf(table)
         /\ RowsApart(table) => Apart(items)
<1>1. table \in Surjection(DOMAIN table, items)
  BY DEF IsTable, Surjection
<1>2. IsFiniteSet(items)
  BY <1>1, TableFinite, FS_Surjection
<1>3. items \subseteq Item
  BY DEF IsTable
<1>4. RowsApart(table) => Apart(items)
  BY DEF RowsApart, Apart
<1> QED
  BY <1>2, <1>3, <1>4 DEF Items, messagesOf

(* New messages are items of their own.                                    *)
LEMMA Separate ==
  ASSUME NEW msgs \in SUBSET Msg, IsFiniteSet(msgs)
  PROVE  /\ Items(separately(msgs)) /\ Apart(separately(msgs))
         /\ UNION separately(msgs) = msgs
<1> DEFINE single == [m \in msgs |-> {m}]
<1>1. single \in Surjection(msgs, separately(msgs))
  BY DEF Surjection, separately
<1>2. IsFiniteSet(separately(msgs))
  BY <1>1, FS_Surjection
<1> QED
  BY <1>2 DEF Items, Item, Apart, separately

(* What a pass returns, all of it.                                         *)
Returned(res) == res.optimize_further \cup res.ready

(* The passes return the messages they are given, each in one item.        *)
Returns(res, items) ==
  /\ Items(res.optimize_further) /\ Items(res.ready)
  /\ Apart(Returned(res))
  /\ res.optimize_further \cap res.ready = {}
  /\ UNION (res.optimize_further \cup res.ready) = UNION items

(* So does the one a message goes through before it is enqueued, ...       *)
LEMMA PurePassReturns ==
  ASSUME NEW items, Items(items), Apart(items)
  PROVE  Returns(run_pass_pure(items), items)
<1>1. Items({})
  BY FS_EmptySet DEF Items
<1> QED
  BY <1>1 DEF Returns, Returned, run_pass_pure, Apart

(* ... and those of the optimizer, which join messages.                    *)
LEMMA PassReturns ==
  ASSUME NEW items, Items(items), Apart(items), NEW res \in run_pass(items)
  PROVE  Returns(res, items)
<1>1. Items({})
  BY FS_EmptySet DEF Items
<1>2. PICK batches \in Partitions(items) :
        res = [optimize_further |-> {}, ready |-> {UNION batch : batch \in batches}]
  BY DEF run_pass
<1> DEFINE joined == {UNION batch : batch \in batches}
<1>3. /\ \A batch \in batches : batch \subseteq items /\ batch # {}
      /\ UNION batches = items
      /\ \A batch, other \in batches : batch # other => batch \cap other = {}
  BY <1>2 DEF Partitions
<1>4. IsFiniteSet(joined)
  <2> DEFINE join == [batch \in batches |-> UNION batch]
  <2>1. batches \in SUBSET (SUBSET items)
    BY <1>3
  <2>2. IsFiniteSet(batches)
    BY <2>1, FS_SUBSET, FS_Subset DEF Items
  <2>3. join \in Surjection(batches, joined)
    BY DEF Surjection
  <2> QED
    BY <2>2, <2>3, FS_Surjection
<1>5. \A batch \in batches : UNION batch \in Item
  BY <1>3 DEF Items, Item
<1>6. Apart(joined)
  <2> SUFFICES ASSUME NEW batch \in batches, NEW other \in batches,
                      UNION batch # UNION other
               PROVE  (UNION batch) \cap (UNION other) = {}
    BY DEF Apart
  <2>1. batch \cap other = {} /\ batch \subseteq items /\ other \subseteq items
    BY <1>3
  <2>2. \A item \in batch, one \in other : item \cap one = {}
    BY <2>1 DEF Apart
  <2> QED
    BY <2>2
<1>7. UNION joined = UNION items
  <2>1. UNION joined \subseteq UNION items
    BY <1>3
  <2>2. UNION items \subseteq UNION joined
    <3> SUFFICES ASSUME NEW item \in items
                 PROVE  item \subseteq UNION joined
      OBVIOUS
    <3>1. PICK batch \in batches : item \in batch
      BY <1>3
    <3> QED
      BY <3>1
  <2> QED
    BY <2>1, <2>2
<1>8. Items(joined)
  BY <1>4, <1>5 DEF Items
<1> QED
  BY <1>1, <1>2, <1>6, <1>7, <1>8 DEF Returns, Returned

=============================================================================
