------------------------------ MODULE QueueMsg ------------------------------
(***************************************************************************)
(* The messages of lib/queue-msg: how the engine handles a message one     *)
(* step at a time (Op::handle, Engine::step), and how the passes of the    *)
(* queue rewrite it in between (optimize/passes.rs, Voyager's TxBatch).    *)
(* The queue itself neither loses nor repeats a message (MessageQueue);    *)
(* several workers may take its messages in any order.                     *)
(*                                                                         *)
(* A message of the program, an effect, fetch or wait, has an identifier;  *)
(* its handler is the environment's, which answers as the code's do.       *)
(***************************************************************************)
EXTENDS Integers, Sequences, FiniteSets, SequencesExt

CONSTANTS
  Programs,      \* the messages a run may start from
  Id,            \* the identifiers they use
  Batching,      \* whether the optimizer has a TxBatch pass: a set of BOOLEANs
  RetryCount,    \* TxBatch's retry_count
  MaxBatchSize,  \* TxBatch's max_batch_size
  MaxSetbacks,   \* bound: messages that fail, and waits that are not over yet
  MaxTime        \* bound: seconds that pass though nothing waits for them

VARIABLES
  program, batching,      \* what was started, with which optimizer
  ready, optimizer_queue, \* the queue: sets of messages (equal ones are inert)
  now,                    \* the clock, in seconds
  tried, succeeded,       \* how often each message was handled, and well
  failures                \* the errors that reached the engine

vars == <<program, batching, ready, optimizer_queue, now, tried, succeeded, failures>>

(* The constructors of Op.                                                 *)
data(i) == [op |-> "Data", id |-> i]
fetch(i) == [op |-> "Fetch", id |-> i]
wait(i) == [op |-> "Wait", id |-> i]
effect(ids) == [op |-> "Effect", ids |-> ids]
event(msg) == [op |-> "Event", msg |-> msg]
defer_absolute(t) == [op |-> "DeferAbsolute", seconds |-> t]
defer_relative(t) == [op |-> "DeferRelative", seconds |-> t]
seq(msgs) == [op |-> "Seq", msgs |-> msgs]
conc(msgs) == [op |-> "Conc", msgs |-> msgs]
race(msgs) == [op |-> "Race", msgs |-> msgs]
retry(n, msg) == [op |-> "Retry", remaining |-> n, msg |-> msg]
repeat(n, msg) == [op |-> "Repeat", times |-> n, msg |-> msg]
timeout(t, msg) == [op |-> "Timeout", timeout_timestamp |-> t, msg |-> msg]
void(msg) == [op |-> "Void", msg |-> msg]
noop == [op |-> "Noop"]

(* A receiver wants one datum of each of the types in wants, and becomes a *)
(* message.                                                                *)
aggregate(queue, wants, msg) ==
  [op |-> "Aggregate", queue |-> queue, data |-> <<>>, wants |-> wants, msg |-> msg]

isData(m) == m.op = "Data"
isNotData(m) == m.op # "Data"

-----------------------------------------------------------------------------
(* The passes *)

(* F of every message of a sequence, and these together.  (Through a set,  *)
(* so that TLC evaluates each message only once.)                          *)
map(F(_), msgs) == [i \in DOMAIN msgs |-> CHOOSE y \in {F(x) : x \in {msgs[i]}} : TRUE]
flatMap(F(_), msgs) == FlattenSeq(map(F, msgs))

RECURSIVE extract_data(_), remove_noop(_), seqParts(_), concParts(_)

(* Mutants: data are also taken out of an Aggregate; no data are taken out *)
(* of a Seq.                                                               *)
extract_data_aggregated(m) ==
  CASE m.op \in {"Seq", "Conc"} ->
         SelectSeq(flatMap(extract_data, m.msgs), isData) \o
           <<[m EXCEPT !.msgs = SelectSeq(flatMap(extract_data, @), isNotData)]>>
    [] m.op = "Aggregate" ->
         SelectSeq(flatMap(extract_data, m.queue), isData) \o
           <<[m EXCEPT !.queue = SelectSeq(flatMap(extract_data, @), isNotData)]>>
    [] OTHER -> <<m>>
extract_data_fromConc(m) ==
  CASE m.op = "Conc" ->
         SelectSeq(flatMap(extract_data, m.msgs), isData) \o
           <<[m EXCEPT !.msgs = SelectSeq(flatMap(extract_data, @), isNotData)]>>
    [] m.op = "Aggregate" -> <<[m EXCEPT !.queue = flatMap(extract_data, @)]>>
    [] OTHER -> <<m>>

(* The data in m, and m without it.                                        *)
extract_data(m) ==
  CASE m.op \in {"Seq", "Conc"} ->
         SelectSeq(flatMap(extract_data, m.msgs), isData) \o
           <<[m EXCEPT !.msgs = SelectSeq(flatMap(extract_data, @), isNotData)]>>
    [] m.op = "Aggregate" -> <<[m EXCEPT !.queue = flatMap(extract_data, @)]>>
    [] OTHER -> <<m>>

(* m without its noops, and without its voids; nothing if nothing is left. *)
remove_noop(m) ==
  CASE m.op \in {"Repeat", "Timeout", "Retry"} ->
         map(LAMBDA x : [m EXCEPT !.msg = x], flatMap(remove_noop, <<m.msg>>))
    [] m.op \in {"Seq", "Conc"} -> <<[m EXCEPT !.msgs = flatMap(remove_noop, @)]>>
    [] m.op = "Aggregate" -> <<[m EXCEPT !.queue = flatMap(remove_noop, @)]>>
    [] m.op = "Void" -> flatMap(remove_noop, <<m.msg>>)
    [] m.op = "Noop" -> <<>>
    [] OTHER -> <<m>>

asOne(msgs, wrap(_), none) ==
  CASE msgs = <<>> -> none [] Len(msgs) = 1 -> msgs[1] [] OTHER -> wrap(msgs)

atMostOne(msgs, wrap(_)) == IF Len(msgs) <= 1 THEN msgs ELSE <<wrap(msgs)>>

seqParts(m) ==
  LET flatten_seq(x) == asOne(seqParts(x), seq, seq(<<>>)) IN
  CASE m.op = "Seq" -> flatMap(seqParts, m.msgs)
    [] m.op = "Conc" ->
         <<conc(flatMap(LAMBDA x : atMostOne(seqParts(x), seq), m.msgs))>>
    [] m.op = "Aggregate" -> <<[m EXCEPT !.queue = map(flatten_seq, @)]>>
    [] m.op = "Race" -> <<[m EXCEPT !.msgs = map(flatten_seq, @)]>>
    [] OTHER -> <<m>>

(* Mutant: a seq is taken apart like a conc.                               *)
concParts_seqToo(m) ==
  CASE m.op \in {"Conc", "Seq"} -> flatMap(concParts, m.msgs)
    [] m.op = "Aggregate" -> <<[m EXCEPT !.queue = flatMap(concParts, @)]>>
    [] OTHER -> <<m>>

concParts(m) ==
  CASE m.op = "Conc" -> flatMap(concParts, m.msgs)
    [] m.op = "Seq" ->
         <<seq(flatMap(LAMBDA x : atMostOne(concParts(x), conc), m.msgs))>>
    [] m.op = "Aggregate" -> <<[m EXCEPT !.queue = flatMap(concParts, @)]>>
    [] m.op = "Race" ->
         <<[m EXCEPT !.msgs = map(LAMBDA x : asOne(concParts(x), conc, noop), @)]>>
    [] OTHER -> <<m>>

(* Normalize: (ExtractData, RemoveNoop, FlattenSeq, FlattenConc).          *)
normalize(msgs) ==
  LET withoutData == UNION {Range(extract_data(m)) : m \in msgs}
      withoutNoop == UNION {Range(remove_noop(m)) : m \in withoutData}
      flattenedSeq == {asOne(seqParts(m), seq, seq(<<>>)) : m \in withoutNoop}
  IN UNION {Range(concParts(m)) : m \in flattenedSeq}

(* The ways to cut ids into chunks of MaxBatchSize, the last one shorter.  *)
Chunks(ids) ==
  {chunks \in SUBSET {c \in SUBSET ids : Cardinality(c) \in 1..MaxBatchSize} :
     /\ UNION chunks = ids
     /\ \A c, d \in chunks : c # d => c \cap d = {}
     /\ Cardinality({c \in chunks : Cardinality(c) < MaxBatchSize}) \leq 1}

(* The effects among msgs, if need be out of their Retry and their batch.  *)
batchable(m) == m.op = "Effect" \/ (m.op = "Retry" /\ m.msg.op = "Effect")
idsOf(m) == IF m.op = "Effect" THEN m.ids ELSE m.msg.ids

(* What TxBatch may make of msgs: each chunk becomes a Retry of its own,   *)
(* and every other Retry is lost.                                          *)
TxBatch(msgs) ==
  LET effects == {m \in msgs : batchable(m)}
      ids == UNION {idsOf(m) : m \in effects}
      rest == {IF m.op = "Retry" THEN m.msg ELSE m : m \in msgs \ effects}
  IN {rest \cup {retry(RetryCount, effect(chunk)) : chunk \in chunks} :
        chunks \in Chunks(ids)}

-----------------------------------------------------------------------------
(* Handling *)

(* What a call of handle may return: an error, or a message or none; which *)
(* messages' handlers it called, and which of these did not succeed.       *)
ok(msgs, ids) == [msgs |-> msgs, error |-> "none", tried |-> ids, again |-> {}]
err(error, ids) == [msgs |-> <<>>, error |-> error, tried |-> ids, again |-> ids]
result(res, msgs) == [res EXCEPT !.msgs = msgs, !.error = "none"]

pushFront(msgs, m) == m \o msgs
pushBack(msgs, m) == msgs \o m

RECURSIVE handle(_)

(* Mutant: the attempts that remain do not decrease.                       *)
retried_forever(m, res) ==
  IF res.error \notin {"Retry", "Fatal"} THEN res
  ELSE result(res, <<seq(<<defer_absolute(now + 1), m>>)>>)

(* Op::Retry, given what the message in it returned.                       *)
retried(m, res) ==
  CASE res.error \notin {"Retry", "Fatal"} -> res
    [] m.remaining = 1 -> res
    [] OTHER -> result(res, <<seq(<<defer_absolute(now + 1), retry(m.remaining - 1, m.msg)>>)>>)

(* Mutant: nobody looks whether times - 1 is 0, which is forever.          *)
repeated_once(m) == seq(<<m.msg, [m EXCEPT !.times = @ - 1]>>)

(* Op::Repeat, with times = 0 for None.                                    *)
repeated(m) ==
  CASE m.times = 0 -> seq(<<m.msg, m>>)
    [] m.times = 1 -> seq(<<m.msg>>)
    [] OTHER -> seq(<<m.msg, [m EXCEPT !.times = @ - 1]>>)

(* The receiver of an Aggregate: it panics on other data than it wants.    *)
received(m) ==
  IF Len(m.data) = Cardinality(m.wants) /\ Range(m.data) = m.wants
  THEN ok(<<m.msg>>, {}) ELSE err("Panic", {})

(* Op::Aggregate, when the head of its queue returned res.                 *)
collected(m, res) ==
  CASE res.error # "none" -> res
    [] res.msgs # <<>> /\ isData(res.msgs[1]) ->
         result(res, <<[m EXCEPT !.queue = Tail(@), !.data = Append(@, res.msgs[1].id)]>>)
    [] OTHER -> result(res, <<[m EXCEPT !.queue = pushBack(Tail(@), res.msgs)]>>)

(* Op::Seq, Op::Conc and Op::Race, when their head returned res.           *)
advanced(m, res) ==
  CASE res.error # "none" -> res
    [] m.op = "Seq" -> result(res, <<seq(pushFront(Tail(m.msgs), res.msgs))>>)
    [] m.op = "Race" /\ res.msgs = <<>> -> result(res, <<>>)
    [] OTHER -> result(res, <<[m EXCEPT !.msgs = pushBack(Tail(@), res.msgs)]>>)

voided(res) ==
  [res EXCEPT !.msgs = [i \in DOMAIN @ |-> IF isData(@[i]) THEN noop ELSE void(@[i])]]

(* The message in m that a step of m handles, if there is one.             *)
head(m) ==
  CASE m.op \in {"Seq", "Conc", "Race"} -> {m.msgs[i] : i \in DOMAIN m.msgs \cap {1}}
    [] m.op = "Aggregate" -> {m.queue[i] : i \in DOMAIN m.queue \cap {1}}
    [] OTHER -> {m.msg}

(* Op::handle.  The handlers of events, fetches and waits fail with a      *)
(* fatal error only, if at all; those of effects also with one to retry.   *)
handle(m) ==
  LET inner == UNION {handle(x) : x \in head(m)} IN
  CASE m.op = "Data" -> {ok(<<m>>, {})}
    [] m.op = "Event" -> {ok(<<m.msg>>, {}), err("Fatal", {})}
    [] m.op = "Fetch" -> {ok(<<data(m.id)>>, {m.id}), err("Fatal", {m.id})}
    [] m.op = "Effect" -> {ok(<<noop>>, m.ids), err("Retry", m.ids), err("Fatal", m.ids)}
    [] m.op = "Wait" ->
         {ok(<<noop>>, {m.id}), err("Fatal", {m.id}),
          [ok(<<seq(<<defer_absolute(now + 1), m>>)>>, {m.id}) EXCEPT !.again = {m.id}]}
    [] m.op = "DeferRelative" -> {ok(<<defer_absolute(now + m.seconds)>>, {})}
    [] m.op = "DeferAbsolute" -> {ok(IF now < m.seconds THEN <<m>> ELSE <<>>, {})}
    [] m.op = "Timeout" ->
         IF now > m.timeout_timestamp THEN {ok(<<>>, {})} ELSE inner
    [] m.op \in {"Seq", "Conc", "Race"} ->
         IF m.msgs = <<>> THEN {ok(<<>>, {})}
         ELSE {advanced(m, res) : res \in inner}
    [] m.op = "Retry" -> {retried(m, res) : res \in inner}
    [] m.op = "Aggregate" ->
         IF m.queue = <<>> THEN {received(m)}
         ELSE {collected(m, res) : res \in inner}
    [] m.op = "Repeat" -> {ok(<<repeated(m)>>, {})}
    [] m.op = "Void" -> {voided(res) : res \in inner}
    [] m.op = "Noop" -> {ok(<<>>, {})}

-----------------------------------------------------------------------------
(* The engine, the optimizer and the clock *)

panicked == \E f \in failures : f.error # "Fatal"

Init ==
  /\ program \in Programs /\ batching \in Batching
  /\ ready = {} /\ optimizer_queue = normalize({program})
  /\ now = 0
  /\ tried = [i \in Id |-> 0] /\ succeeded = [i \in Id |-> 0]
  /\ failures = {}

setbacks == FoldFunction(+, 0, tried) - FoldFunction(+, 0, succeeded)

count(counter, ids) == [i \in Id |-> counter[i] + (IF i \in ids THEN 1 ELSE 0)]

(* Engine::step on m: what comes of it is normalized and queued again, but *)
(* data are output; after an error that is not fatal the process is over.  *)
step(m) ==
  /\ ~panicked /\ m \in ready
  /\ \E res \in handle(m) :
       /\ res.again # {} => setbacks < MaxSetbacks
       /\ ready' = ready \ {m}
       /\ optimizer_queue' = optimizer_queue \cup
            normalize({x \in Range(res.msgs) : isNotData(x)})
       /\ tried' = count(tried, res.tried)
       /\ succeeded' = count(succeeded, res.tried \ res.again)
       /\ failures' = IF res.error = "none" THEN failures
                      ELSE failures \cup {[error |-> res.error, ids |-> res.again]}
  /\ UNCHANGED <<program, batching, now>>

(* The optimizer makes everything it has ready.                            *)
optimize ==
  /\ ~panicked /\ optimizer_queue # {}
  /\ \E msgs \in IF batching THEN TxBatch(normalize(optimizer_queue))
                             ELSE {normalize(optimizer_queue)} :
       ready' = ready \cup msgs
  /\ optimizer_queue' = {}
  /\ UNCHANGED <<program, batching, now, tried, succeeded, failures>>

RECURSIVE deferredTo(_)
deferredTo(m) ==
  CASE m.op = "DeferAbsolute" -> {m.seconds}
    [] m.op \in {"Seq", "Conc", "Race"} -> UNION {deferredTo(x) : x \in Range(m.msgs)}
    [] m.op = "Aggregate" -> UNION {deferredTo(x) : x \in Range(m.queue)}
    [] m.op \in {"Retry", "Repeat", "Timeout", "Void"} -> deferredTo(m.msg)
    [] OTHER -> {}

(* A second passes; after MaxTime of them only if a message waits for it.  *)
tick ==
  /\ ~panicked /\ ready \cup optimizer_queue # {}
  /\ \E t \in {MaxTime} \cup UNION {deferredTo(m) : m \in ready \cup optimizer_queue} : now < t
  /\ now' = now + 1
  /\ UNCHANGED <<program, batching, ready, optimizer_queue, tried, succeeded, failures>>

Next == (\E m \in ready : step(m)) \/ optimize \/ tick

(* The workers and the optimizer are loops of their own, and time passes.  *)
Spec == Init /\ [][Next]_vars
FairSpec == Spec /\ WF_vars(\E m \in ready : step(m)) /\ WF_vars(optimize) /\ WF_vars(tick)

-----------------------------------------------------------------------------
(* What a message means, as it was written *)

RECURSIVE inside(_), leaves(_), before(_), times(_, _), attempts(_, _), first(_)

(* The messages directly in m.                                             *)
parts(m) ==
  CASE m.op \in {"Seq", "Conc", "Race"} -> m.msgs
    [] m.op = "Aggregate" -> Append(m.queue, m.msg)
    [] m.op \in {"Retry", "Repeat", "Timeout", "Void", "Event"} -> <<m.msg>>
    [] OTHER -> <<>>

inside(m) == {m} \cup UNION {inside(x) : x \in Range(parts(m))}

leaves(m) ==
  CASE m.op = "Effect" -> m.ids
    [] m.op \in {"Fetch", "Wait"} -> {m.id}
    [] OTHER -> UNION {leaves(x) : x \in Range(parts(m))}

(* i has to be over when j begins: a sequence, and a receiver of data.     *)
before(m) ==
  LET p == parts(m)
      inOrder == {ij \in (DOMAIN p) \X (DOMAIN p) : ij[1] < ij[2] /\
                    (m.op = "Seq" \/ (m.op = "Aggregate" /\ ij[2] = Len(p)))}
  IN IF m.op = "Repeat" THEN {}
     ELSE UNION {before(p[i]) : i \in DOMAIN p} \cup
          UNION {leaves(p[ij[1]]) \X leaves(p[ij[2]]) : ij \in inOrder}

(* How often i succeeds if nothing fails.                                  *)
times(m, i) ==
  CASE i \notin leaves(m) -> 0
    [] m.op = "Repeat" -> m.times * times(m.msg, i)
    [] parts(m) = <<>> -> 1
    [] OTHER -> FoldFunction(+, 0, [k \in DOMAIN parts(m) |-> times(parts(m)[k], i)])

(* The effects or the fetch the first step of m handles, noops apart.      *)
first(m) ==
  LET isNoop(x) == x.op = "Noop" /\ m.op # "Race"
      p == SelectSeq(parts(m), LAMBDA x : ~isNoop(x))
  IN CASE m.op \in {"Effect", "Fetch"} -> leaves(m)
       [] m.op \in {"Repeat", "Event"} \/ p = <<>> -> {}
       [] OTHER -> first(p[1])

(* How often i may fail: a Retry counts for what its first step handles,   *)
(* as any success ends it (a wait that is not over yet is one, so none     *)
(* counts for a wait), and not at all if TxBatch may take it away.         *)
attempts(m, i) ==
  LET inner == {attempts(x, i) : x \in {x \in Range(parts(m)) : i \in leaves(x)}}
  IN CASE inner = {} -> 1
       [] m.op = "Retry" /\ i \in first(m.msg) /\ inner = {1} ->
            IF batching /\ m.msg.op # "Effect" THEN 1 ELSE m.remaining
       [] OTHER -> CHOOSE n \in inner : TRUE

-----------------------------------------------------------------------------
(* Properties *)

Pending == UNION {leaves(m) : m \in ready \cup optimizer_queue}

(* A message in a sequence is not begun, and a receiver's message not      *)
(* either, before everything ahead of it is over, however Op::handle and   *)
(* the passes took the nested messages apart and put them together again   *)
(* (FlattenSeq, FlattenConc).                                              *)
SequenceRespected ==
  [][\A ij \in before(program) : tried'[ij[2]] # tried[ij[2]] => ij[1] \notin Pending]_vars

(* Nothing succeeds more often than the message says, retries and batches  *)
(* included; and once the queue is empty after no error everything has     *)
(* happened as often as it says, but for races and what timed out.         *)
EffectsHappenAsWritten ==
  \A i \in leaves(program) :
    /\ succeeded[i] <= times(program, i)
    /\ \/ ready \cup optimizer_queue # {} \/ failures # {}
       \/ \E m \in inside(program) : m.op \in {"Race", "Timeout"} /\ i \in leaves(m)
       \/ succeeded[i] = times(program, i)

(* An effect or a fetch that made its message fail for good was tried as   *)
(* often as the innermost Retry that starts with it says (with TxBatch     *)
(* only if it is a Retry of an effect alone: any other it drops); and      *)
(* without TxBatch, which starts a new Retry every time the optimizer sees *)
(* the effect, it is never tried again after that.                         *)
RetriesAreSpent ==
  \A i \in leaves(program) :
    (\A m \in inside(program) : m.op = "Repeat" => i \notin leaves(m)) =>
    /\ (\E f \in failures : i \in f.ids) => tried[i] - succeeded[i] >= attempts(program, i)
    /\ ~batching /\ (\A m \in inside(program) : m.op = "Wait" => m.id # i) =>
         tried[i] - succeeded[i] <= attempts(program, i)

(* A receiver gets the data it was written for, however they come out of   *)
(* the messages in its queue, unless one of these is a Void, which         *)
(* RemoveNoop unwraps: then it gets data that were to be dropped, and      *)
(* panics.                                                                 *)
ReceiverGetsItsData ==
  (\E f \in failures : f.error = "Panic") =>
    \E m \in inside(program), x \in inside(program) :
      m.op = "Aggregate" /\ x.op = "Void" /\ leaves(x) \subseteq leaves(m)

(* A message that does not repeat forever comes to an end, unless it races *)
(* a message that returns data: that race is neither won nor given up.     *)
RunsToCompletion ==
  <>(\/ ready \cup optimizer_queue = {} \/ panicked
     \/ \E m \in inside(program) :
          \/ m.op = "Repeat" /\ m.times = 0
          \/ m.op = "Race" /\ \E x \in inside(m) : x.op \in {"Data", "Fetch"})

=============================================================================
