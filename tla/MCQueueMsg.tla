----------------------------- MODULE MCQueueMsg -----------------------------
(***************************************************************************)
(* Instances of QueueMsg for TLC: a small message of every kind, next to   *)
(* another, in every kind of message that holds two.                       *)
(***************************************************************************)
EXTENDS QueueMsg

(* Small messages over the identifiers i and j.                            *)
Small(i, j) ==
  {effect({i}), noop, fetch(i), void(fetch(i)), seq(<<data(i), effect({j})>>),
   retry(2, effect({i})), retry(2, fetch(i)), retry(3, wait(i)),
   conc(<<effect({i}), effect({j})>>), retry(2, seq(<<effect({i}), effect({j})>>)),
   repeat(2, effect({i})),
   conc(<<defer_relative(1), timeout(0, effect({i}))>>),
   race(<<wait(i), defer_relative(1)>>), race(<<fetch(i), effect({j})>>),
   event(seq(<<fetch(i), effect({j})>>)),
   aggregate(<<seq(<<fetch(i), defer_relative(1)>>)>>, {i}, effect({j}))}

Few(i, j) ==
  {effect({i}), fetch(i), void(fetch(i)), retry(2, effect({i})),
   conc(<<effect({i}), effect({j})>>), event(seq(<<fetch(i), effect({j})>>))}

(* The data that come out of x: what a receiver has to want.               *)
dataOf(x) ==
  IF x.op \in {"Void", "Race", "Aggregate"} THEN {}
  ELSE {y.id : y \in {y \in inside(x) : y.op \in {"Data", "Fetch"}}}

MCId == 1..4

MCPrograms ==
  UNION {{conc(<<x, y>>), seq(<<conc(<<x, noop>>), y>>),
          retry(2, seq(<<x, y>>)),
          aggregate(<<x, y>>, dataOf(x) \cup dataOf(y), noop)} :
         x \in Small(1, 2), y \in Few(3, 4)}

=============================================================================
