---------------------------- MODULE MessageQueue ----------------------------
(***************************************************************************)
(* What lib/queue-msg's trait Queue promises of its implementations: a     *)
(* message that was enqueued waits, whatever passes regroup it with        *)
(* others, until it is handled, once; what handling it produced is         *)
(* enqueued at the same moment.                                            *)
(***************************************************************************)
CONSTANT Msg

VARIABLES waiting, handled

vars == <<waiting, handled>>

Fresh == Msg \ (waiting \cup handled)

Init == waiting = {} /\ handled = {}

enqueue(m) ==
  /\ m \in Fresh
  /\ waiting' = waiting \cup {m}
  /\ UNCHANGED handled

process(batch, new) ==
  /\ batch # {} /\ batch \subseteq waiting
  /\ new \subseteq Fresh
  /\ waiting' = (waiting \ batch) \cup new
  /\ handled' = handled \cup batch

Next ==
  \/ \E m \in Msg : enqueue(m)
  \/ \E batch, new \in SUBSET Msg : process(batch, new)

Spec == Init /\ [][Next]_vars

=============================================================================
