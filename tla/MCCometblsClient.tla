-------------------------- MODULE MCCometblsClient --------------------------
(***************************************************************************)
(* CometblsClient for TLC: four headers of the chain, whose validators     *)
(* change too much between heights 1 and 4 for one step, and a second      *)
(* header at height 3.                                                     *)
(***************************************************************************)
EXTENDS CometblsClient, Sequences

validators == <<"v1", "v1", "v2", "v3", "v3">>

(* Sets with a third in common.                                            *)
overlap == {<<v, v>> : v \in {"v1", "v2", "v3"}} \cup {<<"v1", "v2">>, <<"v2", "v3">>}

header(h, time, root) ==
  [height |-> h, time |-> time, app_hash |-> root,
   validators_hash |-> validators[h], next_validators_hash |-> validators[h + 1]]

MCForked == {header(h, h, "root") : h \in 1..4} \cup {header(3, 3, "forked")}

MCProves == {pair \in {"v1", "v2", "v3"} \X Signed :
               <<pair[1], pair[2].validators_hash>> \in overlap}

=============================================================================
