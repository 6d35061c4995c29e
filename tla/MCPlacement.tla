---------------------------- MODULE MCPlacement ----------------------------
(* Placement with small tables. *)
EXTENDS Placement, TLC

CONSTANTS p1, p2

MCWork == p1 :> {"bulk", "update"} @@ p2 :> {"append", "update"}

(* Two full pages, one of them all-visible. *)
MCTables == {<<[new |-> FALSE, used |-> 2, allVis |-> TRUE],
               [new |-> FALSE, used |-> 2, allVis |-> FALSE]>>}
============================================================================
