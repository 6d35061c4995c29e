------------------------------ MODULE MCTdeMap ------------------------------
(* Small instances of TdeMap for TLC. *)
EXTENDS TdeMap, TLC

Environment(os, move) == [osCrash |-> os, moveSpace |-> move, reuseNumber |-> FALSE]
Kept == {Environment(FALSE, FALSE), Environment(TRUE, TRUE)}

Symmetry == Permutations(Backend) \cup Permutations(RelNumber)
=============================================================================
