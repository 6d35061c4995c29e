--------------------------- MODULE MCXactHandler ---------------------------
(* Small instances of XactHandler for TLC. *)
EXTENDS XactHandler, TLC

Symmetry == Permutations(Path)
=============================================================================
