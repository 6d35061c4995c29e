----------------------------- MODULE MCHeapPage -----------------------------
(* HeapPage with interchangeable keys. *)
EXTENDS HeapPage, TLC

Symmetry == Permutations(Key)
=============================================================================
