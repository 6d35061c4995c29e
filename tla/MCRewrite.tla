----------------------------- MODULE MCRewrite -----------------------------
(* Rewrite as it is: transactions and places are ordered, so no symmetry. *)
EXTENDS Rewrite
============================================================================
