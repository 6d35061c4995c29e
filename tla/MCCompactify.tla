---------------------------- MODULE MCCompactify ----------------------------
(* Small instances of Compactify for TLC. *)
EXTENDS Compactify
=============================================================================
