----------------------------- MODULE MCToastRow -----------------------------
(* Two attributes; one text can be compressed, the other cannot. *)
EXTENDS ToastRow

MCText == {"random", "regular"}
MCCompressible == {"regular"}
=============================================================================
