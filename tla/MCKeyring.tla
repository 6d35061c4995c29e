----------------------------- MODULE MCKeyring -----------------------------
(* Small instances of Keyring for TLC; the configurations give the constants. *)
EXTENDS Keyring
=============================================================================
