----------------------------- MODULE MCRegister -----------------------------
(* The instance of Register for TLC: all signatures within the bounds. *)
EXTENDS Register
=============================================================================
