------------------------------ MODULE MCDlopen ------------------------------
(* The instance of Dlopen for TLC. *)
EXTENDS Dlopen
=============================================================================
