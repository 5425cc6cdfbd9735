----------------------------- MODULE MCSyscallN -----------------------------
(* Instances of SyscallN for TLC. *)
EXTENDS SyscallN

\* No interface can be prepared for one argument.
SomePreparable == (0..Cap) \ {1}
=============================================================================
