------------------------------ MODULE MCBlocks ------------------------------
(* The instance of Blocks for TLC. *)
EXTENDS Blocks

CONSTANTS f1, f2, f3, f4, u, v, w, x

\* A type each: whichever comes last of three finds no callback left, and the
\* fourth is refused by encode.
OwnTypes == [f \in {f1, f2, f3, f4} |->
               CASE f = f1 -> u [] f = f2 -> v [] f = f3 -> w [] f = f4 -> x]
=============================================================================
