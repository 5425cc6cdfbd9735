--------------------------- MODULE MCReflectCall ---------------------------
(* Instances of ReflectCall for TLC. *)
EXTENDS ReflectCall, TLC

Symmetry == Permutations(Calls) \cup Permutations(Goroutines)
            \cup Permutations(Threads) \cup Permutations(Ctxs)

Shape(n, e, d, b) == [argc |-> n, hasErr |-> e, dynamic |-> d, buffered |-> b]

\* Calls without an error result, fixed and variadic, that fit a context of
\* two slots, and one that passes an argument too many.
PlainShapes == {Shape(1, FALSE, FALSE, TRUE), Shape(2, FALSE, TRUE, FALSE),
                Shape(3, FALSE, TRUE, FALSE)}

\* A call with an error result, whose thread matters, and a variadic one that
\* passes an argument too many for a context of two slots.
SafetyShapes == {Shape(2, TRUE, FALSE, FALSE), Shape(3, FALSE, TRUE, FALSE)}

\* The kinds of call that take different ways through the closure: an error
\* result next to a buffered one, no arguments and a result of the call's
\* own, and variadic tails, one of them too long.
MixedShapes == PlainShapes \cup
               {Shape(2, TRUE, FALSE, TRUE), Shape(0, FALSE, FALSE, FALSE)}
=============================================================================
