----------------------------- MODULE MCFastPath -----------------------------
(* The instance of FastPath for TLC. *)
EXTENDS FastPath

\* Every signature of up to three kinds.
ShortSigs == UNION {[1..n -> Kinds] : n \in 0..3}

\* n parameters: pointers at mask, another kind at most at one place.
Mixed(n, masks) ==
    {[j \in 1..n |-> IF j = at THEN kind ELSE IF j \in mask THEN P ELSE W] :
        mask \in masks, at \in 0..n, kind \in FloatKinds}

\* Up to one integer more than the masks are written out for, every mix of
\* pointers; up to one parameter more than there are wrappers for, at most one
\* pointer, first, in the middle or last.
LongSigs ==
    UNION {Mixed(n, SUBSET (1..n)) : n \in 4..7}
    \cup UNION {Mixed(n, {{}, {1}, {7}, {n}}) : n \in 8..16}

AllSigs == ShortSigs \cup LongSigs
=============================================================================
