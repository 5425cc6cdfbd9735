----------------------------- MODULE MCFastCall -----------------------------
(* Instances of FastCall for TLC. *)
EXTENDS FastCall, TLC

Symmetry == Permutations(Calls) \cup Permutations(Ctxs)

\* Kinds that lead each other's indices astray: a float in front, in the
\* middle and at the end, and a shorter signature that leaves old links over.
MixedSigs == {<<"int">>, <<"float", "int">>, <<"int", "float", "int">>,
              <<"int", "int", "float">>}
=============================================================================
