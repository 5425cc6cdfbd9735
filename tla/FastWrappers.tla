---------------------------- MODULE FastWrappers ----------------------------
(***************************************************************************)
(* The wrappers and the tables of zz_fast_func.go, as they stand in the    *)
(* file that is compiled: the functions fastInts{n}{F32,F64}{R,V}, the     *)
(* switch of registerFastFunc over them, and the closures written out in   *)
(* registerFastFuncInterleavedFloat32x1.                                   *)
(*                                                                         *)
(* A wrapper is the function forceFuncPtr installs: the kinds of its       *)
(* parameters, the parameters its body stores into ints and floats (a      *)
(* float by the bits of its width), the ones it keeps alive until C has    *)
(* returned, and whether it hands a result back.                           *)
(***************************************************************************)
EXTENDS Integers, Sequences

W == "word"
P == "ptr"
F == "f32"
D == "f64"

None == [none |-> TRUE]

\* What is stored of parameter j, in which form.
Stored(j, bits) == [from |-> j, bits |-> bits]

\* Mutant of Body: the last parameter is not kept alive.
BodyDropsLast(n, float) ==
    [ints   |-> [j \in 1..n |-> Stored(j, W)],
     floats |-> [j \in 1..Len(float) |-> Stored(n + 1, float[j])],
     keep   |-> 1..(n - 1)]

\* A body that stores the first n parameters, and a float behind them if there
\* is one, and keeps the n alive.
Body(n, float) ==
    [ints   |-> [j \in 1..n |-> Stored(j, W)],
     floats |-> [j \in 1..Len(float) |-> Stored(n + 1, float[j])],
     keep   |-> 1..n]

\* forceFuncPtr: what a call through the function variable then runs.
forceFuncPtr(params, body, ret) ==
    [params |-> params, ints |-> body.ints, floats |-> body.floats,
     keep |-> body.keep, result |-> ret]

\* fastInts{n}R and fastInts{n}V, without and with a trailing float.
fastInts0 == Body(0, <<>>)
fastInts1 == Body(1, <<>>)
fastInts2 == Body(2, <<>>)
fastInts3 == Body(3, <<>>)
fastInts4 == Body(4, <<>>)
fastInts5 == Body(5, <<>>)
fastInts6 == Body(6, <<>>)
fastInts7 == Body(7, <<>>)
fastInts8 == Body(8, <<>>)
fastInts9 == Body(9, <<>>)
fastInts10 == Body(10, <<>>)
fastInts11 == Body(11, <<>>)
fastInts12 == Body(12, <<>>)
fastInts13 == Body(13, <<>>)
fastInts14 == Body(14, <<>>)
fastInts15 == Body(15, <<>>)

fastInts0F32 == Body(0, <<F>>)
fastInts1F32 == Body(1, <<F>>)
fastInts2F32 == Body(2, <<F>>)
fastInts3F32 == Body(3, <<F>>)
fastInts4F32 == Body(4, <<F>>)
fastInts5F32 == Body(5, <<F>>)
fastInts6F32 == Body(6, <<F>>)
fastInts7F32 == Body(7, <<F>>)
fastInts8F32 == Body(8, <<F>>)
fastInts9F32 == Body(9, <<F>>)
fastInts10F32 == Body(10, <<F>>)
fastInts11F32 == Body(11, <<F>>)
fastInts12F32 == Body(12, <<F>>)
fastInts13F32 == Body(13, <<F>>)
fastInts14F32 == Body(14, <<F>>)

fastInts0F64 == Body(0, <<D>>)
fastInts1F64 == Body(1, <<D>>)
fastInts2F64 == Body(2, <<D>>)
fastInts3F64 == Body(3, <<D>>)
fastInts4F64 == Body(4, <<D>>)
fastInts5F64 == Body(5, <<D>>)
fastInts6F64 == Body(6, <<D>>)
fastInts7F64 == Body(7, <<D>>)
fastInts8F64 == Body(8, <<D>>)
fastInts9F64 == Body(9, <<D>>)
fastInts10F64 == Body(10, <<D>>)
fastInts11F64 == Body(11, <<D>>)
fastInts12F64 == Body(12, <<D>>)
fastInts13F64 == Body(13, <<D>>)
fastInts14F64 == Body(14, <<D>>)
-----------------------------------------------------------------------------
\* Every mix of pointers and words among few integers, words only among more.
Masks(n) == IF n <= 6 THEN SUBSET (0..(n - 1)) ELSE {{}}

\* The type arguments a case of ptrMask writes out.
Instance(n, mask) == [j \in 1..n |-> IF j - 1 \in mask THEN P ELSE W]

\* The three cases of floatBits.
IntOnly ==
    <<fastInts0, fastInts1, fastInts2, fastInts3, fastInts4,
      fastInts5, fastInts6, fastInts7, fastInts8, fastInts9,
      fastInts10, fastInts11, fastInts12, fastInts13, fastInts14,
      fastInts15>>

TrailingFloat32 ==
    <<fastInts0F32, fastInts1F32, fastInts2F32, fastInts3F32, fastInts4F32,
      fastInts5F32, fastInts6F32, fastInts7F32, fastInts8F32, fastInts9F32,
      fastInts10F32, fastInts11F32, fastInts12F32, fastInts13F32, fastInts14F32>>

TrailingFloat64 ==
    <<fastInts0F64, fastInts1F64, fastInts2F64, fastInts3F64, fastInts4F64,
      fastInts5F64, fastInts6F64, fastInts7F64, fastInts8F64, fastInts9F64,
      fastInts10F64, fastInts11F64, fastInts12F64, fastInts13F64, fastInts14F64>>

\* The case of floatBits, then the one of n.
Cases(float) == IF float = <<>> THEN IntOnly
                ELSE IF float = <<F>> THEN TrailingFloat32 ELSE TrailingFloat64

\* Mutant of registerFastFunc: the pointers are counted from the other end.
PointersReversed(n, mask, float, ret) ==
    IF n < Len(Cases(float)) /\ mask \in Masks(n)
    THEN forceFuncPtr(Instance(n, {n - 1 - k : k \in mask}) \o float,
                      Cases(float)[n + 1], ret)
    ELSE None

\* n integers with pointers where mask says so and float behind them; nothing
\* is installed when no case is there for them.
registerFastFunc(n, mask, float, ret) ==
    IF n < Len(Cases(float)) /\ mask \in Masks(n)
    THEN forceFuncPtr(Instance(n, mask) \o float, Cases(float)[n + 1], ret)
    ELSE None

-----------------------------------------------------------------------------
\* A closure with a float32 behind b words and a more words behind it; nothing
\* is kept alive, since nothing is a pointer.
Inline(b, a) ==
    [params |-> [j \in 1..(b + 1 + a) |-> IF j = b + 1 THEN F ELSE W],
     ints   |-> [j \in 1..(b + a) |-> Stored(IF j <= b THEN j ELSE j + 1, W)],
     floats |-> <<Stored(b + 1, F)>>,
     keep   |-> {}]

\* The closures by the number of parameters, in the order of floatPos.
Interleaved2 ==
    <<Inline(0, 1)>>
Interleaved3 ==
    <<Inline(0, 2), Inline(1, 1)>>
Interleaved4 ==
    <<Inline(0, 3), Inline(1, 2), Inline(2, 1)>>
Interleaved5 ==
    <<Inline(0, 4), Inline(1, 3), Inline(2, 2), Inline(3, 1)>>
Interleaved6 ==
    <<Inline(0, 5), Inline(1, 4), Inline(2, 3), Inline(3, 2),
      Inline(4, 1)>>
Interleaved7 ==
    <<Inline(0, 6), Inline(1, 5), Inline(2, 4), Inline(3, 3),
      Inline(4, 2), Inline(5, 1)>>
Interleaved8 ==
    <<Inline(0, 7), Inline(1, 6), Inline(2, 5), Inline(3, 4),
      Inline(4, 3), Inline(5, 2), Inline(6, 1)>>
Interleaved9 ==
    <<Inline(0, 8), Inline(1, 7), Inline(2, 6), Inline(3, 5),
      Inline(4, 4), Inline(5, 3), Inline(6, 2), Inline(7, 1)>>
Interleaved10 ==
    <<Inline(0, 9), Inline(1, 8), Inline(2, 7), Inline(3, 6),
      Inline(4, 5), Inline(5, 4), Inline(6, 3), Inline(7, 2),
      Inline(8, 1)>>
Interleaved11 ==
    <<Inline(0, 10), Inline(1, 9), Inline(2, 8), Inline(3, 7),
      Inline(4, 6), Inline(5, 5), Inline(6, 4), Inline(7, 3),
      Inline(8, 2), Inline(9, 1)>>
Interleaved12 ==
    <<Inline(0, 11), Inline(1, 10), Inline(2, 9), Inline(3, 8),
      Inline(4, 7), Inline(5, 6), Inline(6, 5), Inline(7, 4),
      Inline(8, 3), Inline(9, 2), Inline(10, 1)>>
Interleaved13 ==
    <<Inline(0, 12), Inline(1, 11), Inline(2, 10), Inline(3, 9),
      Inline(4, 8), Inline(5, 7), Inline(6, 6), Inline(7, 5),
      Inline(8, 4), Inline(9, 3), Inline(10, 2), Inline(11, 1)>>
Interleaved14 ==
    <<Inline(0, 13), Inline(1, 12), Inline(2, 11), Inline(3, 10),
      Inline(4, 9), Inline(5, 8), Inline(6, 7), Inline(7, 6),
      Inline(8, 5), Inline(9, 4), Inline(10, 3), Inline(11, 2),
      Inline(12, 1)>>

\* Mutant of Interleaved15: no case for the last position of the float.
Interleaved15Short ==
    [n \in 1..13 |-> Inline(n - 1, 15 - n)]

Interleaved15 ==
    <<Inline(0, 14), Inline(1, 13), Inline(2, 12), Inline(3, 11),
      Inline(4, 10), Inline(5, 9), Inline(6, 8), Inline(7, 7),
      Inline(8, 6), Inline(9, 5), Inline(10, 4), Inline(11, 3),
      Inline(12, 2), Inline(13, 1)>>

InterleavedCases ==
    <<Interleaved2, Interleaved3, Interleaved4, Interleaved5, Interleaved6,
      Interleaved7, Interleaved8, Interleaved9, Interleaved10, Interleaved11,
      Interleaved12, Interleaved13, Interleaved14, Interleaved15>>

\* Nothing is installed when no case is there for total and pos.
registerFastFuncInterleavedFloat32x1(total, pos, ret) ==
    IF total - 1 \in DOMAIN InterleavedCases
       /\ pos + 1 \in DOMAIN InterleavedCases[total - 1]
    THEN LET w == InterleavedCases[total - 1][pos + 1]
         IN forceFuncPtr(w.params, w, ret)
    ELSE None
=============================================================================
