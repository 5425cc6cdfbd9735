--------------------------- MODULE FastPathProofs ---------------------------
(***************************************************************************)
(* Proofs about FastPath, for every signature of any length: the function  *)
(* that tryRegisterFastPath installs takes the registered function's       *)
(* parameters slot for slot, hands them to C in their order, keeps its     *)
(* pointers alive, and is there exactly for the eligible signatures.       *)
(***************************************************************************)
EXTENDS FastPath, SequenceTheorems, FiniteSetTheorems, TLAPS

-----------------------------------------------------------------------------
(* The wrappers without a float, one for each number of integers.           *)
LEMMA IntOnlyTable ==
  Len(IntOnly) = 16 /\ \A n \in 0..15 : IntOnly[n + 1] = Body(n, <<>>)
  BY DEF IntOnly, fastInts0, fastInts1, fastInts2, fastInts3, fastInts4,
     fastInts5, fastInts6, fastInts7, fastInts8, fastInts9, fastInts10,
     fastInts11, fastInts12, fastInts13, fastInts14, fastInts15

(* The wrappers with a trailing float32, one for each number of integers.   *)
LEMMA TrailingFloat32Table ==
  Len(TrailingFloat32) = 15 /\ \A n \in 0..14 : TrailingFloat32[n + 1] = Body(n, <<F>>)
  BY DEF TrailingFloat32, fastInts0F32, fastInts1F32, fastInts2F32,
     fastInts3F32, fastInts4F32, fastInts5F32, fastInts6F32, fastInts7F32,
     fastInts8F32, fastInts9F32, fastInts10F32, fastInts11F32, fastInts12F32,
     fastInts13F32, fastInts14F32

(* The wrappers with a trailing float64, one for each number of integers.   *)
LEMMA TrailingFloat64Table ==
  Len(TrailingFloat64) = 15 /\ \A n \in 0..14 : TrailingFloat64[n + 1] = Body(n, <<D>>)
  BY DEF TrailingFloat64, fastInts0F64, fastInts1F64, fastInts2F64,
     fastInts3F64, fastInts4F64, fastInts5F64, fastInts6F64, fastInts7F64,
     fastInts8F64, fastInts9F64, fastInts10F64, fastInts11F64, fastInts12F64,
     fastInts13F64, fastInts14F64

(* The closures with a float32 among words, one for each number of           *)
(* parameters and each place of the float but the last.                      *)
LEMMA InterleavedTable ==
  ASSUME NEW total \in 2..15
  PROVE  /\ total - 1 \in DOMAIN InterleavedCases
         /\ DOMAIN InterleavedCases[total - 1] = 1..(total - 1)
         /\ \A b \in 0..(total - 2) :
               InterleavedCases[total - 1][b + 1] = Inline(b, total - 1 - b)
  <1>2. /\ DOMAIN Interleaved2 = 1..1
        /\ \A b \in 0..0 : Interleaved2[b + 1] = Inline(b, 1 - b)
    BY DEF Interleaved2
  <1>3. /\ DOMAIN Interleaved3 = 1..2
        /\ \A b \in 0..1 : Interleaved3[b + 1] = Inline(b, 2 - b)
    BY DEF Interleaved3
  <1>4. /\ DOMAIN Interleaved4 = 1..3
        /\ \A b \in 0..2 : Interleaved4[b + 1] = Inline(b, 3 - b)
    BY DEF Interleaved4
  <1>5. /\ DOMAIN Interleaved5 = 1..4
        /\ \A b \in 0..3 : Interleaved5[b + 1] = Inline(b, 4 - b)
    BY DEF Interleaved5
  <1>6. /\ DOMAIN Interleaved6 = 1..5
        /\ \A b \in 0..4 : Interleaved6[b + 1] = Inline(b, 5 - b)
    BY DEF Interleaved6
  <1>7. /\ DOMAIN Interleaved7 = 1..6
        /\ \A b \in 0..5 : Interleaved7[b + 1] = Inline(b, 6 - b)
    BY DEF Interleaved7
  <1>8. /\ DOMAIN Interleaved8 = 1..7
        /\ \A b \in 0..6 : Interleaved8[b + 1] = Inline(b, 7 - b)
    BY DEF Interleaved8
  <1>9. /\ DOMAIN Interleaved9 = 1..8
        /\ \A b \in 0..7 : Interleaved9[b + 1] = Inline(b, 8 - b)
    BY DEF Interleaved9
  <1>10. /\ DOMAIN Interleaved10 = 1..9
        /\ \A b \in 0..8 : Interleaved10[b + 1] = Inline(b, 9 - b)
    BY DEF Interleaved10
  <1>11. /\ DOMAIN Interleaved11 = 1..10
        /\ \A b \in 0..9 : Interleaved11[b + 1] = Inline(b, 10 - b)
    BY DEF Interleaved11
  <1>12. /\ DOMAIN Interleaved12 = 1..11
        /\ \A b \in 0..10 : Interleaved12[b + 1] = Inline(b, 11 - b)
    BY DEF Interleaved12
  <1>13. /\ DOMAIN Interleaved13 = 1..12
        /\ \A b \in 0..11 : Interleaved13[b + 1] = Inline(b, 12 - b)
    BY DEF Interleaved13
  <1>14. /\ DOMAIN Interleaved14 = 1..13
        /\ \A b \in 0..12 : Interleaved14[b + 1] = Inline(b, 13 - b)
    BY DEF Interleaved14
  <1>15. /\ DOMAIN Interleaved15 = 1..14
        /\ \A b \in 0..13 : Interleaved15[b + 1] = Inline(b, 14 - b)
    BY DEF Interleaved15
  <1>1. /\ DOMAIN InterleavedCases = 1..14
        /\ InterleavedCases[1] = Interleaved2
        /\ InterleavedCases[2] = Interleaved3
        /\ InterleavedCases[3] = Interleaved4
        /\ InterleavedCases[4] = Interleaved5
        /\ InterleavedCases[5] = Interleaved6
        /\ InterleavedCases[6] = Interleaved7
        /\ InterleavedCases[7] = Interleaved8
        /\ InterleavedCases[8] = Interleaved9
        /\ InterleavedCases[9] = Interleaved10
        /\ InterleavedCases[10] = Interleaved11
        /\ InterleavedCases[11] = Interleaved12
        /\ InterleavedCases[12] = Interleaved13
        /\ InterleavedCases[13] = Interleaved14
        /\ InterleavedCases[14] = Interleaved15
    BY DEF InterleavedCases
  <1>16. CASE total = 2
    BY <1>1, <1>2, <1>16
  <1>17. CASE total = 3
    BY <1>1, <1>3, <1>17
  <1>18. CASE total = 4
    BY <1>1, <1>4, <1>18
  <1>19. CASE total = 5
    BY <1>1, <1>5, <1>19
  <1>20. CASE total = 6
    BY <1>1, <1>6, <1>20
  <1>21. CASE total = 7
    BY <1>1, <1>7, <1>21
  <1>22. CASE total = 8
    BY <1>1, <1>8, <1>22
  <1>23. CASE total = 9
    BY <1>1, <1>9, <1>23
  <1>24. CASE total = 10
    BY <1>1, <1>10, <1>24
  <1>25. CASE total = 11
    BY <1>1, <1>11, <1>25
  <1>26. CASE total = 12
    BY <1>1, <1>12, <1>26
  <1>27. CASE total = 13
    BY <1>1, <1>13, <1>27
  <1>28. CASE total = 14
    BY <1>1, <1>14, <1>28
  <1>29. CASE total = 15
    BY <1>1, <1>15, <1>29
  <1> QED BY <1>16, <1>17, <1>18, <1>19, <1>20, <1>21, <1>22, <1>23, <1>24,
     <1>25, <1>26, <1>27, <1>28, <1>29

(* What stands behind the integers: nothing, or one float of either width.   *)
FloatTails == {<<>>, <<F>>, <<D>>}

(* It is a sequence of kinds, with one float at most.                        *)
LEMMA FloatTail ==
  ASSUME NEW float \in FloatTails
  PROVE  /\ float \in Seq(Kinds)
         /\ Len(float) \in {0, 1}
         /\ Len(float) = 0 => float = <<>>
         /\ Len(float) = 1 => float # <<>> /\ float[1] \in FloatKinds
  <1>1. CASE float = <<>>
    BY <1>1
  <1>2. CASE float = <<F>>
    <2>1. F \in Kinds /\ F \in FloatKinds
      BY DEF F, Kinds, FloatKinds
    <2>2. float \in Seq(Kinds) /\ float[1] = F
      BY <1>2, <2>1
    <2>3. Len(float) = 1
      BY <1>2
    <2>4. float # <<>>
      BY <2>3
    <2> QED BY <2>1, <2>2, <2>3, <2>4
  <1>3. CASE float = <<D>>
    <2>1. D \in Kinds /\ D \in FloatKinds
      BY DEF D, Kinds, FloatKinds
    <2>2. float \in Seq(Kinds) /\ float[1] = D
      BY <1>3, <2>1
    <2>3. Len(float) = 1
      BY <1>3
    <2>4. float # <<>>
      BY <2>3
    <2> QED BY <2>1, <2>2, <2>3, <2>4
  <1> QED BY <1>1, <1>2, <1>3 DEF FloatTails

(* The cases of registerFastFunc by the float behind the integers.           *)
LEMMA CasesTable ==
  ASSUME NEW float \in FloatTails
  PROVE  /\ Len(Cases(float)) = 16 - Len(float)
         /\ \A n \in Nat : n < Len(Cases(float)) => Cases(float)[n + 1] = Body(n, float)
  <1>1. CASE float = <<>>
    <2>1. Cases(float) = IntOnly /\ Len(float) = 0
      BY <1>1 DEF Cases
    <2> QED BY <1>1, <2>1, IntOnlyTable, SMTT(60)
  <1>2. CASE float = <<F>>
    <2>1. Len(float) = 1
      BY <1>2
    <2>2. float # <<>>
      BY <2>1
    <2>3. Cases(float) = TrailingFloat32
      BY <1>2, <2>2 DEF Cases
    <2>4. Len(Cases(float)) = 15 /\ 16 - Len(float) = 15
      BY <2>1, <2>3, TrailingFloat32Table
    <2>5. ASSUME NEW n \in Nat, n < 15 PROVE Cases(float)[n + 1] = Body(n, float)
      <3>1. n \in 0..14
        BY <2>5
      <3> QED BY <1>2, <2>3, <3>1, TrailingFloat32Table
    <2> QED BY <2>4, <2>5
  <1>3. CASE float = <<D>>
    <2>1. Len(float) = 1 /\ float[1] = D /\ <<F>>[1] = F
      BY <1>3
    <2>2. float # <<>>
      BY <2>1
    <2>3. F # D
      BY DEF F, D
    <2>4. float # <<F>>
      BY <2>1, <2>3
    <2>5. Cases(float) = TrailingFloat64
      BY <2>2, <2>4 DEF Cases
    <2>6. Len(Cases(float)) = 15 /\ 16 - Len(float) = 15
      BY <2>1, <2>5, TrailingFloat64Table
    <2>7. ASSUME NEW n \in Nat, n < 15 PROVE Cases(float)[n + 1] = Body(n, float)
      <3>1. n \in 0..14
        BY <2>7
      <3> QED BY <1>3, <2>5, <3>1, TrailingFloat64Table
    <2> QED BY <2>6, <2>7
  <1> QED BY <1>1, <1>2, <1>3 DEF FloatTails

-----------------------------------------------------------------------------
(* What a wrapper with its floats behind the integers is, and one with a     *)
(* float32 at place p among words.                                           *)
TrailingWrapper(s, n, float, r) ==
    [params |-> s, ints |-> [j \in 1..n |-> Stored(j, W)],
     floats |-> [j \in 1..Len(float) |-> Stored(n + 1, float[j])],
     keep |-> 1..n, result |-> r]

InterleavedWrapper(s, p, r) ==
    [params |-> s,
     ints |-> [j \in 1..(Len(s) - 1) |-> Stored(IF j <= p THEN j ELSE j + 1, W)],
     floats |-> <<Stored(p + 1, F)>>, keep |-> {}, result |-> r]

(* Wrappers are not nothing.                                                 *)
LEMMA WrapperNotNone ==
  ASSUME NEW s, NEW n, NEW float, NEW r
  PROVE  TrailingWrapper(s, n, float, r) # None /\ InterleavedWrapper(s, n, r) # None
  <1>1. "params" \in DOMAIN TrailingWrapper(s, n, float, r)
    BY DEF TrailingWrapper
  <1>2. "params" \in DOMAIN InterleavedWrapper(s, n, r)
    BY DEF InterleavedWrapper
  <1>3. "params" \notin DOMAIN None
    BY DEF None
  <1> QED BY <1>1, <1>2, <1>3

(* A signature of n integers, and a float behind them or nothing.            *)
FloatLast(s, n, float) ==
    /\ Len(s) = n + Len(float)
    /\ \A k \in 1..n : s[k] \in IntKinds
    /\ float # <<>> => s[n + 1] = float[1]

(* A signature with one float, at place p, which is not the last.            *)
FloatAmong(s, p) ==
    /\ p \in 0..(Len(s) - 2) /\ s[p + 1] \in FloatKinds
    /\ \A m \in 1..Len(s) : m # p + 1 => s[m] \in IntKinds

(* registerFastFunc installs a wrapper of the function's own slots, when its *)
(* switch has a case (zz_fast_func.go:63-72).                                *)
LEMMA TrailingInstalled ==
  ASSUME NEW s \in Seq(Kinds), NEW n \in Nat, NEW mask \in SUBSET (0..(n - 1)),
         NEW float \in FloatTails, NEW r, FloatLast(s, n, float),
         \A k \in 0..(n - 1) : k \in mask <=> s[k + 1] = "ptr",
         n < Len(Cases(float)), mask \in Masks(n)
  PROVE  registerFastFunc(n, mask, float, r) = TrailingWrapper(s, n, float, r)
  <1>1. PICK q : q = Instance(n, mask)
    OBVIOUS
  <1>2. q \in Seq(Kinds) /\ Len(q) = n /\ \A j \in 1..n : q[j] = IF j - 1 \in mask THEN P ELSE W
    BY <1>1 DEF Instance, Kinds, P, W
  <1>3. float \in Seq(Kinds) /\ Len(float) \in {0, 1} /\ (Len(float) = 1 => float # <<>>)
    BY FloatTail
  <1>4. ASSUME NEW j \in 1..n PROVE q[j] = s[j]
    <2>1. j - 1 \in 0..(n - 1) /\ (j - 1) + 1 = j
      BY <1>4
    <2>2. s[j] \in IntKinds /\ (j - 1 \in mask <=> s[j] = "ptr")
      BY <1>4, <2>1 DEF FloatLast
    <2> QED BY <1>2, <1>4, <2>2 DEF IntKinds, P, W
  <1>5. q \o float \in Seq(Kinds) /\ Len(q \o float) = n + Len(float)
        /\ \A j \in 1..(n + Len(float)) :
              (q \o float)[j] = IF j <= n THEN q[j] ELSE float[j - n]
    <2>1. q \in Seq(Kinds) /\ float \in Seq(Kinds) /\ Len(q) = n
      BY <1>2, <1>3
    <2>2. q \o float \in Seq(Kinds) /\ Len(q \o float) = Len(q) + Len(float)
          /\ \A j \in 1..(Len(q) + Len(float)) :
                (q \o float)[j] = IF j <= Len(q) THEN q[j] ELSE float[j - Len(q)]
      BY <2>1, ConcatProperties
    <2> QED BY <2>1, <2>2
  <1>6. ASSUME NEW j \in 1..(n + Len(float)) PROVE (q \o float)[j] = s[j]
    <2>1. CASE j <= n
      BY <1>4, <1>5, <1>6, <2>1
    <2>2. CASE ~(j <= n)
      <3>1. Len(float) = 1
        BY <1>3, <1>6, <2>2
      <3>2. j = n + 1 /\ j - n = 1
        BY <1>6, <2>2, <3>1
      <3>3. s[n + 1] = float[1]
        BY <1>3, <3>1 DEF FloatLast
      <3> QED BY <1>5, <1>6, <2>2, <3>2, <3>3
    <2> QED BY <2>1, <2>2
  <1>7. q \o float = s
    <2>1. Len(s) = n + Len(float)
      BY DEF FloatLast
    <2> QED BY <1>5, <1>6, <2>1, SeqEqual
  <1>8. Cases(float)[n + 1] = Body(n, float)
    BY CasesTable
  <1> QED BY <1>1, <1>7, <1>8
      DEF registerFastFunc, forceFuncPtr, Body, TrailingWrapper

(* registerFastFuncInterleavedFloat32x1 has a case for every place of the    *)
(* float and every number of parameters.                                     *)
LEMMA InterleavedInstalled ==
  ASSUME NEW s \in Seq(Kinds), NEW p, FloatAmong(s, p), Len(s) <= 15, s[p + 1] = "f32",
         \A m \in 1..Len(s) : s[m] # "ptr", NEW r
  PROVE  registerFastFuncInterleavedFloat32x1(Len(s), p, r) = InterleavedWrapper(s, p, r)
  <1>1. PICK n : n = Len(s)
    OBVIOUS
  <1>2. n \in Nat
    BY <1>1, LenProperties
  <1>3. p \in 0..(n - 2) /\ n \in 2..15
    <2>1. p \in 0..(n - 2) /\ n <= 15
      BY <1>1 DEF FloatAmong
    <2> QED BY <1>2, <2>1
  <1>4. /\ n - 1 \in DOMAIN InterleavedCases /\ p + 1 \in DOMAIN InterleavedCases[n - 1]
        /\ InterleavedCases[n - 1][p + 1] = Inline(p, n - 1 - p)
    <2>1. /\ n - 1 \in DOMAIN InterleavedCases
          /\ DOMAIN InterleavedCases[n - 1] = 1..(n - 1)
          /\ \A b \in 0..(n - 2) : InterleavedCases[n - 1][b + 1] = Inline(b, n - 1 - b)
      BY <1>3, InterleavedTable
    <2>2. p + 1 \in 1..(n - 1)
      BY <1>3
    <2> QED BY <1>3, <2>1, <2>2
  <1>5. p + 1 + (n - 1 - p) = n /\ p + (n - 1 - p) = n - 1
    BY <1>3
  <1>6. Inline(p, n - 1 - p) =
          [params |-> [j \in 1..n |-> IF j = p + 1 THEN F ELSE W],
           ints |-> [j \in 1..(n - 1) |-> Stored(IF j <= p THEN j ELSE j + 1, W)],
           floats |-> <<Stored(p + 1, F)>>, keep |-> {}]
    BY <1>5 DEF Inline
  <1>7. [j \in 1..n |-> IF j = p + 1 THEN F ELSE W] = s
    <2>1. \A j \in 1..n : s[j] = IF j = p + 1 THEN F ELSE W
      BY <1>1 DEF FloatAmong, IntKinds, F, W
    <2>2. s = [j \in 1..n |-> s[j]]
      <3>1. s \in [1..n -> Kinds]
        BY <1>1, LenProperties
      <3> QED BY <3>1
    <2>3. [j \in 1..n |-> IF j = p + 1 THEN F ELSE W] = [j \in 1..n |-> s[j]]
      BY <2>1
    <2> QED BY <2>2, <2>3
  <1>8. PICK w : w = Inline(p, n - 1 - p)
    OBVIOUS
  <1>9. registerFastFuncInterleavedFloat32x1(n, p, r) = forceFuncPtr(w.params, w, r)
    BY <1>4, <1>8 DEF registerFastFuncInterleavedFloat32x1
  <1>10. /\ w.params = s /\ w.floats = <<Stored(p + 1, F)>> /\ w.keep = {}
         /\ w.ints = [j \in 1..(n - 1) |-> Stored(IF j <= p THEN j ELSE j + 1, W)]
    <2>1. PICK ints : ints = [j \in 1..(n - 1) |-> Stored(IF j <= p THEN j ELSE j + 1, W)]
      OBVIOUS
    <2>2. PICK floats : floats = <<Stored(p + 1, F)>>
      OBVIOUS
    <2>3. w = [params |-> s, ints |-> ints, floats |-> floats, keep |-> {}]
      BY <1>6, <1>7, <1>8, <2>1, <2>2, Zenon
    <2>4. w.params = s /\ w.ints = ints /\ w.floats = floats /\ w.keep = {}
      BY <2>3
    <2> QED BY <2>1, <2>2, <2>4
  <1> QED BY <1>1, <1>9, <1>10 DEF forceFuncPtr, InterleavedWrapper

-----------------------------------------------------------------------------
(* Counting the parameters in front of one (fastCallIF, zz_fast_func.go:     *)
(* 40-61): all of them are of the kinds.                                     *)
LEMMA BeforeAll ==
  ASSUME NEW s, NEW K, NEW n \in Nat \ {0}, \A m \in 1..(n - 1) : s[m] \in K
  PROVE  Before(s, n, K) = n - 1
  <1>1. {m \in 1..(n - 1) : s[m] \in K} = 1..(n - 1)
    OBVIOUS
  <1>2. Cardinality(1..(n - 1)) = n - 1
    BY FS_Interval
  <1> QED BY <1>1, <1>2 DEF Before

(* None of the parameters in front is of the kinds.                           *)
LEMMA BeforeNone ==
  ASSUME NEW s, NEW K, NEW n \in Nat \ {0}, \A m \in 1..(n - 1) : s[m] \notin K
  PROVE  Before(s, n, K) = 0
  <1>1. {m \in 1..(n - 1) : s[m] \in K} = {}
    OBVIOUS
  <1> QED BY <1>1, FS_EmptySet DEF Before

(* All of them but the one at p are.                                         *)
LEMMA BeforeAllButOne ==
  ASSUME NEW s, NEW K, NEW n \in Nat \ {0}, NEW p \in 1..(n - 1), s[p] \notin K,
         \A m \in 1..(n - 1) : m # p => s[m] \in K
  PROVE  Before(s, n, K) = n - 2
  <1>1. {m \in 1..(n - 1) : s[m] \in K} = (1..(n - 1)) \ {p}
    OBVIOUS
  <1>2. IsFiniteSet(1..(n - 1)) /\ Cardinality(1..(n - 1)) = n - 1
    BY FS_Interval
  <1>3. Cardinality((1..(n - 1)) \ {p}) = Cardinality(1..(n - 1)) - 1
    BY <1>2, FS_RemoveElement
  <1>4. n - 1 - 1 = n - 2
    OBVIOUS
  <1> QED BY <1>1, <1>2, <1>3, <1>4 DEF Before

(* The arguments as C should get them.                                       *)
InOrder(s) == [n \in 1..Len(s) |-> Stored(n, IF s[n] \in FloatKinds THEN s[n] ELSE W)]

(* fastCallIF undoes what a wrapper with its float behind has done           *)
(* (zz_fast_func.go:40-61).                                                  *)
LEMMA TrailingGathered ==
  ASSUME NEW s \in Seq(Kinds), NEW n \in Nat, NEW float \in FloatTails, NEW r,
         FloatLast(s, n, float)
  PROVE  LET w == TrailingWrapper(s, n, float, r) IN Gathered(s, w.ints, w.floats) = InOrder(s)
  <1>1. PICK ints : ints = [j \in 1..n |-> Stored(j, W)]
    OBVIOUS
  <1>2. PICK floats : floats = [j \in 1..Len(float) |-> Stored(n + 1, float[j])]
    OBVIOUS
  <1>3. Len(float) \in {0, 1} /\ (Len(float) = 1 => float # <<>> /\ float[1] \in FloatKinds)
    BY FloatTail
  <1>4. Len(ints) = n /\ Len(floats) = Len(float)
    BY <1>1, <1>2, <1>3
  <1>5. \A m \in 1..n : s[m] \notin FloatKinds /\ s[m] \in Kinds \ FloatKinds
    BY DEF FloatLast, IntKinds, FloatKinds, Kinds
  <1>6. ASSUME NEW m \in 1..Len(s)
        PROVE  Taken(s, ints, floats, m) = Stored(m, IF s[m] \in FloatKinds THEN s[m] ELSE W)
    <2>1. CASE m <= n
      <3>1. m \in 1..n /\ m \in Nat \ {0}
        BY <1>6, <2>1
      <3>2. Before(s, m, Kinds \ FloatKinds) = m - 1
        BY <1>5, <3>1, BeforeAll
      <3>3. m - 1 + 1 = m /\ s[m] \notin FloatKinds /\ ints[m] = Stored(m, W)
        BY <1>1, <1>5, <3>1
      <3> QED BY <1>4, <2>1, <3>2, <3>3 DEF Taken
    <2>2. CASE ~(m <= n)
      <3>0. Len(s) = n + Len(float)
        BY DEF FloatLast
      <3>1. m = n + 1 /\ Len(float) = 1
        <4>1. PICK l : l = Len(float)
          OBVIOUS
        <4>2. l \in {0, 1} /\ m \in 1..(n + l)
          BY <1>3, <1>6, <3>0, <4>1
        <4>3. m = n + 1 /\ l = 1
          BY <2>2, <4>2
        <4> QED BY <4>1, <4>3
      <3>2. s[m] = float[1] /\ s[m] \in FloatKinds
        BY <1>3, <3>1 DEF FloatLast
      <3>3. Before(s, m, FloatKinds) = 0
        <4>1. m \in Nat \ {0} /\ \A k \in 1..(m - 1) : k \in 1..n
          BY <3>1
        <4>2. \A k \in 1..(m - 1) : s[k] \notin FloatKinds
          BY <1>5, <4>1
        <4> QED BY <4>1, <4>2, BeforeNone
      <3>4. floats[1] = Stored(m, s[m])
        <4>1. 1 \in 1..Len(float)
          BY <3>1
        <4> QED BY <1>2, <3>1, <3>2, <4>1
      <3>5. Before(s, m, FloatKinds) + 1 = 1 /\ 1 <= Len(floats)
        BY <1>4, <3>1, <3>3
      <3> QED BY <3>2, <3>4, <3>5 DEF Taken
    <2> QED BY <2>1, <2>2
  <1>7. Gathered(s, ints, floats) = InOrder(s)
    BY <1>6 DEF Gathered, InOrder
  <1> QED BY <1>1, <1>2, <1>7 DEF TrailingWrapper

(* The same for a closure with a float32 among words.                        *)
LEMMA InterleavedGathered ==
  ASSUME NEW s \in Seq(Kinds), NEW p, FloatAmong(s, p), s[p + 1] = "f32", NEW r
  PROVE  LET w == InterleavedWrapper(s, p, r) IN Gathered(s, w.ints, w.floats) = InOrder(s)
  <1>0. PICK n : n = Len(s)
    OBVIOUS
  <1>1. n \in Nat /\ p \in 0..(n - 2)
    BY <1>0, LenProperties DEF FloatAmong
  <1>2. PICK ints : ints = [j \in 1..(n - 1) |-> Stored(IF j <= p THEN j ELSE j + 1, W)]
    OBVIOUS
  <1>3. PICK floats : floats = <<Stored(p + 1, F)>>
    OBVIOUS
  <1>4. Len(ints) = n - 1 /\ Len(floats) = 1 /\ floats[1] = Stored(p + 1, F)
    BY <1>1, <1>2, <1>3
  <1>5. \A m \in 1..n : m # p + 1 => s[m] \notin FloatKinds /\ s[m] \in Kinds \ FloatKinds
    BY <1>0 DEF FloatAmong, IntKinds, FloatKinds, Kinds
  <1>6. s[p + 1] \in FloatKinds /\ s[p + 1] = F
    BY DEF FloatKinds, F
  <1>7. ASSUME NEW m \in 1..n
        PROVE  Taken(s, ints, floats, m) = Stored(m, IF s[m] \in FloatKinds THEN s[m] ELSE W)
    <2>0. m \in Nat \ {0}
      BY <1>7
    <2>1. CASE m <= p
      <3>1. \A j \in 1..(m - 1) : j \in 1..n /\ j # p + 1
        BY <1>1, <1>7, <2>1
      <3>2. Before(s, m, Kinds \ FloatKinds) = m - 1
        BY <1>5, <2>0, <3>1, BeforeAll
      <3>3. m - 1 + 1 = m /\ m <= n - 1 /\ m \in 1..(n - 1) /\ m # p + 1
        BY <1>1, <1>7, <2>1
      <3>4. s[m] \notin FloatKinds /\ ints[m] = Stored(m, W)
        BY <1>2, <1>5, <1>7, <2>1, <3>3
      <3> QED BY <1>4, <3>2, <3>3, <3>4 DEF Taken
    <2>2. CASE m = p + 1
      <3>1. \A j \in 1..(m - 1) : j \in 1..n /\ j # p + 1
        BY <1>1, <2>2
      <3>2. \A j \in 1..(m - 1) : s[j] \notin FloatKinds
        BY <1>5, <3>1
      <3>3. Before(s, m, FloatKinds) = 0
        BY <2>0, <3>2, BeforeNone
      <3>4. Before(s, m, FloatKinds) + 1 = 1 /\ 1 <= Len(floats)
        BY <1>4, <3>3
      <3>5. s[m] \in FloatKinds /\ floats[1] = Stored(m, s[m])
        BY <1>4, <1>6, <2>2
      <3> QED BY <3>4, <3>5 DEF Taken
    <2>3. CASE m > p + 1
      <3>1. /\ p + 1 \in 1..(m - 1)
            /\ \A j \in 1..(m - 1) : j \in 1..n
            /\ s[p + 1] \notin Kinds \ FloatKinds
        BY <1>1, <1>6, <1>7, <2>3
      <3>2. Before(s, m, Kinds \ FloatKinds) = m - 2
        BY <1>5, <2>0, <3>1, BeforeAllButOne
      <3>3. m - 2 + 1 = m - 1 /\ m - 1 <= n - 1 /\ m - 1 \in 1..(n - 1) /\ m # p + 1
            /\ ~(m - 1 <= p) /\ (m - 1) + 1 = m
        BY <1>1, <1>7, <2>3
      <3>4. s[m] \notin FloatKinds /\ ints[m - 1] = Stored(m, W)
        BY <1>2, <1>5, <1>7, <3>3
      <3> QED BY <1>4, <3>2, <3>3, <3>4 DEF Taken
    <2> QED BY <1>1, <2>0, <2>1, <2>2, <2>3
  <1>8. Gathered(s, ints, floats) = InOrder(s)
    BY <1>0, <1>7 DEF Gathered, InOrder
  <1> QED BY <1>0, <1>2, <1>3, <1>8 DEF InterleavedWrapper

-----------------------------------------------------------------------------
(* Which signatures are eligible, by where their floats are: pointers only   *)
(* among few integers, with the float behind them;                           *)
LEMMA EligibleTrailing ==
  ASSUME sig \in Seq(Kinds), NEW n \in Nat, NEW float \in FloatTails, FloatLast(sig, n, float)
  PROVE  Eligible <=> /\ SupportedOS /\ Len(sig) <= 15 /\ ret # "other"
                      /\ Pointers(sig) = {} \/ n <= 6
  <1>1. PICK floats : floats = {m \in 1..Len(sig) : sig[m] \in FloatKinds}
    OBVIOUS
  <1>2. PICK l : l = Len(float)
    OBVIOUS
  <1>3. l \in {0, 1} /\ Len(sig) = n + l /\ (l = 1 => sig[n + 1] \in FloatKinds)
    BY <1>2, FloatTail DEF FloatLast
  <1>4. \A m \in 1..n : sig[m] \in IntKinds /\ sig[m] \notin FloatKinds /\ sig[m] # "other"
    BY DEF FloatLast, IntKinds, FloatKinds
  <1>5. Cardinality(floats) = l /\ floats \subseteq {Len(sig)}
    <2>1. CASE l = 0
      <3>1. floats = {}
        BY <1>1, <1>3, <1>4, <2>1
      <3> QED BY <2>1, <3>1, FS_EmptySet
    <2>2. CASE l = 1
      <3>1. floats = {n + 1} /\ Len(sig) = n + 1
        BY <1>1, <1>3, <1>4, <2>2
      <3> QED BY <2>2, <3>1, FS_Singleton
    <2> QED BY <1>3, <2>1, <2>2
  <1>6. \A m \in 1..Len(sig) : sig[m] # "other"
    <2>1. ASSUME NEW m \in 1..Len(sig) PROVE sig[m] # "other"
      <3>1. CASE m \in 1..n
        BY <1>4, <3>1
      <3>2. CASE m \notin 1..n
        <4>1. m = n + 1 /\ l = 1
          BY <1>3, <2>1, <3>2
        <4> QED BY <1>3, <4>1 DEF FloatKinds
      <3> QED BY <3>1, <3>2
    <2> QED BY <2>1
  <1>7. Len(sig) - Cardinality(floats) = n /\ Cardinality(floats) <= 1
    BY <1>3, <1>5
  <1> QED BY <1>1, <1>5, <1>6, <1>7 DEF Eligible

(* no pointers around a float32 that is not the last parameter;              *)
LEMMA EligibleAmong ==
  ASSUME sig \in Seq(Kinds), NEW p, FloatAmong(sig, p)
  PROVE  Eligible <=> /\ SupportedOS /\ Len(sig) <= 15 /\ ret # "other"
                      /\ Pointers(sig) = {} /\ sig[p + 1] = "f32"
  <1>1. PICK floats : floats = {m \in 1..Len(sig) : sig[m] \in FloatKinds}
    OBVIOUS
  <1>2. PICK n : n = Len(sig)
    OBVIOUS
  <1>3. n \in Nat /\ p \in 0..(n - 2)
    BY <1>2, LenProperties DEF FloatAmong
  <1>4. \A m \in 1..n : m # p + 1 => sig[m] \notin FloatKinds /\ sig[m] # "other"
    BY <1>2 DEF FloatAmong, IntKinds, FloatKinds
  <1>5. sig[p + 1] \in FloatKinds /\ sig[p + 1] # "other"
    BY DEF FloatAmong, FloatKinds
  <1>6. p + 1 \in 1..n /\ p + 1 # n
    BY <1>3
  <1>7. floats = {p + 1}
    BY <1>1, <1>2, <1>4, <1>5, <1>6
  <1>8. Cardinality(floats) = 1
    BY <1>7, FS_Singleton
  <1>9. \A m \in 1..n : sig[m] # "other"
    BY <1>4, <1>5
  <1>10. ~(floats \subseteq {n})
    BY <1>6, <1>7
  <1>11. (\A m \in floats : sig[m] = "f32") <=> sig[p + 1] = "f32"
    BY <1>7
  <1>12. PICK c : c = Cardinality(floats)
    OBVIOUS
  <1>13. c <= 1
    BY <1>8, <1>12
  <1> QED BY <1>1, <1>2, <1>9, <1>10, <1>11, <1>12, <1>13 DEF Eligible

(* and never two floats.                                                     *)
LEMMA EligibleMany ==
  ASSUME sig \in Seq(Kinds), NEW m \in 1..Len(sig), NEW k \in 1..Len(sig), m # k,
         sig[m] \in FloatKinds, sig[k] \in FloatKinds
  PROVE  ~Eligible
  <1>1. PICK floats : floats = {j \in 1..Len(sig) : sig[j] \in FloatKinds}
    OBVIOUS
  <1>2. PICK n : n = Len(sig)
    OBVIOUS
  <1>3. n \in Nat
    BY <1>2, LenProperties
  <1>4. IsFiniteSet(1..n) /\ floats \subseteq 1..n
    BY <1>1, <1>2, <1>3, FS_Interval
  <1>5. IsFiniteSet(floats)
    BY <1>4, FS_Subset
  <1>6. IsFiniteSet({m}) /\ Cardinality({m}) = 1
    BY FS_Singleton
  <1>7. Cardinality({m} \cup {k}) = 2
    <2>1. k \notin {m}
      OBVIOUS
    <2>2. Cardinality({m} \cup {k}) = Cardinality({m}) + 1
      BY <1>6, <2>1, FS_AddElement
    <2>3. 1 + 1 = 2
      OBVIOUS
    <2> QED BY <1>6, <2>2, <2>3, ZenonT(60)
  <1>8. {m} \cup {k} \in SUBSET floats
    BY <1>1
  <1>9. Cardinality({m} \cup {k}) <= Cardinality(floats)
    BY <1>5, <1>8, FS_Subset
  <1>10. Cardinality(floats) \in Nat
    BY <1>5, FS_CardinalityType
  <1>11. ~(Cardinality(floats) <= 1)
    <2>1. PICK c : c = Cardinality(floats)
      OBVIOUS
    <2>2. c \in Nat /\ 2 <= c
      BY <1>7, <1>9, <1>10, <2>1
    <2>3. ~(c <= 1)
      BY <2>2
    <2> QED BY <2>1, <2>3
  <1> QED BY <1>1, <1>11 DEF Eligible

-----------------------------------------------------------------------------
(* How a call of tryRegisterFastPath may end: refusing what is not eligible, *)
LEMMA RejectDecided ==
  ASSUME TypeOK, wrapper = None, Reject, ~Eligible
  PROVE  TypeOK' /\ Decided'
  <1>1. /\ pc' = "done" /\ accepted' = FALSE /\ wrapper' = None
        /\ sig' = sig /\ ret' = ret /\ locals' = locals
    BY DEF Reject
  <1>2. TypeOK'
    BY <1>1 DEF TypeOK, locals
  <1>3. ~Eligible'
    BY <1>1 DEF Eligible, Pointers
  <1> QED BY <1>1, <1>2, <1>3
      DEF Decided, AcceptedInstalled, SlotsAgree, ArgumentsInPlace, PointersKept, AcceptsEligible

(* or installing a wrapper that fits what is.                                *)
LEMMA InstallDecided ==
  ASSUME TypeOK, NEW w, Install(w), w # None, w.params = sig, w.result = hasReturn,
         Gathered(sig, w.ints, w.floats) = InOrder(sig), Pointers(sig) \subseteq w.keep, Eligible
  PROVE  TypeOK' /\ Decided'
  <1>1. /\ pc' = "done" /\ accepted' = TRUE /\ wrapper' = w
        /\ sig' = sig /\ ret' = ret /\ locals' = locals
    BY DEF Install
  <1>2. TypeOK'
    BY <1>1 DEF TypeOK, locals
  <1>3. Eligible'
    BY <1>1 DEF Eligible, Pointers
  <1>4. ArgumentsInPlace'
    <2>1. Gathered(sig, w.ints, w.floats)
            = [n \in 1..Len(sig) |-> Stored(n, IF sig[n] \in FloatKinds THEN sig[n] ELSE W)]
      BY DEF InOrder
    <2>2. Gathered(sig', wrapper'.ints, wrapper'.floats)
            = [n \in 1..Len(sig') |-> Stored(n, IF sig'[n] \in FloatKinds THEN sig'[n] ELSE W)]
      BY <1>1, <2>1, Zenon
    <2> QED BY <2>2 DEF ArgumentsInPlace
  <1>5. PointersKept'
    BY <1>1 DEF PointersKept, Pointers
  <1>6. SlotsAgree'
    BY <1>1 DEF SlotsAgree, hasReturn
  <1> QED BY <1>1, <1>2, <1>3, <1>4, <1>5, <1>6
      DEF Decided, AcceptedInstalled, AcceptsEligible

(* Before that there is no wrapper, and nothing has been answered.           *)
LEMMA NotDecided ==
  ASSUME pc # "done", wrapper = None
  PROVE  Decided
  BY DEF Decided, AcceptedInstalled, SlotsAgree, ArgumentsInPlace, PointersKept, AcceptsEligible

(* What the decision reads off the scan's locals: the pointers are in the    *)
(* mask, and nothing stopped the scan.                                       *)
LEMMA ScanEnded ==
  ASSUME TypeOK, Scanned, pc = "decide"
  PROVE  /\ Counted /\ FloatsSeen /\ wrapper = None /\ sig \in Seq(Kinds)
         /\ i = Len(sig) /\ numInts + numFloats = Len(sig)
         /\ SupportedOS /\ Len(sig) <= 15
         /\ Pointers(sig) = {} <=> ptrMask = {}
  <1>1. Counted /\ FloatsSeen /\ wrapper = None /\ sig \in Seq(Kinds)
    BY DEF Scanned, TypeOK
  <1>2. i = Len(sig) /\ ~Unsupported /\ numInts + numFloats = i
    BY <1>1 DEF Counted
  <1>3. PICK n : n = Len(sig)
    OBVIOUS
  <1>4. n \in Nat
    BY <1>1, <1>3, LenProperties
  <1>5. SupportedOS /\ n <= 15
    BY <1>2, <1>3, <1>4 DEF Unsupported
  <1>6. Pointers(sig) = {} <=> ptrMask = {}
    BY <1>1, <1>2 DEF Counted, Pointers
  <1> QED BY <1>1, <1>2, <1>3, <1>5, <1>6

(* The end of the scan without a float among the integers.                   *)
LEMMA TrailingDecided ==
  ASSUME TypeOK, Scanned, pc = "decide", ret # "other", NEW float \in FloatTails,
         FloatLast(sig, numInts, float), MaskOfPointers, InstallTrailing(float)
  PROVE  TypeOK' /\ Decided'
  <1>1. /\ Counted /\ wrapper = None /\ sig \in Seq(Kinds) /\ numInts \in Nat
        /\ SupportedOS /\ Len(sig) <= 15
        /\ Pointers(sig) = {} <=> ptrMask = {}
    BY ScanEnded DEF TypeOK
  <1>2. PICK n : n = numInts
    OBVIOUS
  <1>3. PICK l : l = Len(float)
    OBVIOUS
  <1>4. n \in Nat /\ l \in {0, 1} /\ n + l <= 15
    <2>1. l \in {0, 1}
      BY <1>3, FloatTail
    <2>2. Len(sig) = n + l
      BY <1>2, <1>3 DEF FloatLast
    <2> QED BY <1>1, <1>2, <2>1, <2>2
  <1>5. n < Len(Cases(float))
    <2>1. Len(Cases(float)) = 16 - l
      BY <1>3, CasesTable
    <2> QED BY <1>4, <2>1
  <1>6. ptrMask \in SUBSET (0..(n - 1))
    BY <1>1, <1>2 DEF Counted
  <1>7. ptrMask \in Masks(n) <=> (Pointers(sig) = {} \/ n <= 6)
    BY <1>1, <1>6 DEF Masks
  <1>8. Eligible <=> ptrMask \in Masks(n)
    BY <1>1, <1>2, <1>4, <1>7, EligibleTrailing
  <1>9. PICK w : w = registerFastFunc(n, ptrMask, float, hasReturn)
    OBVIOUS
  <1>10. IF w = None THEN Reject ELSE Install(w)
    BY <1>2, <1>9 DEF InstallTrailing
  <1>11. CASE ptrMask \notin Masks(n)
    <2>1. w = None
      BY <1>9, <1>11 DEF registerFastFunc
    <2> QED BY <1>1, <1>8, <1>10, <1>11, <2>1, RejectDecided
  <1>12. CASE ptrMask \in Masks(n)
    <2>1. \A k \in 0..(n - 1) : k \in ptrMask <=> sig[k + 1] = "ptr"
      BY <1>2 DEF MaskOfPointers
    <2>2. FloatLast(sig, n, float)
      BY <1>2
    <2>3. PICK s : s = sig
      OBVIOUS
    <2>4. PICK mask : mask = ptrMask
      OBVIOUS
    <2>5. PICK r : r = hasReturn
      OBVIOUS
    <2>6. w = TrailingWrapper(s, n, float, r)
      BY <1>1, <1>4, <1>5, <1>6, <1>9, <1>12, <2>1, <2>2, <2>3, <2>4, <2>5, TrailingInstalled
    <2>7. w # None
      BY <2>6, WrapperNotNone
    <2>8. w.params = sig /\ w.result = hasReturn /\ w.keep = 1..n
      BY <2>3, <2>5, <2>6 DEF TrailingWrapper
    <2>9. Gathered(sig, w.ints, w.floats) = InOrder(sig)
      BY <1>1, <1>4, <2>2, <2>3, <2>6, TrailingGathered
    <2>10. Pointers(sig) \subseteq w.keep
      <3>1. ASSUME NEW m \in 1..Len(sig), sig[m] = "ptr" PROVE m \in 1..n
        <4>1. sig[m] \notin FloatKinds
          BY <3>1 DEF FloatKinds
        <4>2. CASE l = 0
          BY <1>3, <1>4, <2>2, <4>2 DEF FloatLast
        <4>3. CASE l = 1
          <5>1. float # <<>> /\ float[1] \in FloatKinds
            BY <1>3, <4>3, FloatTail
          <5>2. sig[n + 1] \in FloatKinds /\ Len(sig) = n + 1
            BY <1>3, <2>2, <4>3, <5>1 DEF FloatLast
          <5> QED BY <1>4, <4>1, <5>2
        <4> QED BY <1>4, <4>2, <4>3
      <3> QED BY <2>8, <3>1 DEF Pointers
    <2> QED BY <1>8, <1>10, <1>12, <2>7, <2>8, <2>9, <2>10, InstallDecided
  <1> QED BY <1>11, <1>12

(* The end of the scan with one float among integers.                        *)
LEMMA AmongDecided ==
  ASSUME TypeOK, Scanned, pc = "decide", ret # "other", numFloats = 1, ~trailingFloats
  PROVE  /\ InterleavedFits /\ InstallInterleaved => TypeOK' /\ Decided'
         /\ ~InterleavedFits /\ Reject => TypeOK' /\ Decided'
  <1>1. /\ FloatsSeen /\ wrapper = None /\ sig \in Seq(Kinds) /\ i = Len(sig)
        /\ SupportedOS /\ Len(sig) <= 15
        /\ Pointers(sig) = {} <=> ptrMask = {}
    BY ScanEnded
  <1>2. FloatAmong(sig, floatPos)
    <2>1. PICK n : n = Len(sig)
      OBVIOUS
    <2>2. n \in Nat
      BY <1>1, <2>1, LenProperties
    <2>3. /\ floatPos \in 0..(n - 1) /\ sig[floatPos + 1] \in FloatKinds
          /\ \A m \in 1..n : m # floatPos + 1 => sig[m] \in IntKinds
          /\ floatPos # n - 1
      BY <1>1, <2>1 DEF FloatsSeen
    <2>4. floatPos \in 0..(n - 2)
      BY <2>2, <2>3
    <2> QED BY <2>1, <2>3, <2>4 DEF FloatAmong
  <1>3. PICK p : p = floatPos
    OBVIOUS
  <1>4. Eligible <=> Pointers(sig) = {} /\ sig[p + 1] = "f32"
    BY <1>1, <1>2, <1>3, EligibleAmong
  <1>5. Eligible <=> InterleavedFits
    BY <1>1, <1>3, <1>4 DEF InterleavedFits
  <1>6. ASSUME InterleavedFits, InstallInterleaved PROVE TypeOK' /\ Decided'
    <2>1. PICK s : s = sig
      OBVIOUS
    <2>2. PICK r : r = hasReturn
      OBVIOUS
    <2>3. /\ s \in Seq(Kinds) /\ FloatAmong(s, p) /\ Len(s) <= 15 /\ s[p + 1] = "f32"
          /\ Pointers(s) = {}
      BY <1>1, <1>2, <1>3, <1>4, <1>5, <1>6, <2>1
    <2>4. \A m \in 1..Len(s) : s[m] # "ptr"
      BY <2>3 DEF Pointers
    <2>5. PICK w : w = InterleavedWrapper(s, p, r)
      OBVIOUS
    <2>6. registerFastFuncInterleavedFloat32x1(Len(s), p, r) = w
      BY <2>3, <2>4, <2>5, InterleavedInstalled
    <2>7. Install(w)
      BY <1>3, <1>6, <2>1, <2>2, <2>6 DEF InstallInterleaved
    <2>8. w # None
      BY <2>5, WrapperNotNone
    <2>9. w.params = sig /\ w.result = hasReturn
      BY <2>1, <2>2, <2>5 DEF InterleavedWrapper
    <2>10. Gathered(sig, w.ints, w.floats) = InOrder(sig)
      BY <2>1, <2>3, <2>5, InterleavedGathered
    <2>11. Pointers(sig) \subseteq w.keep
      BY <2>1, <2>3
    <2> QED BY <1>5, <1>6, <2>7, <2>8, <2>9, <2>10, <2>11, InstallDecided
  <1>7. ASSUME ~InterleavedFits, Reject PROVE TypeOK' /\ Decided'
    BY <1>1, <1>5, <1>7, RejectDecided
  <1> QED BY <1>6, <1>7

(* Every way to decide.                                                      *)
LEMMA DecideHolds ==
  ASSUME TypeOK, Scanned, Decide
  PROVE  TypeOK' /\ Decided'
  <1>0. pc = "decide" /\ numFloats \in Nat /\ numInts \in Nat
    BY DEF Decide, TypeOK
  <1>1. /\ Counted /\ FloatsSeen /\ wrapper = None /\ sig \in Seq(Kinds) /\ i = Len(sig)
        /\ numInts + numFloats = Len(sig)
    BY <1>0, ScanEnded
  <1>2. CASE ret = "other" /\ Reject
    <2>1. ~Eligible
      BY <1>2 DEF Eligible
    <2> QED BY <1>1, <1>2, <2>1, RejectDecided
  <1>3. CASE ret # "other" /\ numFloats = 0 /\ InstallTrailing(<<>>)
    <2>1. <<>> \in FloatTails
      BY DEF FloatTails
    <2>2. MaskOfPointers /\ \A m \in 1..i : sig[m] \in IntKinds
      BY <1>1, <1>3 DEF FloatsSeen
    <2>3. Len(sig) = numInts
      BY <1>0, <1>1, <1>3
    <2>4. FloatLast(sig, numInts, <<>>)
      <3>1. Len(<<>>) = 0
        OBVIOUS
      <3>2. numInts + Len(<<>>) = numInts
        BY <1>0, <3>1
      <3> QED BY <1>1, <2>2, <2>3, <3>2 DEF FloatLast
    <2> QED BY <1>0, <1>3, <2>1, <2>2, <2>4, TrailingDecided
  <1>4. CASE /\ ret # "other" /\ numFloats = 1 /\ trailingFloats
             /\ InstallTrailing(<<sig[numInts + 1]>>)
    <2>1. numInts + 1 = i /\ floatPos + 1 = i
      BY <1>0, <1>1, <1>4 DEF FloatsSeen, TypeOK
    <2>2. PICK k : k = sig[numInts + 1]
      OBVIOUS
    <2>3. PICK float : float = <<k>>
      OBVIOUS
    <2>4. k \in FloatKinds /\ MaskOfPointers
      BY <1>1, <1>4, <2>1, <2>2 DEF FloatsSeen
    <2>5. float \in FloatTails
      BY <2>3, <2>4 DEF FloatTails, FloatKinds, F, D
    <2>6. \A m \in 1..numInts : sig[m] \in IntKinds
      BY <1>0, <1>1, <1>4, <2>1 DEF FloatsSeen
    <2>7. FloatLast(sig, numInts, float)
      <3>1. Len(float) = 1 /\ float[1] = k
        BY <2>3
      <3>2. Len(sig) = numInts + Len(float)
        BY <1>1, <2>1, <3>1
      <3> QED BY <2>2, <2>6, <3>1, <3>2 DEF FloatLast
    <2>8. InstallTrailing(float)
      BY <1>4, <2>2, <2>3
    <2> QED BY <1>0, <1>4, <2>4, <2>5, <2>7, <2>8, TrailingDecided
  <1>5. CASE ret # "other" /\ InterleavedFits /\ InstallInterleaved
    BY <1>0, <1>5, AmongDecided DEF InterleavedFits
  <1>6. CASE ret # "other" /\ numFloats > 1 /\ Reject
    <2>1. PICK m \in 1..i, n \in 1..i : m # n /\ sig[m] \in FloatKinds /\ sig[n] \in FloatKinds
      BY <1>1, <1>6 DEF FloatsSeen
    <2>2. ~Eligible
      BY <1>1, <2>1, EligibleMany
    <2> QED BY <1>1, <1>6, <2>2, RejectDecided
  <1>7. CASE ret # "other" /\ numFloats = 1 /\ ~trailingFloats /\ ~InterleavedFits /\ Reject
    BY <1>0, <1>7, AmongDecided
  <1> QED BY <1>2, <1>3, <1>4, <1>5, <1>6, <1>7 DEF Decide

-----------------------------------------------------------------------------
(* One round of the scan over an integer.                                    *)
LEMMA ScanIntHolds ==
  ASSUME TypeOK, Scanned, pc = "scan", i < Len(sig), ScanInt
  PROVE  TypeOK' /\ Scanned'
  <1>1. Counted /\ FloatsSeen /\ i \in Nat /\ numInts \in Nat /\ numFloats \in Nat
        /\ wrapper = None /\ sig \in Seq(Kinds)
    BY DEF Scanned, TypeOK
  <1>2. /\ sig' = sig /\ pc' = "scan" /\ i' = i + 1 /\ numInts' = numInts + 1
        /\ numFloats' = numFloats /\ seenFloat' = seenFloat /\ floatPos' = floatPos
    BY DEF ScanInt
  <1>3. sig[i + 1] \in IntKinds /\ sig[i + 1] # "other" /\ sig[i + 1] \notin FloatKinds
    BY DEF ScanInt, IntKinds, FloatKinds
  <1>4. PICK l : l = Len(sig)
    OBVIOUS
  <1>5. l \in Nat /\ i + 1 <= l
    <2>1. l \in Nat
      BY <1>1, <1>4, LenProperties
    <2> QED BY <1>1, <1>4, <2>1
  <1>6. TypeOK'
    <2>1. trailingFloats' \in BOOLEAN
      <3>1. CASE seenFloat
        BY <3>1 DEF ScanInt
      <3>2. CASE ~seenFloat
        BY <3>2 DEF ScanInt, TypeOK
      <3> QED BY <3>1, <3>2
    <2>2. ret' = ret /\ accepted' = accepted /\ wrapper' = wrapper
      BY DEF ScanInt
    <2>3. i' \in Nat /\ numInts' \in Nat
      BY <1>1, <1>2
    <2> QED BY <1>1, <1>2, <2>1, <2>2, <2>3 DEF TypeOK
  <1>7. \A n \in 1..(i + 1) : n \in 1..i \/ n = i + 1
    BY <1>1
  <1>8. \A n \in 1..i : n \in 1..(i + 1)
    BY <1>1
  <1>9. numInts \notin ptrMask
    BY <1>1 DEF Counted
  <1>10. Counted'
    <2>1. i' <= Len(sig') /\ numInts' + numFloats' = i' /\ pc' # "decide"
      BY <1>1, <1>2, <1>4, <1>5 DEF Counted
    <2>2. \A n \in 1..i' : sig'[n] # "other"
      BY <1>1, <1>2, <1>3, <1>7 DEF Counted
    <2>3. ptrMask' \subseteq 0..(numInts' - 1)
      BY <1>1, <1>2 DEF Counted, ScanInt
    <2>4. ptrMask' = {} <=> \A n \in 1..i' : sig'[n] # "ptr"
      <3>1. CASE sig[i + 1] = "ptr"
        <4>1. ptrMask' # {}
          BY <3>1 DEF ScanInt
        <4>2. i + 1 \in 1..i'
          BY <1>1, <1>2
        <4> QED BY <1>2, <3>1, <4>1, <4>2
      <3>2. CASE sig[i + 1] # "ptr"
        <4>1. ptrMask' = ptrMask
          BY <3>2 DEF ScanInt
        <4>2. ptrMask = {} <=> \A n \in 1..i : sig[n] # "ptr"
          BY <1>1 DEF Counted
        <4> QED BY <1>2, <1>7, <1>8, <3>2, <4>1, <4>2
      <3> QED BY <3>1, <3>2
    <2>5. seenFloat' <=> numFloats' # 0
      BY <1>1, <1>2 DEF Counted
    <2> QED BY <2>1, <2>2, <2>3, <2>4, <2>5 DEF Counted
  <1>11. ASSUME numFloats' = 0
         PROVE  trailingFloats' /\ MaskOfPointers' /\ \A n \in 1..i' : sig'[n] \in IntKinds
    <2>1. ~seenFloat /\ trailingFloats /\ MaskOfPointers /\ \A n \in 1..i : sig[n] \in IntKinds
      BY <1>1, <1>2, <1>11 DEF Counted, FloatsSeen
    <2>2. trailingFloats'
      BY <2>1 DEF ScanInt
    <2>3. MaskOfPointers'
      <3>1. numInts = i
        BY <1>1, <1>2, <1>11 DEF Counted
      <3>2. ASSUME NEW k \in 0..numInts PROVE k \in ptrMask' <=> sig[k + 1] = "ptr"
        <4>1. CASE k = numInts
          BY <1>9, <3>1, <4>1 DEF ScanInt
        <4>2. CASE k # numInts
          <5>1. k \in 0..(numInts - 1)
            BY <1>1, <3>2, <4>2
          <5>2. k \in ptrMask' <=> k \in ptrMask
            BY <4>2 DEF ScanInt
          <5> QED BY <2>1, <5>1, <5>2 DEF MaskOfPointers
        <4> QED BY <4>1, <4>2
      <3>3. 0..(numInts' - 1) = 0..numInts
        BY <1>1, <1>2
      <3> QED BY <1>2, <3>2, <3>3 DEF MaskOfPointers
    <2> QED BY <1>2, <1>3, <1>7, <2>1, <2>2, <2>3
  <1>12. ASSUME numFloats' = 1
         PROVE  /\ floatPos' \in 0..(i' - 1) /\ sig'[floatPos' + 1] \in FloatKinds
                /\ \A n \in 1..i' : n # floatPos' + 1 => sig'[n] \in IntKinds
                /\ trailingFloats' = FALSE /\ floatPos' # i' - 1
    <2>1. /\ seenFloat /\ floatPos \in 0..(i - 1) /\ sig[floatPos + 1] \in FloatKinds
          /\ \A n \in 1..i : n # floatPos + 1 => sig[n] \in IntKinds
      BY <1>1, <1>2, <1>12 DEF Counted, FloatsSeen
    <2>2. trailingFloats' = FALSE
      BY <2>1 DEF ScanInt
    <2>3. floatPos \in 0..(i' - 1) /\ floatPos # i' - 1
      BY <1>1, <1>2, <2>1
    <2> QED BY <1>2, <1>3, <1>7, <2>1, <2>2, <2>3
  <1>13. ASSUME numFloats' > 1
         PROVE  \E m, n \in 1..i' :
                   m # n /\ sig'[m] \in FloatKinds /\ sig'[n] \in FloatKinds
    <2>1. PICK m \in 1..i, n \in 1..i : m # n /\ sig[m] \in FloatKinds /\ sig[n] \in FloatKinds
      BY <1>1, <1>2, <1>13 DEF FloatsSeen
    <2> QED BY <1>2, <1>8, <2>1
  <1>14. FloatsSeen'
    BY <1>11, <1>12, <1>13 DEF FloatsSeen
  <1> QED BY <1>6, <1>10, <1>14 DEF Scanned

(* One round over a float.                                                   *)
LEMMA ScanFloatHolds ==
  ASSUME TypeOK, Scanned, pc = "scan", i < Len(sig), ScanFloat
  PROVE  TypeOK' /\ Scanned'
  <1>1. Counted /\ FloatsSeen /\ i \in Nat /\ numInts \in Nat /\ numFloats \in Nat
        /\ wrapper = None /\ sig \in Seq(Kinds)
    BY DEF Scanned, TypeOK
  <1>2. /\ sig' = sig /\ pc' = "scan" /\ i' = i + 1 /\ numInts' = numInts
        /\ numFloats' = numFloats + 1 /\ seenFloat' = TRUE /\ ptrMask' = ptrMask
        /\ trailingFloats' = trailingFloats
    BY DEF ScanFloat
  <1>3. sig[i + 1] \in FloatKinds /\ sig[i + 1] # "other" /\ sig[i + 1] # "ptr"
    BY DEF ScanFloat, FloatKinds
  <1>4. PICK l : l = Len(sig)
    OBVIOUS
  <1>5. l \in Nat /\ i + 1 <= l
    <2>1. l \in Nat
      BY <1>1, <1>4, LenProperties
    <2> QED BY <1>1, <1>4, <2>1
  <1>6. TypeOK'
    BY <1>1, <1>2 DEF TypeOK, ScanFloat
  <1>7. \A n \in 1..(i + 1) : n \in 1..i \/ n = i + 1
    BY <1>1
  <1>8. \A n \in 1..i : n \in 1..(i + 1) /\ n # i + 1
    BY <1>1
  <1>9. i + 1 \in 1..(i + 1)
    BY <1>1
  <1>10. Counted'
    <2>1. i' <= Len(sig') /\ numInts' + numFloats' = i' /\ pc' # "decide"
      BY <1>1, <1>2, <1>4, <1>5 DEF Counted
    <2>2. \A n \in 1..i' : sig'[n] # "other"
      BY <1>1, <1>2, <1>3, <1>7 DEF Counted
    <2>3. ptrMask' \subseteq 0..(numInts' - 1)
      BY <1>1, <1>2 DEF Counted
    <2>4. ptrMask' = {} <=> \A n \in 1..i' : sig'[n] # "ptr"
      <3>1. ptrMask = {} <=> \A n \in 1..i : sig[n] # "ptr"
        BY <1>1 DEF Counted
      <3> QED BY <1>2, <1>3, <1>7, <1>8, <3>1
    <2>5. seenFloat' /\ numFloats' # 0
      BY <1>1, <1>2
    <2> QED BY <2>1, <2>2, <2>3, <2>4, <2>5 DEF Counted
  <1>11. numFloats' # 0
    BY <1>1, <1>2
  <1>12. ASSUME numFloats' = 1
         PROVE  /\ floatPos' \in 0..(i' - 1) /\ sig'[floatPos' + 1] \in FloatKinds
                /\ \A n \in 1..i' : n # floatPos' + 1 => sig'[n] \in IntKinds
                /\ trailingFloats' /\ floatPos' = i' - 1 /\ MaskOfPointers'
    <2>1. numFloats = 0
      BY <1>1, <1>2, <1>12
    <2>2. ~seenFloat /\ trailingFloats /\ MaskOfPointers /\ \A n \in 1..i : sig[n] \in IntKinds
      BY <1>1, <2>1 DEF Counted, FloatsSeen
    <2>3. floatPos' = i
      BY <2>2 DEF ScanFloat
    <2>4. i \in 0..(i' - 1) /\ i = i' - 1
      BY <1>1, <1>2
    <2>5. MaskOfPointers'
      BY <1>2, <2>2 DEF MaskOfPointers
    <2> QED BY <1>2, <1>3, <1>7, <2>2, <2>3, <2>4, <2>5
  <1>13. ASSUME numFloats' > 1
         PROVE  \E m, n \in 1..i' :
                   m # n /\ sig'[m] \in FloatKinds /\ sig'[n] \in FloatKinds
    <2>1. PICK m \in 1..i : sig[m] \in FloatKinds
      <3>1. CASE numFloats = 1
        <4>1. floatPos \in 0..(i - 1) /\ sig[floatPos + 1] \in FloatKinds
          BY <1>1, <3>1 DEF FloatsSeen
        <4>2. floatPos + 1 \in 1..i
          BY <1>1, <4>1
        <4> QED BY <4>1, <4>2
      <3>2. CASE numFloats > 1
        BY <1>1, <3>2 DEF FloatsSeen
      <3> QED BY <1>1, <1>2, <1>13, <3>1, <3>2
    <2> QED BY <1>2, <1>3, <1>8, <1>9, <2>1
  <1>14. FloatsSeen'
    BY <1>11, <1>12, <1>13 DEF FloatsSeen
  <1> QED BY <1>6, <1>10, <1>14 DEF Scanned

(* A registration starts with nothing scanned and nothing decided.           *)
LEMMA InitHolds ==
  Init => IndInv
  <1> SUFFICES ASSUME Init PROVE IndInv
    OBVIOUS
  <1>1. TypeOK
    <2>1. sig \in Seq(Kinds)
      BY FastPathAssumption DEF Init
    <2>2. i \in Nat /\ numInts \in Nat /\ numFloats \in Nat /\ floatPos \in Int
      BY DEF Init
    <2>3. trailingFloats \in BOOLEAN /\ seenFloat \in BOOLEAN /\ accepted \in BOOLEAN
      BY DEF Init
    <2>4. ret \in Returns /\ pc \in {"scan", "decide", "done"} /\ (pc # "done" => wrapper = None)
      BY DEF Init
    <2> QED BY <2>1, <2>2, <2>3, <2>4 DEF TypeOK
  <1>2. Len(sig) \in Nat
    BY <1>1, LenProperties DEF TypeOK
  <1>3. Counted
    BY <1>2 DEF Init, Counted
  <1>4. FloatsSeen
    <2>1. MaskOfPointers
      BY DEF Init, MaskOfPointers
    <2> QED BY <2>1 DEF Init, FloatsSeen
  <1>5. Decided
    BY NotDecided DEF Init
  <1> QED BY <1>1, <1>3, <1>4, <1>5 DEF IndInv, Scanned

(* One step of the registration keeps the invariant.                         *)
LEMMA StepHolds ==
  IndInv /\ [Next]_vars => IndInv'
  <1> SUFFICES ASSUME IndInv, [Next]_vars PROVE IndInv'
    OBVIOUS
  <1>1. TypeOK /\ Scanned /\ Decided
    BY DEF IndInv
  <1>2. CASE pc = "scan" /\ Unsupported /\ Reject
    <2>1. ~Eligible
      <3>1. Len(sig) \in Nat
        BY <1>1, LenProperties DEF TypeOK
      <3> QED BY <1>2, <3>1 DEF Unsupported, Eligible
    <2>2. wrapper = None
      BY <1>1, <1>2 DEF TypeOK
    <2>3. pc' = "done"
      BY <1>2 DEF Reject
    <2> QED BY <1>1, <1>2, <2>1, <2>2, <2>3, RejectDecided DEF IndInv, Scanned
  <1>3. CASE pc = "scan" /\ i < Len(sig) /\ ScanInt
    <2>1. pc' # "done" /\ wrapper' = None
      BY <1>1, <1>3 DEF ScanInt, TypeOK
    <2>2. Decided'
      BY <2>1 DEF Decided, AcceptedInstalled, SlotsAgree, ArgumentsInPlace, PointersKept,
         AcceptsEligible
    <2> QED BY <1>1, <1>3, <2>2, ScanIntHolds DEF IndInv
  <1>4. CASE pc = "scan" /\ i < Len(sig) /\ ScanFloat
    <2>1. pc' # "done" /\ wrapper' = None
      BY <1>1, <1>4 DEF ScanFloat, TypeOK
    <2>2. Decided'
      BY <2>1 DEF Decided, AcceptedInstalled, SlotsAgree, ArgumentsInPlace, PointersKept,
         AcceptsEligible
    <2> QED BY <1>1, <1>4, <2>2, ScanFloatHolds DEF IndInv
  <1>5. CASE pc = "scan" /\ i < Len(sig) /\ ScanOther
    <2>1. ~Eligible
      <3>1. i + 1 \in 1..Len(sig) /\ sig[i + 1] = "other"
        <4>1. PICK l : l = Len(sig)
          OBVIOUS
        <4>2. l \in Nat /\ i \in Nat /\ i < l
          BY <1>1, <1>5, <4>1, LenProperties DEF TypeOK
        <4>3. i + 1 \in 1..l
          BY <4>2
        <4> QED BY <1>5, <4>1, <4>3 DEF ScanOther
      <3> QED BY <3>1 DEF Eligible
    <2>2. wrapper = None /\ Reject
      BY <1>1, <1>5 DEF TypeOK, ScanOther
    <2>3. pc' = "done"
      BY <2>2 DEF Reject
    <2> QED BY <1>1, <2>1, <2>2, <2>3, RejectDecided DEF IndInv, Scanned
  <1>6. CASE /\ pc = "scan" /\ ~Unsupported /\ ~(i < Len(sig)) /\ pc' = "decide"
             /\ UNCHANGED <<sig, ret, locals, accepted, wrapper>>
    <2>1. /\ sig' = sig /\ ret' = ret /\ i' = i /\ numInts' = numInts
          /\ numFloats' = numFloats /\ ptrMask' = ptrMask
          /\ trailingFloats' = trailingFloats /\ seenFloat' = seenFloat
          /\ floatPos' = floatPos /\ accepted' = accepted /\ wrapper' = wrapper
      BY <1>6 DEF locals
    <2>2. TypeOK'
      BY <1>1, <1>6, <2>1 DEF TypeOK
    <2>3. Counted /\ FloatsSeen /\ wrapper = None
      BY <1>1, <1>6 DEF Scanned, TypeOK
    <2>4. i = Len(sig)
      <3>1. Len(sig) \in Nat /\ i \in Nat /\ i <= Len(sig)
        BY <1>1, <2>3, LenProperties DEF TypeOK, Counted
      <3> QED BY <1>6, <3>1
    <2>5. Counted'
      BY <1>6, <2>1, <2>3, <2>4 DEF Counted, Unsupported
    <2>6. FloatsSeen'
      BY <2>1, <2>3 DEF FloatsSeen, MaskOfPointers
    <2>7. Decided'
      BY <1>6, <2>1, <2>3 DEF Decided, AcceptedInstalled, SlotsAgree, ArgumentsInPlace,
         PointersKept, AcceptsEligible
    <2> QED BY <2>2, <2>5, <2>6, <2>7 DEF IndInv, Scanned
  <1>7. CASE Decide
    <2>1. pc' = "done"
      BY <1>7 DEF Decide, Reject, Install, InstallTrailing, InstallInterleaved
    <2> QED BY <1>1, <1>7, <2>1, DecideHolds DEF IndInv, Scanned
  <1>8. CASE UNCHANGED vars
    <2>1. /\ sig' = sig /\ ret' = ret /\ pc' = pc /\ i' = i /\ numInts' = numInts
          /\ numFloats' = numFloats /\ ptrMask' = ptrMask
          /\ trailingFloats' = trailingFloats /\ seenFloat' = seenFloat
          /\ floatPos' = floatPos /\ accepted' = accepted /\ wrapper' = wrapper
      BY <1>8 DEF vars, locals
    <2>2. TypeOK'
      BY <1>1, <2>1 DEF TypeOK
    <2>3. Scanned'
      BY <1>1, <2>1 DEF Scanned, Counted, FloatsSeen, MaskOfPointers, Unsupported
    <2>4. AcceptedInstalled' /\ SlotsAgree' /\ PointersKept'
      BY <1>1, <2>1 DEF Decided, AcceptedInstalled, SlotsAgree, PointersKept, Pointers
    <2>5. AcceptsEligible'
      <3>1. Eligible' <=> Eligible
        BY <2>1 DEF Eligible, Pointers
      <3> QED BY <1>1, <2>1, <3>1 DEF Decided, AcceptsEligible
    <2>6. ArgumentsInPlace'
      <3>1. wrapper # None =>
              Gathered(sig, wrapper.ints, wrapper.floats)
                = [n \in 1..Len(sig) |-> Stored(n, IF sig[n] \in FloatKinds THEN sig[n] ELSE W)]
        BY <1>1 DEF Decided, ArgumentsInPlace
      <3>2. wrapper' # None =>
              Gathered(sig', wrapper'.ints, wrapper'.floats)
                = [n \in 1..Len(sig') |-> Stored(n, IF sig'[n] \in FloatKinds THEN sig'[n] ELSE W)]
        BY <2>1, <3>1, Zenon
      <3> QED BY <3>2 DEF ArgumentsInPlace
    <2> QED BY <2>2, <2>3, <2>4, <2>5, <2>6 DEF IndInv, Decided
  <1> QED BY <1>2, <1>3, <1>4, <1>5, <1>6, <1>7, <1>8 DEF Next, Scan, Done

-----------------------------------------------------------------------------
(* The scan's locals describe the parameters passed so far, and what is      *)
(* decided from them holds, for any set of signatures on any platform        *)
(* (zz_fast_func.go:9292-9374).                                              *)
THEOREM Induction ==
  Spec => []IndInv
  BY InitHolds, StepHolds, PTL DEF Spec

(* tryRegisterFastPath answers true exactly when it has installed a wrapper,   *)
(* the interleaved case, which does not look, included (zz_fast_func.go:9364). *)
THEOREM TakenMeansWrapped ==
  Spec => []AcceptedInstalled
  <1>1. IndInv => AcceptedInstalled
    BY DEF IndInv, Decided
  <1> QED BY <1>1, Induction, PTL

(* The installed wrapper takes the registered function's parameters slot for  *)
(* slot, pointers and float widths included (zz_fast_func.go:63-72).          *)
THEOREM WrapperHasSlots ==
  Spec => []SlotsAgree
  <1>1. IndInv => SlotsAgree
    BY DEF IndInv, Decided
  <1> QED BY <1>1, Induction, PTL

(* A call through the wrapper hands C the arguments in their order: what the  *)
(* wrapper spreads over two arrays fastCallIF puts together again              *)
(* (zz_fast_func.go:40-61).                                                    *)
THEOREM CallKeepsOrder ==
  Spec => []ArgumentsInPlace
  <1>1. IndInv => ArgumentsInPlace
    BY DEF IndInv, Decided
  <1> QED BY <1>1, Induction, PTL

(* Every pointer argument is kept alive by the wrapper until C has returned   *)
(* (zz_fast_func.go:66-70).                                                    *)
THEOREM CallKeepsPointers ==
  Spec => []PointersKept
  <1>1. IndInv => PointersKept
    BY DEF IndInv, Decided
  <1> QED BY <1>1, Induction, PTL

(* A wrapper is found exactly for the eligible signatures                      *)
(* (zz_fast_func.go:9292-9374).                                                *)
THEOREM TakenMeansEligible ==
  Spec => []AcceptsEligible
  <1>1. IndInv => AcceptsEligible
    BY DEF IndInv, Decided
  <1> QED BY <1>1, Induction, PTL
=============================================================================
