--------------------------- MODULE ObjcClassProofs ---------------------------
(***************************************************************************)
(* Proofs about ObjcClass, for any number of attempts, any plans over any  *)
(* types, and any supply of callbacks: a class that can be found is        *)
(* complete, its accessors are those of their own variables, its methods   *)
(* are read back with the signatures they have, and only accessors make    *)
(* RegisterClass panic.                                                    *)
(*                                                                         *)
(* The signatures need induction over types, for encodeType, and over      *)
(* sequences, for what reads an encoding.  It is done with sets of numbers *)
(* that have a least element; the first part derives from that one the     *)
(* recursive functions of Encode.                                          *)
(***************************************************************************)
EXTENDS ObjcClass, SequenceTheorems, WellFoundedInduction, TLAPS

-----------------------------------------------------------------------------
\* Induction and recursion over the natural numbers and over ranks.

(* The order of the natural numbers, as a relation, is well-founded.         *)
LEMMA NatOrder ==
  \E R : IsWellFoundedOn(R, Nat) /\ \A m, n \in Nat : <<m, n>> \in R <=> m < n
  <1>1. \A m, n \in Nat : <<m, n>> \in OpToRel(<, Nat) <=> m < n
    BY DEF OpToRel
  <1> QED BY <1>1, NatLessThanWellFounded, Zenon

(* A set of natural numbers that is not empty has a least element.           *)
LEMMA Least ==
  ASSUME NEW T, T \subseteq Nat, T # {}
  PROVE  \E n \in T : \A m \in 0..(n - 1) : m \notin T
  <1>1. PICK R : IsWellFoundedOn(R, Nat) /\ \A m, n \in Nat : <<m, n>> \in R <=> m < n
    BY NatOrder
  <1>2. IsWellFoundedOn(R, Nat)
    BY <1>1
  <1>3. PICK n \in T : \A m \in T : ~ (<<m, n>> \in R)
    BY <1>2, WFMin
  <1>4. \A m \in T : ~ (m < n)
    <2>1. SUFFICES ASSUME NEW m \in T, m < n PROVE FALSE
      OBVIOUS
    <2>2. m \in Nat /\ n \in Nat
      OBVIOUS
    <2> QED BY <1>1, <1>3, <2>1, <2>2, Zenon
  <1> QED BY <1>4

(* A set that has every number all of whose predecessors it has, has them    *)
(* all.                                                                      *)
LEMMA CourseOfValues ==
  ASSUME NEW S, S \subseteq Nat,
         \A n \in Nat : (\A m \in 0..(n - 1) : m \in S) => n \in S
  PROVE  S = Nat
  <1>1. SUFFICES ASSUME Nat \ S # {} PROVE FALSE
    OBVIOUS
  <1>2. PICK n \in Nat \ S : \A m \in 0..(n - 1) : m \notin Nat \ S
    <2>1. Nat \ S \subseteq Nat
      OBVIOUS
    <2> QED BY <1>1, <2>1, Least
  <1> QED BY <1>2

(* Induction from 0 to N.                                                    *)
LEMMA InductionUpTo ==
  ASSUME NEW N \in Nat, NEW S, 0 \in S, \A n \in 1..N : n - 1 \in S => n \in S
  PROVE  \A n \in 0..N : n \in S
  <1> DEFINE T == {n \in Nat : n <= N => n \in S}
  <1>1. ASSUME NEW n \in Nat, \A m \in 0..(n - 1) : m \in T
        PROVE  n \in T
    <2>1. CASE n = 0
      BY <2>1
    <2>2. CASE n # 0 /\ n <= N
      <3>1. n - 1 \in 0..(n - 1) /\ n \in 1..N
        BY <2>2
      <3>2. n - 1 \in S
        BY <1>1, <3>1
      <3> QED BY <3>1, <3>2
    <2> QED BY <2>1, <2>2
  <1>2. T = Nat
    <2> T \subseteq Nat
      OBVIOUS
    <2> HIDE DEF T
    <2> QED BY <1>1, CourseOfValues
  <1> QED BY <1>2

\* step determines, for x, a value from the values of smaller ones.
Descends(step, D, V, rank) ==
  \A g, h \in [D -> V], x \in D :
     (\A y \in D : rank[y] < rank[x] => g[y] = h[y]) => step[g][x] = step[h][x]

\* g is what step asks for, at everything below n.
Below(g, n, step, D, rank) == \A x \in D : rank[x] < n => g[x] = step[g][x]

(* What is made from smaller elements is unique, as far as it is made.       *)
LEMMA BelowUnique ==
  ASSUME NEW D, NEW V, NEW rank \in [D -> Nat], NEW step, Descends(step, D, V, rank),
         NEW m \in Nat, NEW n \in Nat,
         NEW g \in [D -> V], NEW h \in [D -> V],
         Below(g, m, step, D, rank), Below(h, n, step, D, rank)
  PROVE  \A x \in D : rank[x] < m /\ rank[x] < n => g[x] = h[x]
  <1> DEFINE S == {k \in Nat : \A x \in D : rank[x] = k /\ k < m /\ k < n => g[x] = h[x]}
  <1>1. ASSUME NEW k \in Nat, \A j \in 0..(k - 1) : j \in S
        PROVE  k \in S
    <2>1. SUFFICES ASSUME NEW x \in D, rank[x] = k, k < m, k < n
                   PROVE  g[x] = h[x]
      OBVIOUS
    <2>2. \A y \in D : rank[y] < rank[x] => g[y] = h[y]
      BY <1>1, <2>1
    <2>3. step[g][x] = step[h][x]
      BY <2>2 DEF Descends
    <2> QED BY <2>1, <2>3 DEF Below
  <1>2. S = Nat
    <2> S \subseteq Nat
      OBVIOUS
    <2> HIDE DEF S
    <2> QED BY <1>1, CourseOfValues
  <1>3. SUFFICES ASSUME NEW x \in D, rank[x] < m, rank[x] < n PROVE g[x] = h[x]
    OBVIOUS
  <1>4. rank[x] \in S
    BY <1>2
  <1> QED BY <1>3, <1>4

(* What is made from smaller elements can be made up to any rank.            *)
LEMMA BelowExists ==
  ASSUME NEW D, NEW V, V # {}, NEW rank \in [D -> Nat],
         NEW step, \A g \in [D -> V] : step[g] \in [D -> V], Descends(step, D, V, rank)
  PROVE  \A n \in Nat : \E g \in [D -> V] : Below(g, n, step, D, rank)
  <1> DEFINE S == {n \in Nat : \E g \in [D -> V] : Below(g, n, step, D, rank)}
  <1>1. ASSUME NEW n \in Nat, \A m \in 0..(n - 1) : m \in S
        PROVE  n \in S
    <2>1. CASE n = 0
      <3>1. PICK v \in V : TRUE
        OBVIOUS
      <3>2. [x \in D |-> v] \in [D -> V]
        OBVIOUS
      <3>3. Below([x \in D |-> v], n, step, D, rank)
        BY <2>1 DEF Below
      <3> QED BY <3>2, <3>3
    <2>2. CASE n # 0
      <3>1. n - 1 \in 0..(n - 1)
        BY <2>2
      <3>2. PICK g \in [D -> V] : Below(g, n - 1, step, D, rank)
        BY <1>1, <3>1
      <3>3. PICK h : h = step[g]
        OBVIOUS
      <3>4. h \in [D -> V]
        BY <3>3
      <3>5. ASSUME NEW x \in D, rank[x] < n
            PROVE  h[x] = step[h][x]
        <4>1. \A y \in D : rank[y] < rank[x] => g[y] = h[y]
          BY <3>2, <3>3, <3>5 DEF Below
        <4> QED BY <3>3, <3>4, <4>1 DEF Descends
      <3> QED BY <3>4, <3>5 DEF Below
    <2> QED BY <2>1, <2>2
  <1>2. S = Nat
    <2> S \subseteq Nat
      OBVIOUS
    <2> HIDE DEF S
    <2> QED BY <1>1, CourseOfValues
  <1> QED BY <1>2

(* A definition by recursion over a rank has a solution.                     *)
LEMMA Recursion ==
  ASSUME NEW D, NEW V, V # {}, NEW rank \in [D -> Nat],
         NEW step, \A g \in [D -> V] : step[g] \in [D -> V], Descends(step, D, V, rank)
  PROVE  \E f \in [D -> V] : f = step[f]
  <1> DEFINE Is(n, g) == g \in [D -> V] /\ Below(g, n, step, D, rank)
             part(x) == CHOOSE g : Is(rank[x] + 1, g)
  <1>1. \A x \in D : Is(rank[x] + 1, part(x))
    <2>1. ASSUME NEW x \in D PROVE \E g : Is(rank[x] + 1, g)
      <3>1. rank[x] + 1 \in Nat
        OBVIOUS
      <3>2. \E g \in [D -> V] : Below(g, rank[x] + 1, step, D, rank)
        BY <3>1, BelowExists
      <3> QED BY <3>2
    <2> HIDE DEF Is
    <2> QED BY <2>1
  <1> HIDE DEF part
  <1>2. PICK f : f = [x \in D |-> part(x)[x]]
    OBVIOUS
  <1>3. f \in [D -> V]
    BY <1>1, <1>2
  <1>4. ASSUME NEW x \in D
        PROVE  f[x] = step[f][x]
    <2>1. PICK g : g = part(x)
      OBVIOUS
    <2>2. g \in [D -> V] /\ Below(g, rank[x] + 1, step, D, rank)
      BY <1>1, <2>1
    <2>3. ASSUME NEW y \in D, rank[y] < rank[x] PROVE g[y] = f[y]
      <3>1. part(y) \in [D -> V] /\ Below(part(y), rank[y] + 1, step, D, rank)
        BY <1>1
      <3>2. part(y)[y] = g[y]
        <4>1. rank[y] \in Nat /\ rank[x] \in Nat /\ rank[y] + 1 \in Nat /\ rank[x] + 1 \in Nat
              /\ rank[y] < rank[y] + 1 /\ rank[y] < rank[x] + 1
          BY <2>3
        <4> QED BY <2>2, <3>1, <4>1, BelowUnique
      <3> QED BY <1>2, <3>2
    <2>4. step[g][x] = step[f][x]
      BY <1>3, <2>2, <2>3 DEF Descends
    <2>5. g[x] = step[g][x]
      BY <2>2 DEF Below
    <2> QED BY <1>2, <2>1, <2>4, <2>5
  <1>5. step[f] \in [D -> V]
    BY <1>3
  <1> QED BY <1>3, <1>4, <1>5

\* next[n] makes the value at n from the one before.
Continues(next, N, V) == \A n \in 1..N, v \in V : next[n][v] \in V

\* g is made by next from start, as far as its values are in V.
Follows(g, start, next, N, V) ==
    /\ g = [n \in 0..N |-> g[n]] /\ g[0] = start
    /\ \A n \in 1..N : g[n - 1] \in V => g[n] = next[n][g[n - 1]]

(* A definition by recursion from 0 to N has one solution; a function that   *)
(* follows the same rule is that one.                                        *)
LEMMA RecursionUpTo ==
  ASSUME NEW N \in Nat, NEW V, NEW start \in V, NEW next, Continues(next, N, V)
  PROVE  \E f \in [0..N -> V] :
            /\ f[0] = start
            /\ \A n \in 1..N : f[n] = next[n][f[n - 1]]
            /\ \A g : Follows(g, start, next, N, V) => g = f
  <1> DEFINE D == 0..N
             Then(g, n) == IF n = 0 THEN start ELSE next[n][g[n - 1]]
             rank == [n \in D |-> n]
             step == [g \in [D -> V] |-> [n \in D |-> Then(g, n)]]
  <1>1. V # {} /\ rank \in [D -> Nat]
    OBVIOUS
  <1>2. ASSUME NEW g \in [D -> V], NEW n \in D PROVE Then(g, n) \in V
    <2>1. CASE n = 0
      BY <2>1
    <2>2. CASE n # 0
      <3>1. n - 1 \in D /\ n \in 1..N
        BY <2>2
      <3>2. g[n - 1] \in V
        BY <3>1
      <3> QED BY <2>2, <3>1, <3>2 DEF Continues
    <2> QED BY <2>1, <2>2
  <1>3. \A g \in [D -> V] : step[g] \in [D -> V]
    <2> HIDE DEF Then, D
    <2> QED BY <1>2
  <1>4. Descends(step, D, V, rank)
    <2> SUFFICES ASSUME NEW g \in [D -> V], NEW h \in [D -> V], NEW n \in D,
                        \A m \in D : rank[m] < rank[n] => g[m] = h[m]
                 PROVE  step[g][n] = step[h][n]
      BY DEF Descends
    <2>1. Then(g, n) = Then(h, n)
      <3>1. CASE n = 0
        BY <3>1
      <3>2. CASE n # 0
        <4>1. n - 1 \in D /\ rank[n - 1] < rank[n]
          BY <3>2
        <4> QED BY <4>1
      <3> QED BY <3>1, <3>2
    <2> HIDE DEF Then, D
    <2> QED BY <2>1
  <1>5. \E f \in [D -> V] : f = step[f]
    <2> HIDE DEF D, rank, step
    <2> QED BY <1>1, <1>3, <1>4, Recursion
  <1>6. PICK f \in [D -> V] : \A n \in D : f[n] = Then(f, n)
    <2> HIDE DEF Then, D
    <2> QED BY <1>5
  <1>7. f[0] = start /\ \A n \in 1..N : f[n] = next[n][f[n - 1]]
    <2>1. 0 \in D /\ \A n \in 1..N : n \in D /\ n # 0
      OBVIOUS
    <2> HIDE DEF D
    <2> QED BY <1>6, <2>1
  <1>8. ASSUME NEW g, Follows(g, start, next, N, V)
        PROVE  g = f
    <2> DEFINE S == {n \in D : g[n] = f[n]}
    <2>1. 0 \in S
      BY <1>7, <1>8 DEF Follows
    <2>2. ASSUME NEW n \in 1..N, n - 1 \in S
          PROVE  n \in S
      <3>1. n \in D /\ f[n - 1] \in V /\ g[n - 1] = f[n - 1]
        BY <2>2
      <3>2. g[n] = next[n][g[n - 1]]
        BY <1>8, <3>1 DEF Follows
      <3> QED BY <1>7, <3>1, <3>2
    <2>3. \A n \in 0..N : n \in S
      <3> HIDE DEF S
      <3> QED BY <2>1, <2>2, InductionUpTo
    <2> QED BY <1>8, <2>3 DEF Follows
  <1> QED BY <1>7, <1>8

-----------------------------------------------------------------------------
\* The operators of Encode that are recursive functions.

\* What encodings are made of.
Symbols ==
    {LeftBrace, RightBrace, "=", "^", "v", "#", "@", ":", "B", "l", "c", "s", "i",
     "L", "q", "Q", "C", "S", "I", "f", "d", "*", "error"}
    \cup {t.name : t \in Types}

(* The function behind Concatenated: the WriteString calls of encodeType and *)
(* encodeFunc, one after the other (objc_runtime_darwin.go:431-444,          *)
(* 461-488).                                                                 *)
LEMMA ConcatenatedIs ==
  ASSUME NEW encs \in Seq(Seq(Symbols))
  PROVE  /\ Concatenated(encs) \in [0..Len(encs) -> Seq(Symbols)]
         /\ Concatenated(encs)[0] = <<>>
         /\ \A n \in 1..Len(encs) :
               Concatenated(encs)[n] = Concatenated(encs)[n - 1] \o encs[n]
  <1> DEFINE V == Seq(Symbols)
             N == Len(encs)
             Then(v, n) == v \o encs[n]
             Is(f) == f = [n \in 0..N |-> IF n = 0 THEN <<>> ELSE Then(f[n - 1], n)]
  <1>1. \A n \in 1..N, v \in V : Then(v, n) \in V
    BY ElementOfSeq, ConcatProperties
  <1>2. N \in Nat /\ <<>> \in V
    OBVIOUS
  <1>3. Concatenated(encs) = CHOOSE f : Is(f)
    BY DEF Concatenated
  <1> SUFFICES /\ Concatenated(encs) \in [0..N -> V]
               /\ Concatenated(encs)[0] = <<>>
               /\ \A n \in 1..N : Concatenated(encs)[n] = Then(Concatenated(encs)[n - 1], n)
    OBVIOUS
  <1> HIDE DEF V, N, Then
  <1>4. PICK next : next = [n \in 1..N |-> [v \in V |-> Then(v, n)]]
    OBVIOUS
  <1>5. \A n \in 1..N, v \in V : next[n][v] = Then(v, n)
    BY <1>4
  <1>6. Continues(next, N, V)
    BY <1>1, <1>5 DEF Continues
  <1>7. PICK f \in [0..N -> V] : /\ f[0] = <<>>
                                 /\ \A n \in 1..N : f[n] = next[n][f[n - 1]]
                                 /\ \A g : Follows(g, <<>>, next, N, V) => g = f
    BY <1>2, <1>6, RecursionUpTo
  <1>8. \A n \in 1..N : f[n] = Then(f[n - 1], n)
    <2> SUFFICES ASSUME NEW n \in 1..N PROVE f[n] = Then(f[n - 1], n)
      OBVIOUS
    <2>1. f[n - 1] \in V
      BY <1>2
    <2> QED BY <1>5, <1>7, <2>1
  <1>9. Is(f)
    BY <1>2, <1>7, <1>8
  <1>10. \A g : Is(g) => Follows(g, <<>>, next, N, V)
    BY <1>2, <1>5 DEF Follows
  <1> HIDE DEF Is
  <1>11. Concatenated(encs) = f
    BY <1>3, <1>7, <1>9, <1>10
  <1> QED BY <1>7, <1>8, <1>11

(* The two braces differ.                                                    *)
LEMMA Braces == LeftBrace # RightBrace
  BY DEF LeftBrace, RightBrace

(* Only braces change the depth.                                             *)
LEMMA OpensIs ==
  /\ \A x : Opens(x) \in Int
  /\ Opens(LeftBrace) = 1 /\ Opens(RightBrace) = -1
  /\ \A x : x # LeftBrace /\ x # RightBrace => Opens(x) = 0
  <1>1. \A x : Opens(x) \in Int
    BY DEF Opens
  <1>2. Opens(LeftBrace) = 1
    BY Braces DEF Opens
  <1>3. Opens(RightBrace) = -1
    BY Braces DEF Opens
  <1>4. ASSUME NEW x, x # LeftBrace, x # RightBrace PROVE Opens(x) = 0
    BY <1>4 DEF Opens
  <1> QED BY <1>1, <1>2, <1>3, <1>4

-----------------------------------------------------------------------------
\* Sequences.

(* A tuple of one is a sequence.                                             *)
LEMMA OneTuple ==
  ASSUME NEW S, NEW x \in S
  PROVE  <<x>> \in Seq(S) /\ Len(<<x>>) = 1 /\ <<x>>[1] = x
  OBVIOUS

(* A tuple of two is a sequence.                                             *)
LEMMA TwoTuple ==
  ASSUME NEW S, NEW x \in S, NEW y \in S
  PROVE  <<x, y>> \in Seq(S) /\ Len(<<x, y>>) = 2 /\ <<x, y>>[1] = x /\ <<x, y>>[2] = y
  OBVIOUS

(* A tuple of three is a sequence.                                           *)
LEMMA ThreeTuple ==
  ASSUME NEW S, NEW x \in S, NEW y \in S, NEW z \in S
  PROVE  /\ <<x, y, z>> \in Seq(S) /\ Len(<<x, y, z>>) = 3
         /\ <<x, y, z>>[1] = x /\ <<x, y, z>>[2] = y /\ <<x, y, z>>[3] = z
  OBVIOUS

(* A function on 1..n is a sequence.                                         *)
LEMMA FunctionSeq ==
  ASSUME NEW n \in Nat, NEW S, NEW f \in [1..n -> S]
  PROVE  f \in Seq(S) /\ Len(f) = n
  <1>1. f \in Seq(S)
    BY IsASeq
  <1> QED BY <1>1, LenProperties

(* The elements of one sequence behind another.                              *)
LEMMA ConcatElements ==
  ASSUME NEW S, NEW s \in Seq(S), NEW t \in Seq(S)
  PROVE  /\ s \o t \in Seq(S) /\ Len(s \o t) = Len(s) + Len(t)
         /\ \A i \in 1..Len(s) : (s \o t)[i] = s[i]
         /\ \A i \in 1..Len(t) : (s \o t)[Len(s) + i] = t[i]
  <1>1. Len(s) \in Nat /\ Len(t) \in Nat
    OBVIOUS
  <1>2. PICK c : c = s \o t
    OBVIOUS
  <1>3. /\ c \in Seq(S) /\ Len(c) = Len(s) + Len(t)
        /\ \A i \in 1..(Len(s) + Len(t)) :
              c[i] = IF i <= Len(s) THEN s[i] ELSE t[i - Len(s)]
    BY <1>2, ConcatProperties
  <1>4. \A i \in 1..Len(s) : c[i] = s[i]
    BY <1>1, <1>3
  <1>5. ASSUME NEW i \in 1..Len(t) PROVE c[Len(s) + i] = t[i]
    <2>1. Len(s) + i \in 1..(Len(s) + Len(t)) /\ ~(Len(s) + i <= Len(s)) /\ Len(s) + i - Len(s) = i
      BY <1>1
    <2> QED BY <1>3, <2>1
  <1> QED BY <1>2, <1>3, <1>4, <1>5

-----------------------------------------------------------------------------
\* The states of a reader.
Readers == [depth : Int, behind : Int, next : {"name", "type"}, seen : Seq(Symbols)]

(* A reader that reads a symbol is a reader.                                 *)
LEMMA ReadTyped ==
  ASSUME NEW q \in Readers, NEW x \in Symbols
  PROVE  Read(q, x) \in Readers
  <1>1. PICK d, b : d = q.depth + Opens(x) /\ b = NowBehind(q, x, d)
    OBVIOUS
  <1>2. q.depth \in Int /\ q.behind \in Int /\ q.seen \in Seq(Symbols)
    BY DEF Readers
  <1>3. d \in Int
    BY <1>1, <1>2, OpensIs
  <1>4. b \in Int
    BY <1>1, <1>2, <1>3 DEF NowBehind, Nothing
  <1>5. Append(q.seen, x) \in Seq(Symbols)
    BY <1>2, AppendProperties
  <1>6. [q EXCEPT !.next = "type"] \in Readers
    BY DEF Readers
  <1>7. CASE q.next = "name"
    BY <1>6, <1>7 DEF Read
  <1>8. CASE q.next # "name"
    <2>1. PICK n, v : /\ n = IF x = LeftBrace THEN "name" ELSE "type"
                      /\ v = IF q.behind = Nothing /\ x # "=" THEN Append(q.seen, x) ELSE q.seen
      OBVIOUS
    <2>2. n \in {"name", "type"} /\ v \in Seq(Symbols)
      BY <1>2, <1>5, <2>1
    <2>3. Read(q, x) = Reader(d, b, n, v)
      BY <1>1, <1>8, <2>1 DEF Read
    <2>4. Reader(d, b, n, v) \in Readers
      BY <1>3, <1>4, <2>2 DEF Reader, Readers
    <2> QED BY <2>3, <2>4
  <1> QED BY <1>7, <1>8

(* The function behind Reading.                                              *)
LEMMA ReadingFrom ==
  ASSUME NEW V, V = Readers, NEW q \in V, NEW s \in Seq(Symbols)
  PROVE  /\ Reading(q, s) \in [0..Len(s) -> V]
         /\ Reading(q, s)[0] = q
         /\ \A n \in 1..Len(s) : Reading(q, s)[n] = Read(Reading(q, s)[n - 1], s[n])
  <1> DEFINE N == Len(s)
             Then(v, n) == Read(v, s[n])
             Is(f) == f = [n \in 0..N |-> IF n = 0 THEN q ELSE Then(f[n - 1], n)]
  <1>1. \A n \in 1..N, v \in V : Then(v, n) \in V
    BY ElementOfSeq, ReadTyped
  <1>2. N \in Nat /\ q \in V
    OBVIOUS
  <1>3. Reading(q, s) = CHOOSE f : Is(f)
    BY DEF Reading
  <1> SUFFICES /\ Reading(q, s) \in [0..N -> V]
               /\ Reading(q, s)[0] = q
               /\ \A n \in 1..N : Reading(q, s)[n] = Then(Reading(q, s)[n - 1], n)
    OBVIOUS
  <1> HIDE DEF N, Then
  <1>4. PICK next : next = [n \in 1..N |-> [v \in V |-> Then(v, n)]]
    OBVIOUS
  <1>5. \A n \in 1..N, v \in V : next[n][v] = Then(v, n)
    BY <1>4
  <1>6. Continues(next, N, V)
    BY <1>1, <1>5 DEF Continues
  <1>7. PICK f \in [0..N -> V] : /\ f[0] = q
                                 /\ \A n \in 1..N : f[n] = next[n][f[n - 1]]
                                 /\ \A g : Follows(g, q, next, N, V) => g = f
    BY <1>2, <1>6, RecursionUpTo
  <1>8. \A n \in 1..N : f[n] = Then(f[n - 1], n)
    <2> SUFFICES ASSUME NEW n \in 1..N PROVE f[n] = Then(f[n - 1], n)
      OBVIOUS
    <2>1. f[n - 1] \in V
      BY <1>2
    <2> QED BY <1>5, <1>7, <2>1
  <1>9. Is(f)
    BY <1>2, <1>7, <1>8
  <1>10. \A g : Is(g) => Follows(g, q, next, N, V)
    BY <1>2, <1>5 DEF Follows
  <1> HIDE DEF Is
  <1>11. Reading(q, s) = f
    BY <1>3, <1>7, <1>9, <1>10
  <1> QED BY <1>7, <1>8, <1>11

(* The readers behind Reading.                                               *)
LEMMA ReadingIs ==
  ASSUME NEW q \in Readers, NEW s \in Seq(Symbols)
  PROVE  /\ Reading(q, s) \in [0..Len(s) -> Readers]
         /\ Reading(q, s)[0] = q
         /\ \A n \in 1..Len(s) : Reading(q, s)[n] = Read(Reading(q, s)[n - 1], s[n])
  BY ReadingFrom

(* A reader that has read a sequence is a reader.                            *)
LEMMA AfterTyped ==
  ASSUME NEW q \in Readers, NEW s \in Seq(Symbols)
  PROVE  After(q, s) \in Readers
  <1>1. Len(s) \in 0..Len(s)
    OBVIOUS
  <1> QED BY <1>1, ReadingIs DEF After

(* All of the encodings are an encoding.                                     *)
LEMMA AllTyped ==
  ASSUME NEW encs \in Seq(Seq(Symbols))
  PROVE  All(encs) \in Seq(Symbols)
  <1>1. Len(encs) \in 0..Len(encs)
    OBVIOUS
  <1> QED BY <1>1, ConcatenatedIs DEF All

-----------------------------------------------------------------------------
\* g and h agree on x when they do on all that is smaller.
AgreeUpwards(g, h, D, rank) ==
    \A x \in D : (\A y \in D : rank[y] < rank[x] => g[y] = h[y]) => g[x] = h[x]

(* Two functions that agree wherever they do on all that is smaller, agree.  *)
LEMMA Agreement ==
  ASSUME NEW D, NEW rank \in [D -> Nat], NEW g, NEW h, AgreeUpwards(g, h, D, rank)
  PROVE  \A x \in D : g[x] = h[x]
  <1> DEFINE S == {n \in Nat : \A x \in D : rank[x] = n => g[x] = h[x]}
  <1>1. ASSUME NEW n \in Nat, \A m \in 0..(n - 1) : m \in S
        PROVE  n \in S
    <2> SUFFICES ASSUME NEW x \in D, rank[x] = n PROVE g[x] = h[x]
      OBVIOUS
    <2>1. \A y \in D : rank[y] < rank[x] => g[y] = h[y]
      BY <1>1
    <2> QED BY <2>1 DEF AgreeUpwards
  <1>2. S = Nat
    <2> S \subseteq Nat
      OBVIOUS
    <2> HIDE DEF S
    <2> QED BY <1>1, CourseOfValues
  <1> QED BY <1>2

\* The kinds of types.
Kinds == {t.kind : t \in Types} \cup {"none"}

(* The function behind pointee.                                              *)
LEMMA PointeeIs ==
  /\ pointee \in [Types -> Kinds]
  /\ \A t \in Types : pointee[t] = IF t.kind = "ptr" THEN pointee[t.elem] ELSE t.kind
  <1> DEFINE V == Kinds
             Of(g, t) == IF t.kind = "ptr" THEN g[t.elem] ELSE t.kind
             Is(g) == g = [t \in Types |-> Of(g, t)]
  <1>1. \A g \in [Types -> V], t \in Types : Of(g, t) \in V
    BY TypesAssumption DEF Kinds
  <1>2. \A g, h : \A t \in Types :
           (\A u \in Types : Height[u] < Height[t] => g[u] = h[u]) => Of(g, t) = Of(h, t)
    BY TypesAssumption
  <1>3. pointee = CHOOSE g : Is(g)
    BY DEF pointee
  <1>4. V # {} /\ Height \in [Types -> Nat]
    <2>1. "none" \in V
      BY DEF Kinds
    <2> QED BY <2>1, TypesAssumption
  <1> SUFFICES pointee \in [Types -> V] /\ \A t \in Types : pointee[t] = Of(pointee, t)
    OBVIOUS
  <1> HIDE DEF V, Of
  <1>5. PICK step : step = [g \in [Types -> V] |-> [t \in Types |-> Of(g, t)]]
    OBVIOUS
  <1>6. \A g \in [Types -> V], t \in Types : step[g][t] = Of(g, t)
    BY <1>5
  <1>7. \A g \in [Types -> V] : step[g] \in [Types -> V]
    BY <1>1, <1>5
  <1>8. Descends(step, Types, V, Height)
    <2> SUFFICES ASSUME NEW g \in [Types -> V], NEW h \in [Types -> V], NEW t \in Types,
                        \A u \in Types : Height[u] < Height[t] => g[u] = h[u]
                 PROVE  step[g][t] = step[h][t]
      BY DEF Descends
    <2>1. Of(g, t) = Of(h, t)
      BY <1>2
    <2> QED BY <1>6, <2>1
  <1>9. PICK f \in [Types -> V] : f = step[f]
    BY <1>4, <1>7, <1>8, Recursion
  <1>10. Is(f)
    BY <1>5, <1>9
  <1>11. ASSUME NEW g, Is(g) PROVE g = f
    <2>1. AgreeUpwards(g, f, Types, Height)
      BY <1>2, <1>10, <1>11 DEF AgreeUpwards
    <2>2. \A t \in Types : g[t] = f[t]
      BY <1>4, <2>1, Agreement
    <2> QED BY <1>10, <1>11, <2>2
  <1>12. pointee = f
    <2> HIDE DEF Is
    <2> QED BY <1>3, <1>10, <1>11
  <1> QED BY <1>10, <1>12

(* What is refused is an encoding, of one symbol.                            *)
LEMMA RefusedTyped == Refused \in Seq(Symbols)
  <1>1. "error" \in Symbols
    BY DEF Symbols
  <1> QED BY <1>1 DEF Refused

(* What is joined is an encoding (objc_runtime_darwin.go:424-444).           *)
LEMMA JoinedTyped ==
  ASSUME NEW encs \in Seq(Seq(Symbols))
  PROVE  Joined(encs) \in Seq(Symbols)
  BY AllTyped, RefusedTyped DEF Joined

(* Every kind but unsafe.Pointer that is encoded by itself is one symbol,    *)
(* which "^" is only for a uintptr, and the right one unless it is misread    *)
(* (objc_runtime_darwin.go:360-423).                                         *)
LEMMA LetterIs ==
  \A k \in DOMAIN Letter : k # "unsafePointer" =>
      \E x \in Symbols : /\ Letter[k] = <<x>> /\ x # LeftBrace /\ x # RightBrace /\ x # "="
                         /\ k # "uintptr" => x # "^"
                         /\ k \notin Misread => x = CSymbol[k]
  <1> DEFINE Plainly(k, x) ==
                 /\ Letter[k] = <<x>>
                 /\ x \in {"#", "@", ":", "B", "l", "c", "s", "i", "L", "C", "S", "I", "f",
                           "d", "*", "^"}
                 /\ k # "uintptr" => x # "^"
                 /\ k \notin Misread => x = CSymbol[k]
  <1>1. \A k \in DOMAIN Letter : k # "unsafePointer" =>
           k \in {"Class", "ID", "Block", "SEL", "bool", "int", "int8", "int16", "int32",
                  "int64", "uint", "uint8", "uint16", "uint32", "uint64", "uintptr",
                  "float32", "float64", "string"}
    BY DEF Letter
  <1>2. /\ Plainly("Class", "#")
        /\ Plainly("ID", "@")
        /\ Plainly("Block", "@")
        /\ Plainly("SEL", ":")
    BY DEF Letter, CSymbol, Misread
  <1>3. /\ Plainly("bool", "B")
        /\ Plainly("int", "l")
        /\ Plainly("int8", "c")
        /\ Plainly("int16", "s")
    BY DEF Letter, CSymbol, Misread
  <1>4. /\ Plainly("int32", "i")
        /\ Plainly("int64", "L")
        /\ Plainly("uint", "L")
        /\ Plainly("uint8", "C")
    BY DEF Letter, CSymbol, Misread
  <1>5. /\ Plainly("uint16", "S")
        /\ Plainly("uint32", "I")
        /\ Plainly("uint64", "L")
        /\ Plainly("uintptr", "^")
    BY DEF Letter, CSymbol, Misread
  <1>6. /\ Plainly("float32", "f")
        /\ Plainly("float64", "d")
        /\ Plainly("string", "*")
    BY DEF Letter, CSymbol, Misread
  <1> HIDE DEF Plainly
  <1>7. \A k \in DOMAIN Letter : k # "unsafePointer" => \E x : Plainly(k, x)
    BY <1>1, <1>2, <1>3, <1>4, <1>5, <1>6
  <1>8. \A k, x : Plainly(k, x) => x \in Symbols /\ x # LeftBrace /\ x # RightBrace /\ x # "="
    <2> SUFFICES ASSUME NEW k, NEW x, Plainly(k, x)
                 PROVE  x \in Symbols /\ x # LeftBrace /\ x # RightBrace /\ x # "="
      OBVIOUS
    <2>1. x \in {"#", "@", ":", "B", "l", "c", "s", "i", "L", "C", "S", "I", "f", "d", "*", "^"}
      BY DEF Plainly
    <2>2. x \in Symbols
      BY <2>1 DEF Symbols
    <2>3. x # LeftBrace /\ x # RightBrace
      BY <2>1 DEF LeftBrace, RightBrace
    <2> QED BY <2>1, <2>2, <2>3
  <1>9. ASSUME NEW k \in DOMAIN Letter, k # "unsafePointer"
        PROVE  \E x \in Symbols : /\ Letter[k] = <<x>> /\ x # LeftBrace /\ x # RightBrace /\ x # "="
                                  /\ k # "uintptr" => x # "^"
                                  /\ k \notin Misread => x = CSymbol[k]
    <2>1. PICK x : Plainly(k, x)
      BY <1>7, <1>9
    <2>2. x \in Symbols /\ x # LeftBrace /\ x # RightBrace /\ x # "="
      BY <1>8, <2>1
    <2>3. /\ Letter[k] = <<x>>
          /\ k # "uintptr" => x # "^"
          /\ k \notin Misread => x = CSymbol[k]
      BY <2>1 DEF Plainly
    <2> QED BY <2>2, <2>3
  <1> QED BY <1>9

(* An unsafe.Pointer is encoded like a pointer to void                       *)
(* (objc_runtime_darwin.go:446-447).                                         *)
LEMMA UnsafePointerIs == Letter["unsafePointer"] = <<"^", "v">> /\ CSymbol["unsafePointer"] = "^"
  BY DEF Letter, CSymbol

-----------------------------------------------------------------------------
\* encodeType, by the kinds of types.

\* What encodeType makes of a type, by insidePtr.
Encodings == [BOOLEAN -> Seq(Symbols)]

(* A struct is made of smaller types.                                        *)
LEMMA FieldsAre ==
  ASSUME NEW t \in Types, t.kind = "struct"
  PROVE  /\ Len(t.fields) \in Nat /\ t.name \in Symbols
         /\ \A n \in 1..Len(t.fields) :
               t.fields[n] \in Types /\ Height[t.fields[n]] < Height[t]
  <1>1. t.fields \in Seq(Types) /\ \A n \in 1..Len(t.fields) : Height[t.fields[n]] < Height[t]
    BY TypesAssumption
  <1>2. t.name \in Symbols
    BY DEF Symbols
  <1> QED BY <1>1, <1>2, LenProperties, ElementOfSeq

(* The encodings of a struct's fields (objc_runtime_darwin.go:435-441).      *)
LEMMA OfFieldsIs ==
  ASSUME NEW g \in [Types -> Encodings], NEW t \in Types, t.kind = "struct"
  PROVE  /\ OfFields(g, t) \in Seq(Seq(Symbols)) /\ Len(OfFields(g, t)) = Len(t.fields)
         /\ \A n \in 1..Len(t.fields) : OfFields(g, t)[n] = g[t.fields[n]][FALSE]
  <1> DEFINE V == Seq(Symbols)
             F == Len(t.fields)
  <1>1. F \in Nat /\ \A n \in 1..F : t.fields[n] \in Types
    BY FieldsAre
  <1>2. OfFields(g, t) \in [1..F -> V]
    BY <1>1 DEF OfFields, Encodings
  <1>3. OfFields(g, t) \in Seq(V) /\ Len(OfFields(g, t)) = F
    <2> HIDE DEF V, F
    <2> QED BY <1>1, <1>2, FunctionSeq
  <1>4. \A n \in 1..F : OfFields(g, t)[n] = g[t.fields[n]][FALSE]
    BY DEF OfFields
  <1> QED BY <1>3, <1>4

(* What begins with an encoding and goes on with others, up to a brace.      *)
LEMMA BracedTyped ==
  ASSUME NEW begin \in Seq(Symbols), NEW encs \in Seq(Seq(Symbols))
  PROVE  /\ Braced(begin, encs) = begin \o All(encs) \o <<RightBrace>>
         /\ begin \o All(encs) \in Seq(Symbols) /\ <<RightBrace>> \in Seq(Symbols)
         /\ Braced(begin, encs) \in Seq(Symbols)
  <1>1. PICK all, end : all = All(encs) /\ end = <<RightBrace>>
    OBVIOUS
  <1>2. all \in Seq(Symbols)
    BY <1>1, AllTyped
  <1>3. end \in Seq(Symbols)
    <2>1. RightBrace \in Symbols
      BY DEF Symbols
    <2> QED BY <1>1, <2>1, OneTuple
  <1>4. begin \o all \in Seq(Symbols)
    BY <1>2, ConcatProperties
  <1>5. (begin \o all) \o end \in Seq(Symbols)
    BY <1>3, <1>4, ConcatProperties
  <1>6. Braced(begin, encs) = begin \o all \o end
    BY <1>1 DEF Braced
  <1> QED BY <1>1, <1>3, <1>4, <1>5, <1>6

(* The cases of encodeType (objc_runtime_darwin.go:383-452).                 *)
LEMMA EncodingIs ==
  ASSUME NEW g, NEW t
  PROVE  /\ t.kind \in DOMAIN Letter => \A b \in BOOLEAN : Encoding(g, t, b) = Letter[t.kind]
         /\ t.kind = "ptr" =>
               \A b \in BOOLEAN : Encoding(g, t, b) = Joined(<< <<"^">>, g[t.elem][TRUE]>>)
         /\ t.kind = "struct" =>
               /\ Encoding(g, t, TRUE) = <<LeftBrace, t.name, RightBrace>>
               /\ Encoding(g, t, FALSE) =
                    IF AnyRefused(OfFields(g, t)) THEN Refused
                    ELSE Braced(<<LeftBrace, t.name, "=">>, OfFields(g, t))
         /\ t.kind \notin DOMAIN Letter \cup {"ptr", "struct"} =>
               \A b \in BOOLEAN : Encoding(g, t, b) = Refused
  <1>1. "ptr" \notin DOMAIN Letter /\ "struct" \notin DOMAIN Letter
    BY DEF Letter
  <1>2. CASE t.kind \in DOMAIN Letter
    <2>1. t.kind # "ptr" /\ t.kind # "struct"
      BY <1>1, <1>2
    <2>2. Encoding(g, t, TRUE) = Letter[t.kind]
      BY <1>2, <2>1, Zenon DEF Encoding
    <2>3. Encoding(g, t, FALSE) = Letter[t.kind]
      BY <1>2, <2>1, Zenon DEF Encoding
    <2> QED BY <1>1, <1>2, <2>2, <2>3
  <1>3. CASE t.kind = "ptr"
    <2>1. Encoding(g, t, TRUE) = Joined(<< <<"^">>, g[t.elem][TRUE]>>)
      BY <1>1, <1>3 DEF Encoding
    <2>2. Encoding(g, t, FALSE) = Joined(<< <<"^">>, g[t.elem][TRUE]>>)
      BY <1>1, <1>3 DEF Encoding
    <2> QED BY <1>1, <1>3, <2>1, <2>2
  <1>4. CASE t.kind = "struct"
    <2>1. Encoding(g, t, TRUE) = <<LeftBrace, t.name, RightBrace>>
      BY <1>1, <1>4 DEF Encoding
    <2>2. Encoding(g, t, FALSE) =
                    IF AnyRefused(OfFields(g, t)) THEN Refused
                    ELSE Braced(<<LeftBrace, t.name, "=">>, OfFields(g, t))
      BY <1>1, <1>4 DEF Encoding
    <2> QED BY <1>1, <1>4, <2>1, <2>2
  <1>5. CASE t.kind \notin DOMAIN Letter \cup {"ptr", "struct"}
    <2>1. Encoding(g, t, TRUE) = Refused
      BY <1>5 DEF Encoding
    <2>2. Encoding(g, t, FALSE) = Refused
      BY <1>5 DEF Encoding
    <2> QED BY <1>5, <2>1, <2>2
  <1> QED BY <1>2, <1>3, <1>4, <1>5

(* encodeType makes encodings from encodings                                 *)
(* (objc_runtime_darwin.go:383-452).                                         *)
LEMMA EncodingTyped ==
  ASSUME NEW g \in [Types -> Encodings], NEW t \in Types
  PROVE  \A b \in BOOLEAN : Encoding(g, t, b) \in Seq(Symbols)
  <1>1. CASE t.kind \in DOMAIN Letter
    <2>1. \A b \in BOOLEAN : Encoding(g, t, b) = Letter[t.kind]
      BY <1>1, EncodingIs
    <2>2. CASE t.kind = "unsafePointer"
      <3>1. "^" \in Symbols /\ "v" \in Symbols
        BY DEF Symbols
      <3>2. <<"^", "v">> \in Seq(Symbols)
        BY <3>1, TwoTuple
      <3> QED BY <2>1, <2>2, <3>2, UnsafePointerIs
    <2>3. CASE t.kind # "unsafePointer"
      <3>1. PICK x \in Symbols : Letter[t.kind] = <<x>>
        BY <1>1, <2>3, LetterIs, Zenon
      <3>2. <<x>> \in Seq(Symbols)
        BY OneTuple
      <3> QED BY <2>1, <3>1, <3>2
    <2> QED BY <2>2, <2>3
  <1>2. CASE t.kind = "ptr"
    <2>1. PICK x : x = g[t.elem][TRUE]
      OBVIOUS
    <2>2. x \in Seq(Symbols)
      BY <1>2, <2>1, TypesAssumption DEF Encodings
    <2>3. <<"^">> \in Seq(Symbols)
      <3>1. "^" \in Symbols
        BY DEF Symbols
      <3> QED BY <3>1, OneTuple
    <2>4. << <<"^">>, x>> \in Seq(Seq(Symbols))
      BY <2>2, <2>3, TwoTuple
    <2>5. \A b \in BOOLEAN : Encoding(g, t, b) = Joined(<< <<"^">>, x>>)
      BY <1>2, <2>1, EncodingIs
    <2> QED BY <2>4, <2>5, JoinedTyped
  <1>3. CASE t.kind = "struct"
    <2>1. <<LeftBrace, t.name, RightBrace>> \in Seq(Symbols)
      <3>1. LeftBrace \in Symbols /\ t.name \in Symbols /\ RightBrace \in Symbols
        BY DEF Symbols
      <3> QED BY <3>1, ThreeTuple
    <2>2. Braced(<<LeftBrace, t.name, "=">>, OfFields(g, t)) \in Seq(Symbols)
      <3>1. PICK begin : begin = <<LeftBrace, t.name, "=">>
        OBVIOUS
      <3>2. begin \in Seq(Symbols)
        <4>1. LeftBrace \in Symbols /\ t.name \in Symbols /\ "=" \in Symbols
          BY <1>3 DEF Symbols
        <4> QED BY <3>1, <4>1, ThreeTuple
      <3>3. OfFields(g, t) \in Seq(Seq(Symbols))
        BY <1>3, OfFieldsIs
      <3> QED BY <3>1, <3>2, <3>3, BracedTyped
    <2> QED BY <1>3, <2>1, <2>2, RefusedTyped, EncodingIs
  <1>4. CASE t.kind \notin DOMAIN Letter \cup {"ptr", "struct"}
    BY <1>4, RefusedTyped, EncodingIs
  <1> QED BY <1>1, <1>2, <1>3, <1>4

(* encodeType looks only at the types a type is made of                      *)
(* (objc_runtime_darwin.go:425, 437).                                        *)
LEMMA EncodingLocal ==
  ASSUME NEW g, NEW h, NEW t \in Types,
         \A u \in Types : Height[u] < Height[t] => g[u] = h[u]
  PROVE  \A b \in BOOLEAN : Encoding(g, t, b) = Encoding(h, t, b)
  <1>1. CASE t.kind \in DOMAIN Letter
    BY <1>1, EncodingIs
  <1>2. CASE t.kind = "ptr"
    <2>1. g[t.elem][TRUE] = h[t.elem][TRUE]
      BY <1>2, TypesAssumption
    <2>2. \A b \in BOOLEAN : Encoding(g, t, b) = Joined(<< <<"^">>, g[t.elem][TRUE]>>)
      BY <1>2, EncodingIs, Zenon
    <2>3. \A b \in BOOLEAN : Encoding(h, t, b) = Joined(<< <<"^">>, h[t.elem][TRUE]>>)
      BY <1>2, EncodingIs, Zenon
    <2> QED BY <2>1, <2>2, <2>3, Zenon
  <1>3. CASE t.kind = "struct"
    <2>1. \A n \in 1..Len(t.fields) : g[t.fields[n]] = h[t.fields[n]]
      BY <1>3, FieldsAre
    <2>2. OfFields(g, t) = OfFields(h, t)
      BY <2>1 DEF OfFields
    <2>3. Encoding(g, t, TRUE) = Encoding(h, t, TRUE)
      BY <1>3, EncodingIs
    <2>4. Encoding(g, t, FALSE) = Encoding(h, t, FALSE)
      BY <1>3, <2>2, EncodingIs
    <2> QED BY <2>3, <2>4
  <1>4. CASE t.kind \notin DOMAIN Letter \cup {"ptr", "struct"}
    BY <1>4, EncodingIs
  <1> QED BY <1>1, <1>2, <1>3, <1>4

(* encodeType is a function: its calls of itself come to an end, and what it *)
(* answers is what its body says (objc_runtime_darwin.go:383-452).           *)
LEMMA EncodeTypeIs ==
  /\ encodeType \in [Types -> Encodings]
  /\ \A t \in Types, b \in BOOLEAN : encodeType[t][b] = Encoding(encodeType, t, b)
  <1> DEFINE V == Encodings
             Of(g, t) == [b \in BOOLEAN |-> Encoding(g, t, b)]
             Is(g) == g = [t \in Types |-> Of(g, t)]
  <1>1. \A g \in [Types -> V], t \in Types : Of(g, t) \in V
    BY EncodingTyped DEF Encodings
  <1>2. \A g, h : \A t \in Types :
           (\A u \in Types : Height[u] < Height[t] => g[u] = h[u]) => Of(g, t) = Of(h, t)
    BY EncodingLocal
  <1>3. encodeType = CHOOSE g : Is(g)
    BY DEF encodeType
  <1>4. V # {} /\ Height \in [Types -> Nat]
    <2>1. [b \in BOOLEAN |-> <<>>] \in V
      BY DEF Encodings
    <2> QED BY <2>1, TypesAssumption
  <1>13. \A g, t : \A b \in BOOLEAN : Of(g, t)[b] = Encoding(g, t, b)
    OBVIOUS
  <1> SUFFICES encodeType \in [Types -> V] /\ \A t \in Types : encodeType[t] = Of(encodeType, t)
    BY <1>13
  <1> HIDE DEF V, Of
  <1>5. PICK step : step = [g \in [Types -> V] |-> [t \in Types |-> Of(g, t)]]
    OBVIOUS
  <1>6. \A g \in [Types -> V], t \in Types : step[g][t] = Of(g, t)
    BY <1>5
  <1>7. \A g \in [Types -> V] : step[g] \in [Types -> V]
    BY <1>1, <1>5
  <1>8. Descends(step, Types, V, Height)
    <2> SUFFICES ASSUME NEW g \in [Types -> V], NEW h \in [Types -> V], NEW t \in Types,
                        \A u \in Types : Height[u] < Height[t] => g[u] = h[u]
                 PROVE  step[g][t] = step[h][t]
      BY DEF Descends
    <2>1. Of(g, t) = Of(h, t)
      BY <1>2
    <2> QED BY <1>6, <2>1
  <1>9. PICK f \in [Types -> V] : f = step[f]
    BY <1>4, <1>7, <1>8, Recursion
  <1>10. Is(f)
    BY <1>5, <1>9
  <1>11. ASSUME NEW g, Is(g) PROVE g = f
    <2>1. AgreeUpwards(g, f, Types, Height)
      BY <1>2, <1>10, <1>11 DEF AgreeUpwards
    <2>2. \A t \in Types : g[t] = f[t]
      BY <1>4, <2>1, Agreement
    <2> QED BY <1>10, <1>11, <2>2
  <1>12. encodeType = f
    <2> HIDE DEF Is
    <2> QED BY <1>3, <1>10, <1>11
  <1> QED BY <1>10, <1>12

-----------------------------------------------------------------------------
\* What the runtime should see of a type.

(* The symbols of the C types.                                               *)
LEMMA CSymbolIs ==
  /\ \A k \in DOMAIN CSymbol : CSymbol[k] \in Symbols
  /\ DOMAIN CSymbol = DOMAIN Letter \cup {"ptr"}
  /\ "struct" \notin DOMAIN CSymbol /\ CSymbol["ptr"] = "^"
  <1> DEFINE Marks == {"#", "@", ":", "B", "q", "c", "s", "i", "Q", "C", "S", "I", "f", "d",
                       "^", "*"}
  <1>1. /\ CSymbol["Class"] \in Marks /\ CSymbol["ID"] \in Marks
        /\ CSymbol["Block"] \in Marks /\ CSymbol["SEL"] \in Marks
        /\ CSymbol["bool"] \in Marks /\ CSymbol["int"] \in Marks
        /\ CSymbol["int8"] \in Marks /\ CSymbol["int16"] \in Marks
    BY DEF CSymbol
  <1>2. /\ CSymbol["int32"] \in Marks /\ CSymbol["int64"] \in Marks
        /\ CSymbol["uint"] \in Marks /\ CSymbol["uint8"] \in Marks
        /\ CSymbol["uint16"] \in Marks /\ CSymbol["uint32"] \in Marks
        /\ CSymbol["uint64"] \in Marks /\ CSymbol["uintptr"] \in Marks
    BY DEF CSymbol
  <1>3. /\ CSymbol["float32"] \in Marks /\ CSymbol["float64"] \in Marks
        /\ CSymbol["unsafePointer"] \in Marks /\ CSymbol["ptr"] \in Marks
        /\ CSymbol["string"] \in Marks /\ CSymbol["ptr"] = "^"
    BY DEF CSymbol
  <1>4. DOMAIN CSymbol =
           {"Class", "ID", "Block", "SEL", "bool", "int", "int8", "int16", "int32", "int64",
            "uint", "uint8", "uint16", "uint32", "uint64", "uintptr", "float32", "float64",
            "unsafePointer", "ptr", "string"}
    BY DEF CSymbol
  <1>5. DOMAIN Letter =
           {"Class", "ID", "Block", "SEL", "bool", "int", "int8", "int16", "int32", "int64",
            "uint", "uint8", "uint16", "uint32", "uint64", "uintptr", "float32", "float64",
            "unsafePointer", "string"}
    BY DEF Letter
  <1>6. Marks \subseteq Symbols
    BY DEF Symbols
  <1> HIDE DEF Marks
  <1>7. \A k \in DOMAIN CSymbol : CSymbol[k] \in Marks
    BY <1>1, <1>2, <1>3, <1>4
  <1>8. DOMAIN CSymbol = DOMAIN Letter \cup {"ptr"}
    BY <1>4, <1>5
  <1>9. "struct" \notin DOMAIN CSymbol
    BY <1>4
  <1> QED BY <1>3, <1>6, <1>7, <1>8, <1>9

\* The shapes of a struct's fields.
OfShapes(g, t) == [n \in 1..Len(t.fields) |-> g[t.fields[n]]]

(* The cases of a shape.                                                     *)
LEMMA ShapeCases ==
  ASSUME NEW g, NEW t
  PROVE  /\ t.kind \in DOMAIN CSymbol => Shape(g, t) = <<CSymbol[t.kind]>>
         /\ t.kind = "struct" => Shape(g, t) = Braced(<<LeftBrace>>, OfShapes(g, t))
         /\ t.kind \notin DOMAIN CSymbol \cup {"struct"} => Shape(g, t) = Refused
  <1>1. CASE t.kind \in DOMAIN CSymbol
    <2>1. t.kind # "struct"
      BY <1>1, CSymbolIs
    <2>2. Shape(g, t) = <<CSymbol[t.kind]>>
      BY <1>1, <2>1, Zenon DEF Shape
    <2> QED BY <1>1, <2>1, <2>2
  <1>2. CASE t.kind = "struct"
    <2>1. t.kind \notin DOMAIN CSymbol
      BY <1>2, CSymbolIs
    <2>2. Shape(g, t) = Braced(<<LeftBrace>>, OfShapes(g, t))
      BY <1>2, <2>1, Zenon DEF Shape, OfShapes
    <2> QED BY <1>2, <2>1, <2>2
  <1>3. CASE t.kind \notin DOMAIN CSymbol \cup {"struct"}
    <2>1. Shape(g, t) = Refused
      BY <1>3, Zenon DEF Shape
    <2> QED BY <1>3, <2>1
  <1> QED BY <1>1, <1>2, <1>3

(* The shapes of a struct's fields are shapes.                               *)
LEMMA OfShapesIs ==
  ASSUME NEW g \in [Types -> Seq(Symbols)], NEW t \in Types, t.kind = "struct"
  PROVE  /\ OfShapes(g, t) \in Seq(Seq(Symbols)) /\ Len(OfShapes(g, t)) = Len(t.fields)
         /\ \A n \in 1..Len(t.fields) : OfShapes(g, t)[n] = g[t.fields[n]]
  <1> DEFINE V == Seq(Symbols)
             F == Len(t.fields)
  <1>1. F \in Nat /\ \A n \in 1..F : t.fields[n] \in Types
    BY FieldsAre
  <1>2. OfShapes(g, t) \in [1..F -> V]
    BY <1>1 DEF OfShapes
  <1>3. OfShapes(g, t) \in Seq(V) /\ Len(OfShapes(g, t)) = F
    <2> HIDE DEF V, F
    <2> QED BY <1>1, <1>2, FunctionSeq
  <1>4. \A n \in 1..F : OfShapes(g, t)[n] = g[t.fields[n]]
    BY DEF OfShapes
  <1> QED BY <1>3, <1>4

(* A shape is made of symbols.                                               *)
LEMMA ShapeTyped ==
  ASSUME NEW g \in [Types -> Seq(Symbols)], NEW t \in Types
  PROVE  Shape(g, t) \in Seq(Symbols)
  <1>1. CASE t.kind \in DOMAIN CSymbol
    <2>1. PICK x : x = CSymbol[t.kind]
      OBVIOUS
    <2>2. x \in Symbols
      BY <1>1, <2>1, CSymbolIs
    <2>3. Shape(g, t) = <<x>>
      BY <1>1, <2>1, ShapeCases
    <2> QED BY <2>2, <2>3, OneTuple
  <1>2. CASE t.kind = "struct"
    <2>1. PICK begin : begin = <<LeftBrace>>
      OBVIOUS
    <2>2. begin \in Seq(Symbols)
      <3>1. LeftBrace \in Symbols
        BY DEF Symbols
      <3> QED BY <2>1, <3>1, OneTuple
    <2>3. OfShapes(g, t) \in Seq(Seq(Symbols))
      BY <1>2, OfShapesIs
    <2>4. Braced(begin, OfShapes(g, t)) \in Seq(Symbols)
      BY <2>2, <2>3, BracedTyped
    <2> QED BY <1>2, <2>1, <2>4, ShapeCases
  <1>3. CASE t.kind \notin DOMAIN CSymbol \cup {"struct"}
    BY <1>3, RefusedTyped, ShapeCases
  <1> QED BY <1>1, <1>2, <1>3

(* The function behind shape.                                                *)
LEMMA ShapeIs ==
  /\ shape \in [Types -> Seq(Symbols)]
  /\ \A t \in Types : shape[t] = Shape(shape, t)
  <1> DEFINE V == Seq(Symbols)
             Of(g, t) == Shape(g, t)
             Is(g) == g = [t \in Types |-> Of(g, t)]
  <1>1. \A g \in [Types -> V], t \in Types : Of(g, t) \in V
    BY ShapeTyped
  <1>2. \A g, h : \A t \in Types :
           (\A u \in Types : Height[u] < Height[t] => g[u] = h[u]) => Of(g, t) = Of(h, t)
    <2> SUFFICES ASSUME NEW g, NEW h, NEW t \in Types,
                        \A u \in Types : Height[u] < Height[t] => g[u] = h[u]
                 PROVE  Shape(g, t) = Shape(h, t)
      OBVIOUS
    <2>1. CASE t.kind = "struct"
      <3>1. \A n \in 1..Len(t.fields) : g[t.fields[n]] = h[t.fields[n]]
        BY <2>1, FieldsAre
      <3>2. OfShapes(g, t) = OfShapes(h, t)
        BY <3>1 DEF OfShapes
      <3> QED BY <2>1, <3>2, ShapeCases
    <2>2. CASE t.kind # "struct"
      BY <2>2, ShapeCases
    <2> QED BY <2>1, <2>2
  <1>3. shape = CHOOSE g : Is(g)
    BY DEF shape
  <1>4. V # {} /\ Height \in [Types -> Nat]
    BY RefusedTyped, TypesAssumption
  <1> SUFFICES shape \in [Types -> V] /\ \A t \in Types : shape[t] = Of(shape, t)
    OBVIOUS
  <1> HIDE DEF V, Of
  <1>5. PICK step : step = [g \in [Types -> V] |-> [t \in Types |-> Of(g, t)]]
    OBVIOUS
  <1>6. \A g \in [Types -> V], t \in Types : step[g][t] = Of(g, t)
    BY <1>5
  <1>7. \A g \in [Types -> V] : step[g] \in [Types -> V]
    BY <1>1, <1>5
  <1>8. Descends(step, Types, V, Height)
    <2> SUFFICES ASSUME NEW g \in [Types -> V], NEW h \in [Types -> V], NEW t \in Types,
                        \A u \in Types : Height[u] < Height[t] => g[u] = h[u]
                 PROVE  step[g][t] = step[h][t]
      BY DEF Descends
    <2>1. Of(g, t) = Of(h, t)
      BY <1>2
    <2> QED BY <1>6, <2>1
  <1>9. PICK f \in [Types -> V] : f = step[f]
    BY <1>4, <1>7, <1>8, Recursion
  <1>10. Is(f)
    BY <1>5, <1>9
  <1>11. ASSUME NEW g, Is(g) PROVE g = f
    <2>1. AgreeUpwards(g, f, Types, Height)
      BY <1>2, <1>10, <1>11 DEF AgreeUpwards
    <2>2. \A t \in Types : g[t] = f[t]
      BY <1>4, <2>1, Agreement
    <2> QED BY <1>10, <1>11, <2>2
  <1>12. shape = f
    <2> HIDE DEF Is
    <2> QED BY <1>3, <1>10, <1>11
  <1> QED BY <1>10, <1>12

(* The function behind Readable.                                             *)
LEMMA ReadableIs ==
  /\ readable \in [Types -> BOOLEAN]
  /\ \A t \in Types : readable[t] = ReadRight(readable, t)
  <1> DEFINE V == BOOLEAN
             Of(g, t) == ReadRight(g, t)
             Is(g) == g = [t \in Types |-> Of(g, t)]
  <1>1. \A g \in [Types -> V], t \in Types : Of(g, t) \in V
    BY Zenon DEF ReadRight
  <1>2. \A g, h : \A t \in Types :
           (\A u \in Types : Height[u] < Height[t] => g[u] = h[u]) => Of(g, t) = Of(h, t)
    <2> SUFFICES ASSUME NEW g, NEW h, NEW t \in Types,
                        \A u \in Types : Height[u] < Height[t] => g[u] = h[u]
                 PROVE  ReadRight(g, t) = ReadRight(h, t)
      OBVIOUS
    <2>1. CASE t.kind = "struct"
      <3>1. \A n \in 1..Len(t.fields) : g[t.fields[n]] = h[t.fields[n]]
        BY <2>1, FieldsAre
      <3> QED BY <3>1, Zenon DEF ReadRight
    <2>2. CASE t.kind # "struct"
      BY <2>2, Zenon DEF ReadRight
    <2> QED BY <2>1, <2>2
  <1>3. readable = CHOOSE g : Is(g)
    BY DEF readable
  <1>4. V # {} /\ Height \in [Types -> Nat]
    BY TypesAssumption
  <1> SUFFICES readable \in [Types -> V] /\ \A t \in Types : readable[t] = Of(readable, t)
    OBVIOUS
  <1> HIDE DEF V, Of
  <1>5. PICK step : step = [g \in [Types -> V] |-> [t \in Types |-> Of(g, t)]]
    OBVIOUS
  <1>6. \A g \in [Types -> V], t \in Types : step[g][t] = Of(g, t)
    BY <1>5
  <1>7. \A g \in [Types -> V] : step[g] \in [Types -> V]
    BY <1>1, <1>5
  <1>8. Descends(step, Types, V, Height)
    <2> SUFFICES ASSUME NEW g \in [Types -> V], NEW h \in [Types -> V], NEW t \in Types,
                        \A u \in Types : Height[u] < Height[t] => g[u] = h[u]
                 PROVE  step[g][t] = step[h][t]
      BY DEF Descends
    <2>1. Of(g, t) = Of(h, t)
      BY <1>2
    <2> QED BY <1>6, <2>1
  <1>9. PICK f \in [Types -> V] : f = step[f]
    BY <1>4, <1>7, <1>8, Recursion
  <1>10. Is(f)
    BY <1>5, <1>9
  <1>11. ASSUME NEW g, Is(g) PROVE g = f
    <2>1. AgreeUpwards(g, f, Types, Height)
      BY <1>2, <1>10, <1>11 DEF AgreeUpwards
    <2>2. \A t \in Types : g[t] = f[t]
      BY <1>4, <2>1, Agreement
    <2> QED BY <1>10, <1>11, <2>2
  <1>12. readable = f
    <2> HIDE DEF Is
    <2> QED BY <1>3, <1>10, <1>11
  <1> QED BY <1>10, <1>12

(* A pair, in parts.                                                         *)
LEMMA PairConcat ==
  ASSUME NEW S, NEW x \in S, NEW y \in S
  PROVE  <<x>> \o <<y>> = <<x, y>>
  <1>1. PICK a, b, c, e : a = <<x>> /\ b = <<y>> /\ c = <<x, y>> /\ e = a \o b
    OBVIOUS
  <1>2. a \in Seq(S) /\ Len(a) = 1 /\ a[1] = x /\ b \in Seq(S) /\ Len(b) = 1 /\ b[1] = y
    BY <1>1, OneTuple
  <1>3. c \in Seq(S) /\ Len(c) = 2 /\ c[1] = x /\ c[2] = y
    BY <1>1, TwoTuple
  <1>4. /\ e \in Seq(S) /\ Len(e) = Len(a) + Len(b)
        /\ \A i \in 1..Len(a) : e[i] = a[i]
        /\ \A i \in 1..Len(b) : e[Len(a) + i] = b[i]
    <2>1. a \in Seq(S) /\ b \in Seq(S) /\ e = a \o b
      BY <1>1, <1>2
    <2> QED BY <2>1, ConcatElements
  <1>5. Len(e) = 2 /\ e[1] = x /\ e[2] = y
    <2>1. 1 \in 1..1
      OBVIOUS
    <2> QED BY <1>2, <1>4, <2>1
  <1>6. \A i \in 1..2 : e[i] = c[i]
    <2>1. \A i \in 1..2 : i = 1 \/ i = 2
      OBVIOUS
    <2> QED BY <1>3, <1>5, <2>1
  <1>7. e = c
    BY <1>3, <1>4, <1>5, <1>6, SeqEqual
  <1> QED BY <1>1, <1>7

(* A triple, in parts.                                                       *)
LEMMA TripleConcat ==
  ASSUME NEW S, NEW x \in S, NEW y \in S, NEW z \in S
  PROVE  <<x, y>> \o <<z>> = <<x, y, z>>
  <1>1. PICK a, b, c, e : a = <<x, y>> /\ b = <<z>> /\ c = <<x, y, z>> /\ e = a \o b
    OBVIOUS
  <1>2. /\ a \in Seq(S) /\ Len(a) = 2 /\ a[1] = x /\ a[2] = y
        /\ b \in Seq(S) /\ Len(b) = 1 /\ b[1] = z
    BY <1>1, OneTuple, TwoTuple
  <1>3. c \in Seq(S) /\ Len(c) = 3 /\ c[1] = x /\ c[2] = y /\ c[3] = z
    BY <1>1, ThreeTuple
  <1>4. /\ e \in Seq(S) /\ Len(e) = Len(a) + Len(b)
        /\ \A i \in 1..Len(a) : e[i] = a[i]
        /\ \A i \in 1..Len(b) : e[Len(a) + i] = b[i]
    <2>1. a \in Seq(S) /\ b \in Seq(S) /\ e = a \o b
      BY <1>1, <1>2
    <2> QED BY <2>1, ConcatElements
  <1>5. Len(e) = 3 /\ e[1] = x /\ e[2] = y /\ e[3] = z
    <2>1. 1 \in 1..1 /\ 1 \in 1..2 /\ 2 \in 1..2
      OBVIOUS
    <2> QED BY <1>2, <1>4, <2>1
  <1>6. \A i \in 1..3 : e[i] = c[i]
    <2>1. \A i \in 1..3 : i = 1 \/ i = 2 \/ i = 3
      OBVIOUS
    <2> QED BY <1>3, <1>5, <2>1
  <1>7. e = c
    BY <1>3, <1>4, <1>5, <1>6, SeqEqual
  <1> QED BY <1>1, <1>7

(* What is joined without an error has all of its parts.                     *)
LEMMA JoinedIs ==
  ASSUME NEW encs \in Seq(Seq(Symbols)), Joined(encs) # Refused
  PROVE  /\ \A n \in 1..Len(encs) : encs[n] # Refused
         /\ Joined(encs) = Concatenated(encs)[Len(encs)]
  BY DEF Joined, AnyRefused, All

(* The encoding of a pointer (objc_runtime_darwin.go:424-426).               *)
LEMMA PointerJoined ==
  ASSUME NEW s \in Seq(Symbols), Joined(<< <<"^">>, s>>) # Refused
  PROVE  s # Refused /\ Joined(<< <<"^">>, s>>) = <<"^">> \o s
  <1>1. PICK p, encs : p = <<"^">> /\ encs = <<p, s>>
    OBVIOUS
  <1>2. p \in Seq(Symbols)
    <2>1. "^" \in Symbols
      BY DEF Symbols
    <2> QED BY <1>1, <2>1, OneTuple
  <1>3. encs \in Seq(Seq(Symbols)) /\ Len(encs) = 2 /\ encs[1] = p /\ encs[2] = s
    BY <1>1, <1>2, TwoTuple
  <1>4. Joined(encs) # Refused /\ Joined(encs) = Joined(<< <<"^">>, s>>)
    BY <1>1
  <1>5. (\A n \in 1..2 : encs[n] # Refused) /\ Joined(encs) = Concatenated(encs)[2]
    BY <1>3, <1>4, JoinedIs
  <1>6. PICK c : c = Concatenated(encs)
    OBVIOUS
  <1>7. c[0] = <<>> /\ \A n \in 1..2 : c[n] = c[n - 1] \o encs[n]
    BY <1>3, <1>6, ConcatenatedIs
  <1>8. c[1] = c[0] \o p /\ c[2] = c[1] \o s
    <2>1. 1 \in 1..2 /\ 2 \in 1..2 /\ 1 - 1 = 0 /\ 2 - 1 = 1
      OBVIOUS
    <2> QED BY <1>3, <1>7, <2>1
  <1>9. <<>> \o p = p
    BY <1>2, ConcatEmptySeq
  <1>10. s # Refused
    <2>1. 2 \in 1..2
      OBVIOUS
    <2> QED BY <1>3, <1>5, <2>1
  <1> QED BY <1>1, <1>4, <1>5, <1>6, <1>7, <1>8, <1>9, <1>10

-----------------------------------------------------------------------------
\* A reader that reads one sequence and then another.

(* What a reader does with one symbol.                                       *)
LEMMA AfterOne ==
  ASSUME NEW q, q \in Readers, NEW x \in Symbols
  PROVE  After(q, <<x>>) = Read(q, x)
  <1>1. PICK s, r : s = <<x>> /\ r = Reading(q, s)
    OBVIOUS
  <1>2. s \in Seq(Symbols) /\ Len(s) = 1 /\ s[1] = x
    BY <1>1, OneTuple
  <1>3. r[0] = q /\ \A n \in 1..Len(s) : r[n] = Read(r[n - 1], s[n])
    BY <1>1, <1>2, ReadingIs
  <1>4. r[1] = Read(r[0], s[1])
    <2>1. 1 \in 1..Len(s) /\ 1 - 1 = 0
      BY <1>2
    <2> QED BY <1>3, <2>1
  <1>5. After(q, s) = r[1]
    BY <1>1, <1>2 DEF After
  <1> QED BY <1>1, <1>2, <1>3, <1>4, <1>5

(* A reader that reads nothing stays as it is.                               *)
LEMMA AfterNothing ==
  ASSUME NEW q, q \in Readers
  PROVE  After(q, <<>>) = q
  <1>1. <<>> \in Seq(Symbols) /\ Len(<<>>) = 0
    OBVIOUS
  <1> QED BY <1>1, ReadingIs DEF After

(* A sequence behind another is read from where the other one leads to.      *)
LEMMA AfterConcat ==
  ASSUME NEW q, q \in Readers, NEW s \in Seq(Symbols), NEW t \in Seq(Symbols)
  PROVE  After(q, s \o t) = After(After(q, s), t)
  <1>1. PICK c, M, N : c = s \o t /\ M = Len(s) /\ N = Len(t)
    OBVIOUS
  <1>2. M \in Nat /\ N \in Nat
    BY <1>1, LenProperties
  <1>3. /\ c \in Seq(Symbols) /\ Len(c) = M + N
        /\ \A i \in 1..M : c[i] = s[i]
        /\ \A i \in 1..N : c[M + i] = t[i]
    <2>1. /\ c \in Seq(Symbols) /\ Len(c) = Len(s) + Len(t)
          /\ \A i \in 1..Len(s) : c[i] = s[i]
          /\ \A i \in 1..Len(t) : c[Len(s) + i] = t[i]
      BY <1>1, ConcatElements
    <2> QED BY <1>1, <2>1
  <1>4. PICK a, p, b, all :
           /\ a = Reading(q, s) /\ p = After(q, s)
           /\ b = Reading(p, t) /\ all = Reading(q, c)
    OBVIOUS
  <1>5. a[0] = q /\ \A n \in 1..M : a[n] = Read(a[n - 1], s[n])
    BY <1>1, <1>4, ReadingIs
  <1>6. p = a[M] /\ p \in Readers
    <2>1. p = a[M]
      BY <1>1, <1>4 DEF After
    <2>2. p \in Readers
      BY <1>4, AfterTyped
    <2> QED BY <2>1, <2>2
  <1>7. b[0] = p /\ \A n \in 1..N : b[n] = Read(b[n - 1], t[n])
    BY <1>1, <1>4, <1>6, ReadingIs
  <1>8. all[0] = q /\ \A n \in 1..(M + N) : all[n] = Read(all[n - 1], c[n])
    <2>1. c \in Seq(Symbols)
      BY <1>3
    <2>2. all[0] = q /\ \A n \in 1..Len(c) : all[n] = Read(all[n - 1], c[n])
      BY <1>4, <2>1, ReadingIs
    <2> QED BY <1>3, <2>2
  <1>9. \A n \in 0..M : all[n] = a[n]
    <2> DEFINE S == {n \in 0..M : all[n] = a[n]}
    <2>1. 0 \in S
      BY <1>2, <1>5, <1>8
    <2>2. ASSUME NEW n \in 1..M, n - 1 \in S PROVE n \in S
      <3>1. n \in 1..(M + N) /\ n \in 0..M
        BY <1>2
      <3>2. all[n] = Read(all[n - 1], c[n]) /\ a[n] = Read(a[n - 1], s[n]) /\ c[n] = s[n]
        BY <1>3, <1>5, <1>8, <3>1
      <3>3. all[n - 1] = a[n - 1]
        BY <2>2
      <3> QED BY <3>1, <3>2, <3>3
    <2> HIDE DEF S
    <2>3. \A n \in 0..M : n \in S
      BY <1>2, <2>1, <2>2, InductionUpTo
    <2> QED BY <2>3 DEF S
  <1>10. \A n \in 0..N : all[M + n] = b[n]
    <2> DEFINE S == {n \in 0..N : all[M + n] = b[n]}
    <2>1. 0 \in S
      <3>1. M \in 0..M /\ M + 0 = M /\ 0 \in 0..N
        BY <1>2
      <3> QED BY <1>6, <1>7, <1>9, <3>1
    <2>2. ASSUME NEW n \in 1..N, n - 1 \in S PROVE n \in S
      <3>1. PICK m, k : m = M + n /\ k = M + (n - 1)
        OBVIOUS
      <3>2. m \in 1..(M + N) /\ n \in 0..N /\ m - 1 = k
        BY <1>2, <3>1
      <3>3. all[m] = Read(all[m - 1], c[m])
        BY <1>8, <3>2
      <3>4. b[n] = Read(b[n - 1], t[n]) /\ c[m] = t[n] /\ all[k] = b[n - 1]
        BY <1>3, <1>7, <2>2, <3>1
      <3>5. all[m] = b[n]
        BY <3>2, <3>3, <3>4
      <3> QED BY <3>1, <3>2, <3>5
    <2> HIDE DEF S
    <2>3. \A n \in 0..N : n \in S
      BY <1>2, <2>1, <2>2, InductionUpTo
    <2> QED BY <2>3 DEF S
  <1>11. all[M + N] = b[N]
    <2>1. N \in 0..N
      BY <1>2
    <2> QED BY <1>10, <2>1
  <1>12. After(q, c) = all[M + N]
    BY <1>3, <1>4 DEF After
  <1>13. After(p, t) = b[N]
    BY <1>1, <1>4 DEF After
  <1> QED BY <1>1, <1>4, <1>11, <1>12, <1>13

-----------------------------------------------------------------------------
\* A reader at the beginning of a type, and one behind a "^".
At(d, v) == Reader(d, Nothing, "type", v)
Hidden(d, v) == Reader(d, d, "type", v)

\* In front of the name of a struct.
Named(d, b, v) == Reader(d, b, "name", v)

(* They are readers.                                                         *)
LEMMA ReaderTyped ==
  ASSUME NEW d \in Nat, NEW v \in Seq(Symbols)
  PROVE  /\ At(d, v) \in Readers /\ Hidden(d, v) \in Readers
         /\ At(d + 1, v) \in Readers /\ Reader(d + 1, d, "type", v) \in Readers
         /\ Named(d + 1, Nothing, v) \in Readers /\ Named(d + 1, d, v) \in Readers
  <1>1. d \in Int /\ d + 1 \in Int /\ Nothing \in Int
    BY DEF Nothing
  <1> QED BY <1>1 DEF Reader, Readers, At, Hidden, Named

(* A reader at a type reads a symbol: it sees it.  A "^" leads behind it, a  *)
(* brace to another depth.                                                   *)
LEMMA ReadAt ==
  ASSUME NEW d \in Int, NEW v \in Seq(Symbols), NEW x
  PROVE  Read(At(d, v), x) =
            Reader(d + Opens(x), IF x = "^" THEN d + Opens(x) ELSE Nothing,
                   IF x = LeftBrace THEN "name" ELSE "type",
                   IF x # "=" THEN Append(v, x) ELSE v)
  BY DEF Read, At, Reader, NowBehind

(* A reader behind a "^" sees nothing.                                       *)
LEMMA ReadHidden ==
  ASSUME NEW d \in Int, NEW b \in Int, b # Nothing, NEW v \in Seq(Symbols), NEW x
  PROVE  Read(Reader(d, b, "type", v), x) =
            Reader(d + Opens(x),
                   IF x # "^" /\ d + Opens(x) <= b THEN Nothing ELSE b,
                   IF x = LeftBrace THEN "name" ELSE "type", v)
  BY DEF Read, Reader, NowBehind

(* The name of a struct is passed over.                                      *)
LEMMA ReadName ==
  ASSUME NEW d \in Int, NEW b \in Int, NEW v \in Seq(Symbols), NEW x
  PROVE  Read(Named(d, b, v), x) = Reader(d, b, "type", v)
  BY DEF Read, Reader, Named

(* The symbols of a type, one by one.                                        *)
LEMMA ReadSymbols ==
  ASSUME NEW d \in Nat, NEW v \in Seq(Symbols)
  PROVE  /\ \A x : x # LeftBrace /\ x # RightBrace /\ x # "=" /\ x # "^" =>
               Read(At(d, v), x) = At(d, Append(v, x)) /\ Read(Hidden(d, v), x) = At(d, v)
         /\ Read(At(d, v), "^") = Hidden(d, Append(v, "^"))
         /\ Read(Hidden(d, v), "^") = Hidden(d, v)
         /\ Read(At(d, v), "=") = At(d, v)
         /\ Read(At(d, v), LeftBrace) = Named(d + 1, Nothing, Append(v, LeftBrace))
         /\ Read(At(d + 1, v), RightBrace) = At(d, Append(v, RightBrace))
         /\ Read(Hidden(d, v), LeftBrace) = Named(d + 1, d, v)
         /\ Read(Reader(d + 1, d, "type", v), RightBrace) = At(d, v)
  <1>1. d \in Int /\ d + 1 \in Int /\ d # Nothing
    BY DEF Nothing
  <1>2. /\ "^" # LeftBrace /\ "^" # RightBrace /\ "=" # LeftBrace /\ "=" # RightBrace
        /\ LeftBrace # "^" /\ LeftBrace # "=" /\ RightBrace # "^" /\ RightBrace # "="
    BY DEF LeftBrace, RightBrace
  <1>3. ASSUME NEW x, x # LeftBrace, x # RightBrace, x # "=", x # "^"
        PROVE  Read(At(d, v), x) = At(d, Append(v, x)) /\ Read(Hidden(d, v), x) = At(d, v)
    <2>1. Opens(x) = 0 /\ d + 0 = d
      BY <1>3, OpensIs
    <2>2. Read(At(d, v), x) = At(d, Append(v, x))
      BY <1>1, <1>3, <2>1, ReadAt DEF At
    <2>3. Read(Hidden(d, v), x) = At(d, v)
      BY <1>1, <1>3, <2>1, ReadHidden DEF At, Hidden
    <2> QED BY <2>2, <2>3
  <1>4. Opens("^") = 0 /\ Opens("=") = 0 /\ d + 0 = d
    BY <1>1, <1>2, OpensIs
  <1>5. Read(At(d, v), "^") = Hidden(d, Append(v, "^"))
    BY <1>1, <1>2, <1>4, ReadAt DEF Hidden
  <1>6. Read(Hidden(d, v), "^") = Hidden(d, v)
    BY <1>1, <1>2, <1>4, ReadHidden DEF Hidden
  <1>7. Read(At(d, v), "=") = At(d, v)
    BY <1>1, <1>2, <1>4, ReadAt DEF At
  <1>8. Read(At(d, v), LeftBrace) = Named(d + 1, Nothing, Append(v, LeftBrace))
    BY <1>1, <1>2, OpensIs, ReadAt DEF Named
  <1>9. Read(At(d + 1, v), RightBrace) = At(d, Append(v, RightBrace))
    <2>1. d + 1 + Opens(RightBrace) = d
      BY OpensIs
    <2> QED BY <1>1, <1>2, <2>1, Braces, ReadAt DEF At
  <1>10. Read(Hidden(d, v), LeftBrace) = Named(d + 1, d, v)
    <2>1. ~ (d + Opens(LeftBrace) <= d) /\ d + Opens(LeftBrace) = d + 1
      BY OpensIs
    <2> QED BY <1>1, <2>1, ReadHidden DEF Named, Hidden
  <1>11. Read(Reader(d + 1, d, "type", v), RightBrace) = At(d, v)
    <2>1. d + 1 + Opens(RightBrace) = d /\ d <= d
      BY OpensIs
    <2> QED BY <1>1, <1>2, <2>1, Braces, ReadHidden DEF At
  <1> QED BY <1>3, <1>5, <1>6, <1>7, <1>8, <1>9, <1>10, <1>11

-----------------------------------------------------------------------------
\* What parts of an encoding are read as.

\* e leads from a type to the next one, and shows w.
Reads(e, w) ==
    \A d \in Nat, v \in Seq(Symbols) : After(At(d, v), e) = At(d, v \o w)

\* e is what a "^" points to, and ends there.
Passes(e) ==
    \A d \in Nat, v \in Seq(Symbols) : After(Hidden(d, v), e) = At(d, v)

(* The parts of an encoding may be put together in any order.                *)
LEMMA Associative ==
  ASSUME NEW s, NEW t, NEW u,
         s \in Seq(Symbols) /\ t \in Seq(Symbols) /\ u \in Seq(Symbols)
  PROVE  (s \o t) \o u = s \o (t \o u)
  <1>1. s \in Seq(Symbols) /\ t \in Seq(Symbols) /\ u \in Seq(Symbols)
    OBVIOUS
  <1> QED BY <1>1, ConcatAssociative

(* A symbol and then the others.                                             *)
LEMMA AfterSymbol ==
  ASSUME NEW q, q \in Readers, NEW x \in Symbols, NEW s \in Seq(Symbols)
  PROVE  /\ After(q, <<x>> \o s) = After(Read(q, x), s)
         /\ Read(q, x) \in Readers
  <1>1. <<x>> \in Seq(Symbols)
    BY OneTuple
  <1>2. After(q, <<x>> \o s) = After(After(q, <<x>>), s)
    BY <1>1, AfterConcat
  <1> QED BY <1>2, AfterOne, ReadTyped

(* Nothing shows nothing.                                                    *)
LEMMA ReadsNothing == Reads(<<>>, <<>>)
  <1> SUFFICES ASSUME NEW d \in Nat, NEW v \in Seq(Symbols)
               PROVE  After(At(d, v), <<>>) = At(d, v \o <<>>)
    BY DEF Reads
  <1>1. v \o <<>> = v
    BY ConcatEmptySeq
  <1>2. At(d, v) \in Readers
    BY ReaderTyped
  <1> QED BY <1>1, <1>2, AfterNothing

(* One part after another.                                                   *)
LEMMA ReadsConcat ==
  ASSUME NEW e \in Seq(Symbols), NEW f \in Seq(Symbols),
         NEW w \in Seq(Symbols), NEW u \in Seq(Symbols), Reads(e, w), Reads(f, u)
  PROVE  Reads(e \o f, w \o u)
  <1> SUFFICES ASSUME NEW d \in Nat, NEW v \in Seq(Symbols)
               PROVE  After(At(d, v), e \o f) = At(d, v \o (w \o u))
    BY DEF Reads
  <1>1. At(d, v) \in Readers
    BY ReaderTyped
  <1>2. After(At(d, v), e \o f) = After(After(At(d, v), e), f)
    BY <1>1, AfterConcat, Zenon
  <1>3. After(At(d, v), e) = At(d, v \o w)
    BY DEF Reads
  <1>4. v \o w \in Seq(Symbols)
    BY ConcatProperties
  <1>5. After(At(d, v \o w), f) = At(d, (v \o w) \o u)
    BY <1>4 DEF Reads
  <1>6. (v \o w) \o u = v \o (w \o u)
    BY ConcatAssociative
  <1> QED BY <1>2, <1>3, <1>5, <1>6

(* Any number of parts.                                                      *)
LEMMA ReadsAll ==
  ASSUME NEW encs \in Seq(Seq(Symbols)), NEW shapes \in Seq(Seq(Symbols)),
         Len(encs) = Len(shapes), \A n \in 1..Len(encs) : Reads(encs[n], shapes[n])
  PROVE  Reads(All(encs), All(shapes))
  <1>1. PICK N, c, k : N = Len(encs) /\ c = Concatenated(encs) /\ k = Concatenated(shapes)
    OBVIOUS
  <1>2. N \in Nat /\ N = Len(shapes)
    BY <1>1, LenProperties
  <1>3. /\ c \in [0..N -> Seq(Symbols)] /\ c[0] = <<>>
        /\ \A n \in 1..N : c[n] = c[n - 1] \o encs[n]
    BY <1>1, ConcatenatedIs
  <1>4. /\ k \in [0..N -> Seq(Symbols)] /\ k[0] = <<>>
        /\ \A n \in 1..N : k[n] = k[n - 1] \o shapes[n]
    BY <1>1, <1>2, ConcatenatedIs
  <1> DEFINE S == {n \in 0..N : Reads(c[n], k[n])}
  <1>5. 0 \in S
    <2>1. Reads(c[0], k[0])
      BY <1>3, <1>4, ReadsNothing
    <2> QED BY <1>2, <2>1
  <1>6. ASSUME NEW n \in 1..N, n - 1 \in S PROVE n \in S
    <2>1. n - 1 \in 0..N /\ n \in 0..N /\ n \in 1..Len(encs) /\ n \in 1..Len(shapes)
      BY <1>1, <1>2
    <2>2. PICK e, w, f, u : e = c[n - 1] /\ w = k[n - 1] /\ f = encs[n] /\ u = shapes[n]
      OBVIOUS
    <2>3. e \in Seq(Symbols) /\ w \in Seq(Symbols)
      BY <1>3, <1>4, <2>1, <2>2
    <2>4. f \in Seq(Symbols) /\ u \in Seq(Symbols)
      BY <2>1, <2>2, ElementOfSeq
    <2>5. Reads(e, w)
      BY <1>6, <2>2
    <2>6. Reads(f, u)
      BY <1>1, <2>2
    <2>7. Reads(e \o f, w \o u)
      BY <2>3, <2>4, <2>5, <2>6, ReadsConcat
    <2>8. c[n] = e \o f /\ k[n] = w \o u
      BY <1>3, <1>4, <2>2
    <2>9. Reads(c[n], k[n])
      BY <2>7, <2>8
    <2> QED BY <2>1, <2>9
  <1> HIDE DEF S
  <1>7. \A n \in 0..N : n \in S
    BY <1>2, <1>5, <1>6, InductionUpTo
  <1>8. N \in 0..N
    BY <1>2
  <1>9. Reads(c[N], k[N])
    BY <1>7, <1>8 DEF S
  <1> QED BY <1>1, <1>2, <1>9 DEF All

(* A symbol by itself is a type: it is shown, and a "^" points to it.        *)
LEMMA ReadsSymbol ==
  ASSUME NEW x \in Symbols, x # LeftBrace, x # RightBrace, x # "=", x # "^"
  PROVE  <<x>> \in Seq(Symbols) /\ Reads(<<x>>, <<x>>) /\ Passes(<<x>>)
  <1>1. <<x>> \in Seq(Symbols)
    BY OneTuple
  <1>2. Reads(<<x>>, <<x>>)
    <2> SUFFICES ASSUME NEW d \in Nat, NEW v \in Seq(Symbols)
                 PROVE  After(At(d, v), <<x>>) = At(d, v \o <<x>>)
      BY DEF Reads
    <2>1. At(d, v) \in Readers
      BY ReaderTyped
    <2>2. After(At(d, v), <<x>>) = Read(At(d, v), x)
      BY <2>1, AfterOne
    <2>3. Read(At(d, v), x) = At(d, Append(v, x))
      BY ReadSymbols
    <2> QED BY <2>2, <2>3, AppendIsConcat
  <1>3. Passes(<<x>>)
    <2> SUFFICES ASSUME NEW d \in Nat, NEW v \in Seq(Symbols)
                 PROVE  After(Hidden(d, v), <<x>>) = At(d, v)
      BY DEF Passes
    <2>1. Hidden(d, v) \in Readers
      BY ReaderTyped
    <2> QED BY <2>1, AfterOne, ReadSymbols
  <1> QED BY <1>1, <1>2, <1>3

(* A "^" is shown, and what it points to is not (objc_runtime_darwin.go:424- *)
(* 426, 446-447).                                                            *)
LEMMA PointerReads ==
  ASSUME NEW e \in Seq(Symbols), Passes(e)
  PROVE  Reads(<<"^">> \o e, <<"^">>) /\ Passes(<<"^">> \o e)
  <1>1. "^" \in Symbols
    BY DEF Symbols
  <1>2. Reads(<<"^">> \o e, <<"^">>)
    <2> SUFFICES ASSUME NEW d \in Nat, NEW v \in Seq(Symbols)
                 PROVE  After(At(d, v), <<"^">> \o e) = At(d, v \o <<"^">>)
      BY DEF Reads
    <2>1. At(d, v) \in Readers
      BY ReaderTyped
    <2>2. After(At(d, v), <<"^">> \o e) = After(Read(At(d, v), "^"), e)
      BY <1>1, <2>1, AfterSymbol
    <2>3. Read(At(d, v), "^") = Hidden(d, Append(v, "^"))
      BY ReadSymbols
    <2>4. Append(v, "^") \in Seq(Symbols) /\ Append(v, "^") = v \o <<"^">>
      BY <1>1, AppendProperties, AppendIsConcat
    <2>5. After(Hidden(d, Append(v, "^")), e) = At(d, Append(v, "^"))
      BY <2>4 DEF Passes
    <2> QED BY <2>2, <2>3, <2>4, <2>5
  <1>3. Passes(<<"^">> \o e)
    <2> SUFFICES ASSUME NEW d \in Nat, NEW v \in Seq(Symbols)
                 PROVE  After(Hidden(d, v), <<"^">> \o e) = At(d, v)
      BY DEF Passes
    <2>1. Hidden(d, v) \in Readers
      BY ReaderTyped
    <2>2. After(Hidden(d, v), <<"^">> \o e) = After(Read(Hidden(d, v), "^"), e)
      BY <1>1, <2>1, AfterSymbol
    <2>3. Read(Hidden(d, v), "^") = Hidden(d, v)
      BY ReadSymbols
    <2> QED BY <2>2, <2>3 DEF Passes
  <1> QED BY <1>2, <1>3

(* A "^" ends with the brace of a struct (objc_runtime_darwin.go:428-434).   *)
LEMMA StructPasses ==
  ASSUME NEW name \in Symbols
  PROVE  Passes(<<LeftBrace, name, RightBrace>>)
  <1> SUFFICES ASSUME NEW d \in Nat, NEW v \in Seq(Symbols)
               PROVE  After(Hidden(d, v), <<LeftBrace, name, RightBrace>>) = At(d, v)
    BY DEF Passes
  <1>1. LeftBrace \in Symbols /\ RightBrace \in Symbols
    BY DEF Symbols
  <1>2. PICK b, r, s : b = <<LeftBrace>> /\ r = <<RightBrace>> /\ s = <<LeftBrace, name>>
    OBVIOUS
  <1>3. s \in Seq(Symbols) /\ r \in Seq(Symbols)
    BY <1>1, <1>2, OneTuple, TwoTuple
  <1>4. s = b \o <<name>> /\ <<LeftBrace, name, RightBrace>> = s \o r
    BY <1>1, <1>2, PairConcat, TripleConcat
  <1>5. /\ Hidden(d, v) \in Readers /\ Named(d + 1, d, v) \in Readers
        /\ Reader(d + 1, d, "type", v) \in Readers
    BY ReaderTyped
  <1>6. After(Hidden(d, v), s) = Reader(d + 1, d, "type", v)
    <2>1. <<name>> \in Seq(Symbols)
      BY OneTuple
    <2>2. After(Hidden(d, v), s) = After(Read(Hidden(d, v), LeftBrace), <<name>>)
      <3>1. After(Hidden(d, v), <<LeftBrace>> \o <<name>>)
              = After(Read(Hidden(d, v), LeftBrace), <<name>>)
        BY <1>1, <1>5, <2>1, AfterSymbol, Zenon
      <3> QED BY <1>2, <1>4, <3>1
    <2>3. Read(Hidden(d, v), LeftBrace) = Named(d + 1, d, v)
      BY ReadSymbols
    <2>4. After(Named(d + 1, d, v), <<name>>) = Read(Named(d + 1, d, v), name)
      BY <1>5, AfterOne
    <2>5. Read(Named(d + 1, d, v), name) = Reader(d + 1, d, "type", v)
      BY ReadName
    <2> QED BY <2>2, <2>3, <2>4, <2>5
  <1>7. After(Reader(d + 1, d, "type", v), r) = At(d, v)
    <2>1. After(Reader(d + 1, d, "type", v), r) = Read(Reader(d + 1, d, "type", v), RightBrace)
      BY <1>1, <1>2, <1>5, AfterOne
    <2> QED BY <2>1, ReadSymbols
  <1>8. After(Hidden(d, v), s \o r) = After(After(Hidden(d, v), s), r)
    BY <1>3, <1>5, AfterConcat
  <1> QED BY <1>4, <1>6, <1>7, <1>8

(* A struct by itself shows its braces and its fields                        *)
(* (objc_runtime_darwin.go:431-444).                                         *)
LEMMA StructReads ==
  ASSUME NEW name \in Symbols, NEW encs \in Seq(Seq(Symbols)), NEW shapes \in Seq(Seq(Symbols)),
         Reads(All(encs), All(shapes))
  PROVE  Reads(Braced(<<LeftBrace, name, "=">>, encs), Braced(<<LeftBrace>>, shapes))
  <1>1. LeftBrace \in Symbols /\ RightBrace \in Symbols /\ "=" \in Symbols
    BY DEF Symbols
  <1>2. PICK e, w, b, r, s, n, eq, h :
           /\ e = All(encs) /\ w = All(shapes) /\ b = <<LeftBrace>> /\ r = <<RightBrace>>
           /\ s = <<LeftBrace, name>> /\ n = <<name>> /\ eq = <<"=">>
           /\ h = <<LeftBrace, name, "=">>
    OBVIOUS
  <1>3. /\ e \in Seq(Symbols) /\ w \in Seq(Symbols) /\ Reads(e, w)
        /\ b \in Seq(Symbols) /\ r \in Seq(Symbols) /\ s \in Seq(Symbols)
        /\ n \in Seq(Symbols) /\ eq \in Seq(Symbols) /\ h \in Seq(Symbols)
    BY <1>1, <1>2, AllTyped, OneTuple, TwoTuple, ThreeTuple
  <1>4. s = b \o n /\ h = s \o eq
    BY <1>1, <1>2, PairConcat, TripleConcat
  <1>5. /\ Braced(h, encs) = (h \o e) \o r /\ h \o e \in Seq(Symbols)
        /\ Braced(b, shapes) = (b \o w) \o r /\ b \o w \in Seq(Symbols)
    BY <1>2, <1>3, BracedTyped
  <1> SUFFICES ASSUME NEW d \in Nat, NEW v \in Seq(Symbols)
               PROVE  After(At(d, v), (h \o e) \o r) = At(d, v \o ((b \o w) \o r))
    BY <1>2, <1>5 DEF Reads
  <1>6. PICK v1, v2 : v1 = v \o b /\ v2 = v1 \o w
    OBVIOUS
  <1>7. v1 \in Seq(Symbols) /\ v2 \in Seq(Symbols)
    BY <1>3, <1>6, ConcatProperties
  <1>8. v1 = Append(v, LeftBrace)
    BY <1>1, <1>2, <1>6, AppendIsConcat
  <1>9. v2 \o r = v \o ((b \o w) \o r)
    <2>1. v2 = v \o (b \o w)
      <3>1. (v \o b) \o w = v \o (b \o w)
        <4>1. v \in Seq(Symbols) /\ b \in Seq(Symbols) /\ w \in Seq(Symbols)
          BY <1>3
        <4> QED BY <4>1, Associative
      <3> QED BY <1>6, <3>1
    <2>2. (v \o (b \o w)) \o r = v \o ((b \o w) \o r)
      <3>1. PICK bw : bw = b \o w
        OBVIOUS
      <3>2. v \in Seq(Symbols) /\ bw \in Seq(Symbols) /\ r \in Seq(Symbols)
        BY <1>3, <1>5, <3>1
      <3>3. (v \o bw) \o r = v \o (bw \o r)
        BY <3>2, Associative
      <3> QED BY <3>1, <3>3
    <2> QED BY <2>1, <2>2
  <1>10. d + 1 \in Nat /\ d + 1 \in Int /\ Nothing \in Int
    BY DEF Nothing
  <1>11. /\ At(d, v) \in Readers /\ Named(d + 1, Nothing, v1) \in Readers
         /\ At(d + 1, v1) \in Readers /\ At(d + 1, v2) \in Readers
    BY <1>7, ReaderTyped
  <1>12. After(At(d, v), s) = At(d + 1, v1)
    <2>1. After(At(d, v), s) = After(Read(At(d, v), LeftBrace), n)
      <3>1. After(At(d, v), <<LeftBrace>> \o n) = After(Read(At(d, v), LeftBrace), n)
        BY <1>1, <1>3, <1>11, AfterSymbol, Zenon
      <3> QED BY <1>2, <1>4, <3>1
    <2>2. Read(At(d, v), LeftBrace) = Named(d + 1, Nothing, v1)
      BY <1>8, ReadSymbols
    <2>3. After(Named(d + 1, Nothing, v1), n) = Read(Named(d + 1, Nothing, v1), name)
      BY <1>2, <1>11, AfterOne
    <2>4. Read(Named(d + 1, Nothing, v1), name) = At(d + 1, v1)
      BY <1>7, <1>10, ReadName DEF At
    <2> QED BY <2>1, <2>2, <2>3, <2>4
  <1>13. After(At(d, v), h) = At(d + 1, v1)
    <2>1. After(At(d, v), h) = After(At(d + 1, v1), eq)
      <3>1. After(At(d, v), s \o eq) = After(After(At(d, v), s), eq)
        BY <1>3, <1>11, AfterConcat, Zenon
      <3> QED BY <1>4, <1>12, <3>1
    <2>2. After(At(d + 1, v1), eq) = Read(At(d + 1, v1), "=")
      BY <1>1, <1>2, <1>11, AfterOne
    <2>3. Read(At(d + 1, v1), "=") = At(d + 1, v1)
      BY <1>7, <1>10, ReadSymbols
    <2> QED BY <2>1, <2>2, <2>3
  <1>14. After(At(d, v), h \o e) = At(d + 1, v2)
    <2>1. After(At(d, v), h \o e) = After(At(d + 1, v1), e)
      BY <1>3, <1>11, <1>13, AfterConcat
    <2> QED BY <1>3, <1>6, <1>7, <1>10, <2>1 DEF Reads
  <1>15. After(At(d, v), (h \o e) \o r) = At(d, v2 \o r)
    <2>1. After(At(d, v), (h \o e) \o r) = After(At(d + 1, v2), r)
      <3>1. After(At(d, v), (h \o e) \o r) = After(After(At(d, v), h \o e), r)
        <4>1. h \o e \in Seq(Symbols) /\ r \in Seq(Symbols) /\ At(d, v) \in Readers
          BY <1>3, <1>5, <1>11
        <4> QED BY <4>1, AfterConcat, Zenon
      <3> QED BY <1>14, <3>1
    <2>2. After(At(d + 1, v2), r) = Read(At(d + 1, v2), RightBrace)
      BY <1>1, <1>2, <1>11, AfterOne
    <2>3. Read(At(d + 1, v2), RightBrace) = At(d, Append(v2, RightBrace))
      BY <1>7, ReadSymbols
    <2>4. Append(v2, RightBrace) = v2 \o r
      BY <1>1, <1>2, <1>7, AppendIsConcat
    <2> QED BY <2>1, <2>2, <2>3, <2>4
  <1> QED BY <1>9, <1>15

(* A kind that is encoded by itself, behind a "^" and in front of one        *)
(* (objc_runtime_darwin.go:396-423, 446-449).                                *)
LEMMA LetterReads ==
  ASSUME NEW k \in DOMAIN Letter, k # "uintptr"
  PROVE  /\ Letter[k] \in Seq(Symbols) /\ Passes(Letter[k])
         /\ k \notin Misread => Reads(Letter[k], <<CSymbol[k]>>)
  <1>1. CASE k = "unsafePointer"
    <2>1. /\ "^" \in Symbols /\ "v" \in Symbols /\ "v" # LeftBrace /\ "v" # RightBrace
          /\ "v" # "=" /\ "v" # "^"
      BY DEF Symbols, LeftBrace, RightBrace
    <2>2. PICK p, v, e : p = <<"^">> /\ v = <<"v">> /\ e = <<"^", "v">>
      OBVIOUS
    <2>3. v \in Seq(Symbols) /\ Passes(v)
      BY <2>1, <2>2, ReadsSymbol
    <2>4. Reads(p \o v, p) /\ Passes(p \o v)
      BY <2>2, <2>3, PointerReads
    <2>5. p \o v = e /\ e \in Seq(Symbols)
      BY <2>1, <2>2, PairConcat, TwoTuple
    <2>6. Letter[k] = e /\ <<CSymbol[k]>> = p
      BY <1>1, <2>2, UnsafePointerIs
    <2> QED BY <2>4, <2>5, <2>6
  <1>2. CASE k # "unsafePointer"
    <2>1. PICK x \in Symbols : /\ Letter[k] = <<x>> /\ x # LeftBrace /\ x # RightBrace /\ x # "="
                               /\ k # "uintptr" => x # "^"
                               /\ k \notin Misread => x = CSymbol[k]
      BY <1>2, LetterIs, Zenon
    <2>2. PICK e : e = <<x>>
      OBVIOUS
    <2>3. e \in Seq(Symbols) /\ Reads(e, e) /\ Passes(e)
      BY <2>1, <2>2, ReadsSymbol
    <2>4. Letter[k] = e /\ (k \notin Misread => <<CSymbol[k]>> = e)
      BY <2>1, <2>2
    <2> QED BY <2>3, <2>4
  <1> QED BY <1>1, <1>2

(* The encoding of what a pointer points to is a type, unless it ends with a *)
(* uintptr, which goes on with what follows (objc_runtime_darwin.go:418-419, *)
(* 424-434).                                                                 *)
LEMMA EncodeTypePasses ==
  \A t \in Types : pointee[t] # "uintptr" /\ encodeType[t][TRUE] # Refused
                      => Passes(encodeType[t][TRUE])
  <1> DEFINE Good(t) == pointee[t] # "uintptr" /\ encodeType[t][TRUE] # Refused
                           => Passes(encodeType[t][TRUE])
             S == {n \in Nat : \A t \in Types : Height[t] = n => Good(t)}
  <1>1. ASSUME NEW n \in Nat, \A m \in 0..(n - 1) : m \in S
        PROVE  n \in S
    <2> SUFFICES ASSUME NEW t \in Types, Height[t] = n,
                        pointee[t] # "uintptr", encodeType[t][TRUE] # Refused
                 PROVE  Passes(encodeType[t][TRUE])
      OBVIOUS
    <2>1. encodeType[t][TRUE] = Encoding(encodeType, t, TRUE)
      BY EncodeTypeIs
    <2>2. CASE t.kind \in DOMAIN Letter
      <3>1. encodeType[t][TRUE] = Letter[t.kind]
        BY <2>1, <2>2, EncodingIs
      <3>2. t.kind # "uintptr"
        BY PointeeIs
      <3> QED BY <2>2, <3>1, <3>2, LetterReads
    <2>3. CASE t.kind = "ptr"
      <3>1. PICK u, s, p : u = t.elem /\ s = encodeType[u][TRUE] /\ p = <<"^">>
        OBVIOUS
      <3>2. u \in Types /\ Height[u] < n /\ Height[u] \in Nat
        BY <2>3, <3>1, TypesAssumption
      <3>3. s \in Seq(Symbols)
        BY <3>1, <3>2, EncodeTypeIs DEF Encodings
      <3>4. encodeType[t][TRUE] = Joined(<< <<"^">>, s>>)
        <4>1. Encoding(encodeType, t, TRUE) = Joined(<< <<"^">>, encodeType[t.elem][TRUE]>>)
          BY <2>3, EncodingIs
        <4> QED BY <2>1, <3>1, <4>1
      <3>5. s # Refused /\ encodeType[t][TRUE] = <<"^">> \o s
        BY <3>3, <3>4, PointerJoined
      <3>6. pointee[u] # "uintptr"
        BY <2>3, <3>1, PointeeIs
      <3>7. Passes(s)
        <4>1. PICK k \in 0..(n - 1) : k = Height[u]
          BY <3>2
        <4>2. Good(u)
          BY <1>1, <3>2, <4>1
        <4> QED BY <3>1, <3>5, <3>6, <4>2
      <3> QED BY <3>3, <3>5, <3>7, PointerReads
    <2>4. CASE t.kind = "struct"
      <3>1. encodeType[t][TRUE] = <<LeftBrace, t.name, RightBrace>>
        BY <2>1, <2>4, EncodingIs
      <3>2. t.name \in Symbols
        BY <2>4, FieldsAre
      <3> QED BY <3>1, <3>2, StructPasses
    <2>5. CASE t.kind \notin DOMAIN Letter \cup {"ptr", "struct"}
      BY <2>1, <2>5, EncodingIs
    <2> QED BY <2>2, <2>3, <2>4, <2>5
  <1>2. S = Nat
    <2> S \subseteq Nat
      OBVIOUS
    <2> HIDE DEF S
    <2> QED BY <1>1, CourseOfValues
  <1> HIDE DEF Good
  <1>3. ASSUME NEW t \in Types PROVE Good(t)
    <2>1. Height[t] \in S
      BY <1>2, TypesAssumption
    <2> QED BY <2>1
  <1> QED BY <1>3 DEF Good

(* The encoding of a readable type is read as what the type is               *)
(* (objc_runtime_darwin.go:383-452).                                         *)
LEMMA EncodeTypeReads ==
  \A t \in Types : readable[t] /\ encodeType[t][FALSE] # Refused
                      => Reads(encodeType[t][FALSE], shape[t])
  <1> DEFINE Good(t) == readable[t] /\ encodeType[t][FALSE] # Refused
                           => Reads(encodeType[t][FALSE], shape[t])
             S == {n \in Nat : \A t \in Types : Height[t] = n => Good(t)}
  <1>1. ASSUME NEW n \in Nat, \A m \in 0..(n - 1) : m \in S
        PROVE  n \in S
    <2> SUFFICES ASSUME NEW t \in Types, Height[t] = n,
                        readable[t], encodeType[t][FALSE] # Refused
                 PROVE  Reads(encodeType[t][FALSE], shape[t])
      OBVIOUS
    <2>1. encodeType[t][FALSE] = Encoding(encodeType, t, FALSE)
      BY EncodeTypeIs
    <2>2. shape[t] = Shape(shape, t)
      BY ShapeIs
    <2>3. /\ t.kind \notin Misread /\ pointee[t] # "uintptr"
          /\ t.kind = "struct" => \A m \in 1..Len(t.fields) : readable[t.fields[m]]
      <3>1. ReadRight(readable, t)
        BY ReadableIs
      <3> QED BY <3>1, Zenon DEF ReadRight
    <2>4. CASE t.kind \in DOMAIN Letter
      <3>1. encodeType[t][FALSE] = Letter[t.kind]
        BY <2>1, <2>4, EncodingIs
      <3>2. t.kind # "uintptr"
        BY <2>3, PointeeIs DEF Misread
      <3>3. shape[t] = <<CSymbol[t.kind]>>
        <4>1. t.kind \in DOMAIN CSymbol
          BY <2>4, CSymbolIs
        <4> QED BY <2>2, <4>1, ShapeCases
      <3> QED BY <2>3, <2>4, <3>1, <3>2, <3>3, LetterReads
    <2>5. CASE t.kind = "ptr"
      <3>1. PICK u, s : u = t.elem /\ s = encodeType[u][TRUE]
        OBVIOUS
      <3>2. u \in Types
        BY <2>5, <3>1, TypesAssumption
      <3>3. s \in Seq(Symbols)
        BY <3>1, <3>2, EncodeTypeIs DEF Encodings
      <3>4. encodeType[t][FALSE] = Joined(<< <<"^">>, s>>)
        <4>1. Encoding(encodeType, t, FALSE) = Joined(<< <<"^">>, encodeType[t.elem][TRUE]>>)
          BY <2>5, EncodingIs
        <4> QED BY <2>1, <3>1, <4>1
      <3>5. s # Refused /\ encodeType[t][FALSE] = <<"^">> \o s
        BY <3>3, <3>4, PointerJoined
      <3>6. pointee[u] # "uintptr"
        BY <2>3, <2>5, <3>1, PointeeIs
      <3>7. Passes(s)
        BY <3>1, <3>2, <3>5, <3>6, EncodeTypePasses
      <3>8. shape[t] = <<"^">>
        <4>1. t.kind \in DOMAIN CSymbol /\ CSymbol[t.kind] = "^"
          BY <2>5, CSymbolIs
        <4> QED BY <2>2, <4>1, ShapeCases
      <3> QED BY <3>3, <3>5, <3>7, <3>8, PointerReads
    <2>6. CASE t.kind = "struct"
      <3>1. PICK encs, shapes :
               encs = OfFields(encodeType, t) /\ shapes = OfShapes(shape, t)
        OBVIOUS
      <3>2. /\ encs \in Seq(Seq(Symbols)) /\ Len(encs) = Len(t.fields)
            /\ \A m \in 1..Len(t.fields) : encs[m] = encodeType[t.fields[m]][FALSE]
        BY <2>6, <3>1, EncodeTypeIs, OfFieldsIs
      <3>3. /\ shapes \in Seq(Seq(Symbols)) /\ Len(shapes) = Len(t.fields)
            /\ \A m \in 1..Len(t.fields) : shapes[m] = shape[t.fields[m]]
        BY <2>6, <3>1, ShapeIs, OfShapesIs
      <3>4. /\ ~ AnyRefused(encs)
            /\ encodeType[t][FALSE] = Braced(<<LeftBrace, t.name, "=">>, encs)
        <4>1. Encoding(encodeType, t, FALSE) =
                 IF AnyRefused(encs) THEN Refused
                 ELSE Braced(<<LeftBrace, t.name, "=">>, encs)
          BY <2>6, <3>1, EncodingIs
        <4> QED BY <2>1, <4>1
      <3>5. ASSUME NEW m \in 1..Len(encs) PROVE Reads(encs[m], shapes[m])
        <4>1. PICK u : u = t.fields[m]
          OBVIOUS
        <4>2. u \in Types /\ Height[u] < n /\ Height[u] \in Nat /\ readable[u]
          BY <2>3, <2>6, <3>2, <4>1, FieldsAre, TypesAssumption
        <4>3. encodeType[u][FALSE] # Refused
          BY <3>2, <3>4, <4>1 DEF AnyRefused
        <4>4. PICK k \in 0..(n - 1) : k = Height[u]
          BY <4>2
        <4>5. Good(u)
          BY <1>1, <4>2, <4>4
        <4>6. Reads(encodeType[u][FALSE], shape[u])
          BY <4>2, <4>3, <4>5
        <4> QED BY <3>2, <3>3, <4>1, <4>6
      <3>6. Reads(All(encs), All(shapes))
        BY <3>2, <3>3, <3>5, ReadsAll
      <3>7. t.name \in Symbols
        BY <2>6, FieldsAre
      <3>8. shape[t] = Braced(<<LeftBrace>>, shapes)
        BY <2>2, <2>6, <3>1, ShapeCases
      <3>9. Reads(Braced(<<LeftBrace, t.name, "=">>, encs), Braced(<<LeftBrace>>, shapes))
        BY <3>2, <3>3, <3>6, <3>7, StructReads
      <3> QED BY <3>4, <3>8, <3>9
    <2>7. CASE t.kind \notin DOMAIN Letter \cup {"ptr", "struct"}
      BY <2>1, <2>7, EncodingIs
    <2> QED BY <2>4, <2>5, <2>6, <2>7
  <1>2. S = Nat
    <2> S \subseteq Nat
      OBVIOUS
    <2> HIDE DEF S
    <2> QED BY <1>1, CourseOfValues
  <1> HIDE DEF Good
  <1>3. ASSUME NEW t \in Types PROVE Good(t)
    <2>1. Height[t] \in S
      BY <1>2, TypesAssumption
    <2> QED BY <2>1
  <1> QED BY <1>3 DEF Good

-----------------------------------------------------------------------------
\* encodeFunc.

\* What encodeFunc joins.
FuncParts(fn) ==
    <<IF fn.outs = <<>> THEN <<"v">> ELSE encoded(fn.outs[1]), <<"@">> >>
    \o [n \in 1..(Len(fn.ins) - 1) |-> encoded(fn.ins[n + 1])]

(* The parts of a function's encoding (objc_runtime_darwin.go:461-488).      *)
LEMMA FuncPartsAre ==
  ASSUME NEW fn, fn.ins \in Seq(Types), fn.outs \in Seq(Types),
         Len(fn.outs) <= 1, Len(fn.ins) >= 2
  PROVE  /\ encodeFunc(fn) = Joined(FuncParts(fn))
         /\ FuncParts(fn) \in Seq(Seq(Symbols)) /\ Len(FuncParts(fn)) = Len(fn.ins) + 1
         /\ fn.outs = <<>> => FuncParts(fn)[1] = <<"v">>
         /\ fn.outs # <<>> => fn.outs[1] \in Types /\ Len(fn.outs) = 1
                              /\ FuncParts(fn)[1] = encoded(fn.outs[1])
         /\ FuncParts(fn)[2] = <<"@">>
         /\ \A n \in 2..Len(fn.ins) :
               fn.ins[n] \in Types /\ FuncParts(fn)[n + 1] = encoded(fn.ins[n])
  <1>1. PICK L, o, at, rest, encs :
           /\ L = Len(fn.ins)
           /\ o = IF fn.outs = <<>> THEN <<"v">> ELSE encoded(fn.outs[1])
           /\ at = <<"@">>
           /\ rest = [n \in 1..(L - 1) |-> encoded(fn.ins[n + 1])]
           /\ encs = FuncParts(fn)
    OBVIOUS
  <1>2. L >= 2 /\ encodeFunc(fn) = Joined(encs)
    BY <1>1 DEF encodeFunc, FuncParts
  <1>3. L \in Nat /\ L - 1 \in Nat /\ Len(fn.outs) \in Nat
    BY <1>1, <1>2, LenProperties
  <1>4. \A n \in 2..L : fn.ins[n] \in Types
    <2> SUFFICES ASSUME NEW n \in 2..L PROVE fn.ins[n] \in Types
      OBVIOUS
    <2>1. n \in 1..Len(fn.ins)
      BY <1>1, <1>3
    <2> QED BY <2>1, ElementOfSeq
  <1>5. fn.outs # <<>> => fn.outs[1] \in Types /\ Len(fn.outs) = 1
    <2> SUFFICES ASSUME fn.outs # <<>> PROVE fn.outs[1] \in Types /\ Len(fn.outs) = 1
      OBVIOUS
    <2>1. Len(fn.outs) # 0
      <3>1. PICK outs : outs = fn.outs
        OBVIOUS
      <3>2. outs \in Seq(Types) /\ outs # <<>>
        BY <3>1
      <3> QED BY <3>1, <3>2, EmptySeq
    <2>2. Len(fn.outs) = 1
      <3>1. PICK M : M = Len(fn.outs)
        OBVIOUS
      <3>2. M \in Nat /\ M # 0 /\ M <= 1
        BY <1>3, <2>1, <3>1
      <3>3. M = 1
        BY <3>2
      <3> QED BY <3>1, <3>3, Zenon
    <2>3. 1 \in 1..Len(fn.outs)
      BY <2>2
    <2> QED BY <2>2, <2>3, ElementOfSeq
  <1>6. "v" \in Symbols /\ "@" \in Symbols
    BY DEF Symbols
  <1>7. \A t \in Types : encoded(t) \in Seq(Symbols)
    BY EncodeTypeIs DEF Encodings, encoded
  <1>8. o \in Seq(Symbols) /\ at \in Seq(Symbols)
    BY <1>1, <1>5, <1>6, <1>7, OneTuple
  <1>9. /\ rest \in Seq(Seq(Symbols)) /\ Len(rest) = L - 1
        /\ \A n \in 1..(L - 1) : rest[n] = encoded(fn.ins[n + 1])
    <2>1. \A n \in 1..(L - 1) : n + 1 \in 2..L
      BY <1>3
    <2>2. rest \in [1..(L - 1) -> Seq(Symbols)]
      BY <1>1, <1>4, <1>7, <2>1
    <2>3. rest \in Seq(Seq(Symbols)) /\ Len(rest) = L - 1
      BY <1>3, <2>2, FunctionSeq
    <2> QED BY <1>1, <2>3
  <1>10. PICK two : two = <<o, at>>
    OBVIOUS
  <1>11. two \in Seq(Seq(Symbols)) /\ Len(two) = 2 /\ two[1] = o /\ two[2] = at
    BY <1>8, <1>10, TwoTuple
  <1>12. /\ encs \in Seq(Seq(Symbols)) /\ Len(encs) = 2 + (L - 1)
         /\ \A n \in 1..2 : encs[n] = two[n]
         /\ \A n \in 1..(L - 1) : encs[2 + n] = rest[n]
    <2>1. encs = two \o rest
      BY <1>1, <1>10 DEF FuncParts
    <2>2. two \in Seq(Seq(Symbols)) /\ rest \in Seq(Seq(Symbols))
      BY <1>9, <1>11
    <2>3. /\ encs \in Seq(Seq(Symbols)) /\ Len(encs) = Len(two) + Len(rest)
          /\ \A n \in 1..Len(two) : encs[n] = two[n]
          /\ \A n \in 1..Len(rest) : encs[Len(two) + n] = rest[n]
      BY <2>1, <2>2, ConcatElements
    <2> QED BY <1>9, <1>11, <2>3
  <1>13. Len(encs) = L + 1 /\ encs[1] = o /\ encs[2] = at
    <2>1. 1 \in 1..2 /\ 2 \in 1..2 /\ 2 + (L - 1) = L + 1
      BY <1>3
    <2> QED BY <1>11, <1>12, <2>1
  <1>14. \A n \in 2..L : encs[n + 1] = encoded(fn.ins[n])
    <2> SUFFICES ASSUME NEW n \in 2..L PROVE encs[n + 1] = encoded(fn.ins[n])
      OBVIOUS
    <2>1. PICK m \in 1..(L - 1) : n = m + 1 /\ n + 1 = 2 + m
      <3>1. n - 1 \in 1..(L - 1) /\ n = n - 1 + 1 /\ n + 1 = 2 + (n - 1)
        BY <1>3
      <3> QED BY <3>1
    <2> QED BY <1>9, <1>12, <2>1
  <1>15. fn.outs = <<>> => encs[1] = <<"v">>
    BY <1>1, <1>13
  <1>16. fn.outs # <<>> => encs[1] = encoded(fn.outs[1])
    BY <1>1, <1>13
  <1> QED BY <1>1, <1>2, <1>4, <1>5, <1>12, <1>13, <1>14, <1>15, <1>16

(* encodeFunc answers only when nothing of the function is refused           *)
(* (objc_runtime_darwin.go:455-489).                                         *)
LEMMA AnsweredEncodable ==
  ASSUME NEW fn, fn.ins \in Seq(Types), fn.outs \in Seq(Types), encodeFunc(fn) # Refused
  PROVE  Encodable(fn)
  <1>1. Len(fn.outs) \in Nat /\ Len(fn.ins) \in Nat
    BY LenProperties
  <1>2. Len(fn.outs) <= 1 /\ Len(fn.ins) >= 2
    BY <1>1 DEF encodeFunc
  <1>3. PICK encs : encs = FuncParts(fn)
    OBVIOUS
  <1>4. /\ encs \in Seq(Seq(Symbols)) /\ Len(encs) = Len(fn.ins) + 1
        /\ encodeFunc(fn) = Joined(encs)
        /\ fn.outs # <<>> => encs[1] = encoded(fn.outs[1])
        /\ \A n \in 2..Len(fn.ins) : encs[n + 1] = encoded(fn.ins[n])
    BY <1>2, <1>3, FuncPartsAre
  <1>5. \A n \in 1..(Len(fn.ins) + 1) : encs[n] # Refused
    BY <1>4, JoinedIs
  <1>6. ASSUME NEW n \in 1..Len(fn.outs) PROVE encoded(fn.outs[n]) # Refused
    <2>1. n = 1 /\ fn.outs # <<>> /\ 1 \in 1..(Len(fn.ins) + 1)
      BY <1>1, <1>2, EmptySeq
    <2> QED BY <1>4, <1>5, <2>1
  <1>7. ASSUME NEW n \in 2..Len(fn.ins) PROVE encoded(fn.ins[n]) # Refused
    <2>1. n + 1 \in 1..(Len(fn.ins) + 1)
      BY <1>1
    <2> QED BY <1>4, <1>5, <2>1
  <1> QED BY <1>2, <1>6, <1>7 DEF Encodable

\* What the runtime should see of the result and of the parameters.
SignatureParts(fn) ==
    <<IF fn.outs = <<>> THEN <<"v">> ELSE shape[fn.outs[1]]>>
    \o [n \in 1..Len(fn.ins) |-> shape[fn.ins[n]]]

(* The parts of a function's signature.                                      *)
LEMMA SignaturePartsAre ==
  ASSUME NEW fn, fn.ins \in Seq(Types), fn.outs = <<>> \/ fn.outs[1] \in Types
  PROVE  /\ CSignature(fn) = All(SignatureParts(fn))
         /\ SignatureParts(fn) \in Seq(Seq(Symbols))
         /\ Len(SignatureParts(fn)) = Len(fn.ins) + 1
         /\ fn.outs = <<>> => SignatureParts(fn)[1] = <<"v">>
         /\ fn.outs # <<>> => SignatureParts(fn)[1] = shape[fn.outs[1]]
         /\ \A n \in 1..Len(fn.ins) : SignatureParts(fn)[n + 1] = shape[fn.ins[n]]
  <1>1. PICK L, o, one, rest, parts :
           /\ L = Len(fn.ins)
           /\ o = IF fn.outs = <<>> THEN <<"v">> ELSE shape[fn.outs[1]]
           /\ one = <<o>>
           /\ rest = [n \in 1..L |-> shape[fn.ins[n]]]
           /\ parts = SignatureParts(fn)
    OBVIOUS
  <1>2. L \in Nat
    BY <1>1, LenProperties
  <1>3. o \in Seq(Symbols)
    <2>1. "v" \in Symbols
      BY DEF Symbols
    <2>2. <<"v">> \in Seq(Symbols)
      BY <2>1, OneTuple
    <2> QED BY <1>1, <2>2, ShapeIs
  <1>4. one \in Seq(Seq(Symbols)) /\ Len(one) = 1 /\ one[1] = o
    BY <1>1, <1>3, OneTuple
  <1>5. rest \in Seq(Seq(Symbols)) /\ Len(rest) = L /\ \A n \in 1..L : rest[n] = shape[fn.ins[n]]
    <2>1. \A n \in 1..L : fn.ins[n] \in Types
      BY <1>1, ElementOfSeq
    <2>2. rest \in [1..L -> Seq(Symbols)]
      BY <1>1, <2>1, ShapeIs
    <2>3. rest \in Seq(Seq(Symbols)) /\ Len(rest) = L
      BY <1>2, <2>2, FunctionSeq
    <2> QED BY <1>1, <2>3
  <1>6. parts = one \o rest
    BY <1>1 DEF SignatureParts
  <1>7. /\ parts \in Seq(Seq(Symbols)) /\ Len(parts) = Len(one) + Len(rest)
        /\ \A n \in 1..Len(one) : parts[n] = one[n]
        /\ \A n \in 1..Len(rest) : parts[Len(one) + n] = rest[n]
    <2>1. one \in Seq(Seq(Symbols)) /\ rest \in Seq(Seq(Symbols))
      BY <1>4, <1>5
    <2> QED BY <1>6, <2>1, ConcatElements
  <1>8. Len(parts) = L + 1 /\ parts[1] = o
    <2>1. 1 \in 1..1
      OBVIOUS
    <2> QED BY <1>2, <1>4, <1>5, <1>7, <2>1
  <1>9. \A n \in 1..L : parts[n + 1] = shape[fn.ins[n]]
    <2> SUFFICES ASSUME NEW n \in 1..L PROVE parts[n + 1] = shape[fn.ins[n]]
      OBVIOUS
    <2>1. parts[1 + n] = rest[n]
      BY <1>4, <1>5, <1>7
    <2>2. 1 + n = n + 1
      BY <1>2
    <2> QED BY <1>5, <2>1, <2>2
  <1>10. CSignature(fn) = All(parts)
    BY <1>1 DEF CSignature, SignatureParts
  <1> QED BY <1>1, <1>7, <1>8, <1>9, <1>10

(* What encodeFunc answers for a readable function with an ID as the         *)
(* receiver, is read as the result and the parameters that function has      *)
(* (objc_runtime_darwin.go:454-489).                                         *)
THEOREM EncodeFuncReads ==
  ASSUME NEW fn, fn.ins \in Seq(Types), fn.outs \in Seq(Types),
         ReadableFunc(fn), fn.ins[1] = ID, Encodable(fn)
  PROVE  ReadTypes(encodeFunc(fn)) = CSignature(fn)
  <1>1. PICK L, encs, parts :
           L = Len(fn.ins) /\ encs = FuncParts(fn) /\ parts = SignatureParts(fn)
    OBVIOUS
  <1>2. L >= 2 /\ Len(fn.outs) <= 1
    BY <1>1 DEF Encodable
  <1>3. L \in Nat /\ Len(fn.outs) \in Nat
    BY <1>1, LenProperties
  <1>4. /\ encodeFunc(fn) = Joined(encs)
        /\ encs \in Seq(Seq(Symbols)) /\ Len(encs) = L + 1
        /\ fn.outs = <<>> => encs[1] = <<"v">>
        /\ fn.outs # <<>> => fn.outs[1] \in Types /\ Len(fn.outs) = 1
                             /\ encs[1] = encoded(fn.outs[1])
        /\ encs[2] = <<"@">>
        /\ \A n \in 2..L : fn.ins[n] \in Types /\ encs[n + 1] = encoded(fn.ins[n])
    BY <1>1, <1>2, FuncPartsAre
  <1>5. /\ CSignature(fn) = All(parts)
        /\ parts \in Seq(Seq(Symbols)) /\ Len(parts) = L + 1
        /\ fn.outs = <<>> => parts[1] = <<"v">>
        /\ fn.outs # <<>> => parts[1] = shape[fn.outs[1]]
        /\ \A n \in 1..L : parts[n + 1] = shape[fn.ins[n]]
    BY <1>1, <1>4, SignaturePartsAre
  <1>6. /\ "v" \in Symbols /\ "@" \in Symbols
        /\ "@" # LeftBrace /\ "@" # RightBrace /\ "@" # "^" /\ "@" # "=" /\ "@" # "error"
        /\ "v" # LeftBrace /\ "v" # RightBrace /\ "v" # "^" /\ "v" # "=" /\ "v" # "error"
    BY DEF Symbols, LeftBrace, RightBrace
  <1>7. ASSUME NEW t \in Types, Readable(t), encoded(t) # Refused
        PROVE  Reads(encoded(t), shape[t])
    BY <1>7, EncodeTypeReads DEF Readable, encoded
  <1>8. encs[1] # Refused /\ Reads(encs[1], parts[1])
    <2>1. CASE fn.outs = <<>>
      <3>1. PICK v : v = <<"v">>
        OBVIOUS
      <3>2. v # Refused
        BY <1>6, <3>1 DEF Refused
      <3>3. Reads(v, v)
        BY <1>6, <3>1, ReadsSymbol
      <3> QED BY <1>4, <1>5, <2>1, <3>1, <3>2, <3>3
    <2>2. CASE fn.outs # <<>>
      <3>1. PICK t : t = fn.outs[1]
        OBVIOUS
      <3>2. t \in Types /\ encoded(t) # Refused /\ Readable(t)
        <4>1. 1 \in 1..Len(fn.outs)
          BY <1>4, <2>2
        <4> QED BY <1>4, <2>2, <3>1, <4>1 DEF Encodable, ReadableFunc
      <3>3. Reads(encoded(t), shape[t])
        BY <1>7, <3>2
      <3> QED BY <1>4, <1>5, <2>2, <3>1, <3>2, <3>3
    <2> QED BY <2>1, <2>2
  <1>9. ASSUME NEW n \in 1..L
        PROVE  encs[n + 1] # Refused /\ Reads(encs[n + 1], parts[n + 1])
    <2>1. CASE n = 1
      <3>1. PICK at : at = <<"@">>
        OBVIOUS
      <3>2. at # Refused
        BY <1>6, <3>1 DEF Refused
      <3>3. Reads(at, at)
        BY <1>6, <3>1, ReadsSymbol
      <3>4. n + 1 = 2 /\ encs[n + 1] = at
        BY <1>4, <2>1, <3>1
      <3>5. parts[n + 1] = at
        <4>1. fn.ins[n] = ID /\ ID \in Types
          <5>1. 1 \in 1..Len(fn.ins)
            BY <1>1, <1>2, <1>3
          <5>2. fn.ins[1] \in Types
            BY <5>1, ElementOfSeq
          <5> QED BY <2>1, <5>2
        <4>2. ID.kind = "ID"
          BY DEF ID, Plain
        <4>3. "ID" \in DOMAIN CSymbol /\ CSymbol["ID"] = "@"
          BY DEF CSymbol
        <4>4. shape[ID] = <<CSymbol[ID.kind]>>
          BY <4>1, <4>2, <4>3, ShapeIs, ShapeCases
        <4> QED BY <1>5, <3>1, <4>1, <4>2, <4>3, <4>4
      <3> QED BY <3>2, <3>3, <3>4, <3>5
    <2>2. CASE n # 1
      <3>1. n \in 2..L
        BY <1>3, <2>2
      <3>2. PICK t : t = fn.ins[n]
        OBVIOUS
      <3>3. encs[n + 1] = encoded(t) /\ t \in Types
        BY <1>4, <3>1, <3>2
      <3>4. encoded(t) # Refused /\ Readable(t)
        BY <1>1, <3>1, <3>2 DEF Encodable, ReadableFunc
      <3>5. Reads(encoded(t), shape[t])
        BY <1>7, <3>3, <3>4
      <3> QED BY <1>5, <3>2, <3>3, <3>4, <3>5
    <2> QED BY <2>1, <2>2
  <1>10. \A n \in 1..(L + 1) : encs[n] # Refused /\ Reads(encs[n], parts[n])
    <2> SUFFICES ASSUME NEW n \in 1..(L + 1) PROVE encs[n] # Refused /\ Reads(encs[n], parts[n])
      OBVIOUS
    <2>1. CASE n = 1
      BY <1>8, <2>1
    <2>2. CASE n # 1
      <3>1. PICK m \in 1..L : n = m + 1
        <4>1. n - 1 \in 1..L /\ n = n - 1 + 1
          BY <1>3, <2>2
        <4> QED BY <4>1
      <3> QED BY <1>9, <3>1
    <2> QED BY <2>1, <2>2
  <1>11. encodeFunc(fn) = All(encs)
    BY <1>4, <1>10 DEF Joined, AnyRefused
  <1>12. Reads(All(encs), All(parts))
    BY <1>4, <1>5, <1>10, ReadsAll
  <1>13. PICK w, none : w = All(parts) /\ none = <<>>
    OBVIOUS
  <1>14. w \in Seq(Symbols) /\ none \in Seq(Symbols)
    BY <1>5, <1>13, AllTyped
  <1>15. After(At(0, none), All(encs)) = At(0, none \o w)
    <2>1. 0 \in Nat
      OBVIOUS
    <2> QED BY <1>12, <1>13, <1>14, <2>1 DEF Reads
  <1>16. none \o w = w
    BY <1>13, <1>14, ConcatEmptySeq
  <1>17. At(0, w).seen = w
    BY DEF At, Reader
  <1>18. ReadTypes(encodeFunc(fn)) = After(At(0, none), All(encs)).seen
    BY <1>11, <1>13 DEF ReadTypes, At
  <1> QED BY <1>5, <1>13, <1>15, <1>16, <1>17, <1>18

-----------------------------------------------------------------------------
(* The plans' loops are finite, and names are made of words.                 *)
LEMMA PlanFacts ==
  ASSUME TypeOK, NEW r \in Attempts
  PROVE  /\ plan[r] \in Plans /\ idx[r] \in Nat
         /\ Len(plan[r].protocols) \in Nat /\ Len(plan[r].methods) \in Nat
         /\ Len(plan[r].ivars) \in Nat
         /\ \A n \in 1..Len(plan[r].ivars) : plan[r].ivars[n].name \in Seq(DOMAIN Capital)
  <1>1. plan[r] \in Plans /\ idx[r] \in Nat
    BY DEF TypeOK
  <1> QED BY <1>1, ObjcClassAssumption

(* A setter's selector is longer than the getter's of the same variable      *)
(* (objc_runtime_darwin.go:323, 348-351).                                    *)
LEMMA SetterNotGetter ==
  ASSUME NEW v, v.name \in Seq(DOMAIN Capital), ivarRegex(v.name)
  PROVE  setterSelector(v) # getterSelector(v)
  <1>1. PICK name : name = v.name
    OBVIOUS
  <1>2. PICK T : T = DOMAIN Capital \cup {"set", "is", ":", Capital[name[1]]}
    OBVIOUS
  <1>3. name \in Seq(DOMAIN Capital) /\ name # <<>>
    BY <1>1 DEF ivarRegex
  <1>4. name \in Seq(T) /\ Len(name) \in Nat \ {0}
    BY <1>2, <1>3, SeqMonotonic, LenProperties, EmptySeq
  <1>5. PICK t : t = Tail(name)
    OBVIOUS
  <1>6. t \in Seq(T) /\ Len(t) = Len(name) - 1
    BY <1>3, <1>4, <1>5, HeadTailProperties
  <1>7. PICK c : c = <<Capital[name[1]]>>
    OBVIOUS
  <1>8. c \in Seq(T) /\ Len(c) = 1
    BY <1>2, <1>7
  <1>9. PICK u : u = c \o t
    OBVIOUS
  <1>10. u \in Seq(T) /\ Len(u) = Len(name)
    <2>1. u \in Seq(T) /\ Len(u) = Len(c) + Len(t)
      BY <1>6, <1>8, <1>9, ConcatProperties
    <2> QED BY <1>4, <1>6, <1>8, <2>1
  <1>11. Upper(v.name) = u
    BY <1>1, <1>5, <1>7, <1>9 DEF Upper
  <1>12. PICK s : s = <<"set">> \o u
    OBVIOUS
  <1>13. <<"set">> \in Seq(T) /\ <<":">> \in Seq(T) /\ <<"is">> \in Seq(T)
         /\ Len(<<"set">>) = 1 /\ Len(<<":">>) = 1 /\ Len(<<"is">>) = 1
    BY <1>2
  <1>14. s \in Seq(T) /\ Len(s) = Len(name) + 1
    <2>1. s \in Seq(T) /\ Len(s) = Len(<<"set">>) + Len(u)
      BY <1>10, <1>12, <1>13, ConcatProperties
    <2> QED BY <1>4, <1>10, <1>13, <2>1
  <1>15. Len(setterSelector(v)) = Len(name) + 2
    <2>1. setterSelector(v) = s \o <<":">>
      BY <1>11, <1>12 DEF setterSelector
    <2>2. Len(s \o <<":">>) = Len(s) + Len(<<":">>)
      BY <1>13, <1>14, ConcatProperties
    <2> QED BY <1>4, <1>13, <1>14, <2>1, <2>2
  <1>16. Len(getterSelector(v)) \in {Len(name), Len(name) + 1}
    <2>1. Len(<<"is">> \o u) = Len(<<"is">>) + Len(u)
      BY <1>10, <1>13, ConcatProperties
    <2>2. getterSelector(v) \in {<<"is">> \o u, name}
      BY <1>1, <1>11 DEF getterSelector
    <2> QED BY <1>4, <1>10, <1>13, <2>1, <2>2
  <1> QED BY <1>4, <1>15, <1>16

(* The selectors taken before the next variable.                             *)
LEMMA TakenGrows ==
  ASSUME NEW p, NEW n \in Nat
  PROVE  \A x : x \in TakenBefore(p, n + 1 + 1) <=>
             \/ x \in TakenBefore(p, n + 1)
             \/ x = setterSelector(p.ivars[n + 1]) \/ x = getterSelector(p.ivars[n + 1])
  <1>1. 1..(n + 1 + 1 - 1) = 1..(n + 1 - 1) \cup {n + 1}
    OBVIOUS
  <1> QED BY <1>1 DEF TakenBefore

(* A method's selector is taken before any variable.                         *)
LEMMA MethodsTaken ==
  ASSUME NEW p, NEW n, NEW j \in 1..Len(p.methods)
  PROVE  p.methods[j].sel \in TakenBefore(p, n)
  BY DEF TakenBefore

(* A class with more methods has still what it had.                          *)
LEMMA BehindGrows ==
  ASSUME NEW c, NEW d, c.methods \subseteq d.methods, NEW sel, NEW i, Behind(c, sel, i)
  PROVE  Behind(d, sel, i)
  BY DEF Behind

-----------------------------------------------------------------------------
(* A step ends an attempt early and leaves its class as it is.               *)
Stops(k, how) == pc'[k] = how /\ idx'[k] = idx[k] /\ class'[k] = class[k]

(* A step leaves all of a class but its methods.                             *)
OtherThanMethods(k) ==
    /\ class'[k].state = class[k].state /\ class'[k].protocols = class[k].protocols
    /\ class'[k].ivars = class[k].ivars

(* A class has a method more, unless it had one under that selector          *)
(* (class_addMethod).                                                        *)
Gains(k, sel) ==
    /\ OtherThanMethods(k)
    /\ \/ (\E m \in class[k].methods : m.sel = sel) /\ class'[k].methods = class[k].methods
       \/ /\ \A m \in class[k].methods : m.sel # sel
          /\ \E m : /\ m.sel = sel /\ m.imp = imp[k]
                    /\ class'[k].methods = class[k].methods \cup {m}

(* A new class pair is empty (objc_runtime_darwin.go:255-258).               *)
LEMMA Allocated ==
  ASSUME TypeOK, NEW k \in Attempts, Allocate(k)
  PROVE  /\ pc[k] = "start"
         /\ \/ Stops(k, "error")
            \/ /\ pc'[k] = "protocols" /\ idx'[k] = 0 /\ class'[k].state = "allocated"
               /\ class'[k].protocols = class[k].protocols
               /\ class'[k].methods = class[k].methods /\ class'[k].ivars = class[k].ivars
  BY DEF Allocate, Goto, Fail, Panic, Loop, IsClass, TypeOK, Stops

(* One protocol more, or on to the methods (objc_runtime_darwin.go:259-263). *)
LEMMA ProtocolAdded ==
  ASSUME TypeOK, NEW k \in Attempts, AddProtocol(k)
  PROVE  /\ pc[k] = "protocols"
         /\ class'[k].state = class[k].state /\ class'[k].methods = class[k].methods
         /\ class'[k].ivars = class[k].ivars
         /\ \/ Stops(k, "error")
            \/ /\ idx[k] < Len(plan[k].protocols)
               /\ pc'[k] = pc[k] /\ idx'[k] = idx[k] + 1
               /\ class'[k].protocols = class[k].protocols \cup {plan[k].protocols[idx[k] + 1]}
            \/ /\ ~(idx[k] < Len(plan[k].protocols))
               /\ pc'[k] = "methods" /\ idx'[k] = 0 /\ class'[k] = class[k]
  BY DEF AddProtocol, Goto, Fail, Panic, Loop, IsClass, TypeOK, Stops

(* A method's function, or on to the variables                               *)
(* (objc_runtime_darwin.go:264-275).                                         *)
LEMMA IMPMade ==
  ASSUME TypeOK, NEW k \in Attempts, MakeIMP(k)
  PROVE  /\ pc[k] = "methods" /\ class'[k] = class[k]
         /\ \/ Stops(k, "error")
            \/ /\ idx[k] < Len(plan[k].methods)
               /\ pc'[k] = "addMethod" /\ idx'[k] = idx[k]
               /\ imp'[k] = [does |-> "call", of |-> idx[k] + 1]
               /\ TakesIDAndSEL(plan[k].methods[idx[k] + 1].fn)
            \/ /\ ~(idx[k] < Len(plan[k].methods))
               /\ pc'[k] = "ivars" /\ idx'[k] = 0
  BY DEF MakeIMP, Goto, Fail, Panic, Loop, IsClass, TypeOK, Stops, NewCallback

(* One method more (objc_runtime_darwin.go:276-282).                         *)
LEMMA MethodAdded ==
  ASSUME TypeOK, NEW k \in Attempts, AddMethod(k)
  PROVE  /\ pc[k] = "addMethod"
         /\ \/ Stops(k, "error")
            \/ /\ pc'[k] = "methods" /\ idx'[k] = idx[k] + 1
               /\ \A m \in class[k].methods : m.sel # plan[k].methods[idx[k] + 1].sel
               /\ Gains(k, plan[k].methods[idx[k] + 1].sel)
  <1>1. CASE Stops(k, "error")
    BY <1>1 DEF AddMethod
  <1>2. CASE ~Stops(k, "error")
    <2>1. PICK sel : sel = plan[k].methods[idx[k] + 1].sel
      OBVIOUS
    <2>2. PICK enc : enc = encodeFunc(plan[k].methods[idx[k] + 1].fn)
      OBVIOUS
    <2>3. ~Fail(k)
      BY <1>2 DEF Fail, Goto, Stops, TypeOK
    <2>4. /\ pc[k] = "addMethod" /\ ~HasMethod(k, sel)
          /\ class' = [class EXCEPT ![k] = WithMethod(k, sel, enc)]
          /\ idx' = [idx EXCEPT ![k] = @ + 1] /\ pc' = [pc EXCEPT ![k] = "methods"]
      BY <2>1, <2>2, <2>3 DEF AddMethod, Goto
    <2>5. PICK m : m = [sel |-> sel, imp |-> imp[k], types |-> enc]
      OBVIOUS
    <2>6. class'[k] = [class[k] EXCEPT !.methods = @ \cup {m}]
      BY <2>4, <2>5 DEF WithMethod, TypeOK
    <2>7. OtherThanMethods(k) /\ class'[k].methods = class[k].methods \cup {m}
      BY <2>6 DEF TypeOK, IsClass, OtherThanMethods
    <2>8. m.sel = sel /\ m.imp = imp[k]
      BY <2>5
    <2>9. \A x \in class[k].methods : x.sel # sel
      BY <2>4 DEF HasMethod
    <2>10. Gains(k, sel)
      BY <2>7, <2>8, <2>9 DEF Gains
    <2>11. pc'[k] = "methods" /\ idx'[k] = idx[k] + 1
      BY <2>4 DEF TypeOK
    <2> QED BY <2>1, <2>4, <2>9, <2>10, <2>11
  <1> QED BY <1>1, <1>2

(* One variable more, or on to the registration                              *)
(* (objc_runtime_darwin.go:284-298).                                         *)
LEMMA IvarAdded ==
  ASSUME TypeOK, NEW k \in Attempts, AddIvar(k)
  PROVE  /\ pc[k] = "ivars"
         /\ class'[k].state = class[k].state /\ class'[k].protocols = class[k].protocols
         /\ class'[k].methods = class[k].methods
         /\ \/ Stops(k, "error")
            \/ /\ idx[k] < Len(plan[k].ivars) /\ ivarRegex(plan[k].ivars[idx[k] + 1].name)
               /\ encoded(plan[k].ivars[idx[k] + 1].type) # Refused
               /\ pc'[k] = "attribute" /\ idx'[k] = idx[k]
               /\ class'[k].ivars = class[k].ivars \cup {plan[k].ivars[idx[k] + 1].name}
            \/ /\ ~(idx[k] < Len(plan[k].ivars))
               /\ pc'[k] = "register" /\ idx'[k] = idx[k] /\ class'[k] = class[k]
  BY DEF AddIvar, Goto, Fail, Panic, Loop, IsClass, TypeOK, Stops, Ivar

(* The switch over the attribute (objc_runtime_darwin.go:299-300).           *)
LEMMA AttributeRead ==
  ASSUME TypeOK, NEW k \in Attempts, Attribute(k)
  PROVE  /\ pc[k] = "attribute" /\ idx'[k] = idx[k] /\ class'[k] = class[k]
         /\ \/ Stops(k, "error")
            \/ pc'[k] = "setter" /\ Ivar(k).attribute = "ReadWrite"
            \/ pc'[k] = "getter" /\ Ivar(k).attribute = "ReadOnly"
  BY DEF Attribute, Goto, Fail, Panic, Loop, IsClass, TypeOK, Stops

(* The setter's closure, or a panic (objc_runtime_darwin.go:300-324).          *)
LEMMA SetterMade ==
  ASSUME TypeOK, NEW k \in Attempts, MakeSetter(k)
  PROVE  /\ pc[k] = "setter" /\ idx'[k] = idx[k] /\ class'[k] = class[k]
         /\ \/ pc'[k] = "addSetter" /\ imp'[k] = [does |-> "set", of |-> idx[k] + 1]
            \/ /\ Stops(k, "panicked") /\ callbacks' = callbacks
               /\ callbacks = MaxCallbacks \/ Ivar(k).type.kind \notin CallbackKinds
  <1>1. pc[k] = "setter" /\ MakeAccessor(k, setterType(Ivar(k)), "set", "addSetter")
    BY DEF MakeSetter
  <1>2. CASE NewCallback(k, setterType(Ivar(k)), Accessor(k, "set")) /\ Goto(k, "addSetter")
             /\ UNCHANGED <<plan, idx, class>>
    BY <1>1, <1>2 DEF NewCallback, Accessor, Goto, TypeOK
  <1>3. CASE Panics(setterType(Ivar(k))) /\ Panic(k)
    <2>1. Convertible(setterType(Ivar(k))) \/ Ivar(k).type.kind \notin CallbackKinds
      <3>1. "ID" \in CallbackKinds /\ "SEL" \in CallbackKinds
        BY ObjcClassAssumption
      <3>2. PICK t : t = Ivar(k).type
        OBVIOUS
      <3>3. ID.kind = "ID" /\ SEL.kind = "SEL"
        BY DEF ID, SEL, Plain
      <3> QED BY <3>1, <3>2, <3>3 DEF Convertible, setterType
    <2> QED BY <1>1, <1>3, <2>1 DEF Panics, Panic, Goto, Stops, TypeOK
  <1> QED BY <1>1, <1>2, <1>3 DEF MakeAccessor

(* The getter's closure, or a panic (objc_runtime_darwin.go:326-347).          *)
LEMMA GetterMade ==
  ASSUME TypeOK, NEW k \in Attempts, MakeGetter(k)
  PROVE  /\ pc[k] = "getter" /\ idx'[k] = idx[k] /\ class'[k] = class[k]
         /\ \/ pc'[k] = "addGetter" /\ imp'[k] = [does |-> "get", of |-> idx[k] + 1]
            \/ /\ Stops(k, "panicked") /\ callbacks' = callbacks
               /\ callbacks = MaxCallbacks \/ Ivar(k).type.kind \notin CallbackKinds
  <1>1. pc[k] = "getter" /\ MakeAccessor(k, getterType(Ivar(k)), "get", "addGetter")
    BY DEF MakeGetter
  <1>2. CASE NewCallback(k, getterType(Ivar(k)), Accessor(k, "get")) /\ Goto(k, "addGetter")
             /\ UNCHANGED <<plan, idx, class>>
    BY <1>1, <1>2 DEF NewCallback, Accessor, Goto, TypeOK
  <1>3. CASE Panics(getterType(Ivar(k))) /\ Panic(k)
    <2>1. Convertible(getterType(Ivar(k))) \/ Ivar(k).type.kind \notin CallbackKinds
      <3>1. "ID" \in CallbackKinds /\ "SEL" \in CallbackKinds
        BY ObjcClassAssumption
      <3>2. PICK t : t = Ivar(k).type
        OBVIOUS
      <3>3. ID.kind = "ID" /\ SEL.kind = "SEL"
        BY DEF ID, SEL, Plain
      <3> QED BY <3>1, <3>2, <3>3 DEF Convertible, getterType
    <2> QED BY <1>1, <1>3, <2>1 DEF Panics, Panic, Goto, Stops, TypeOK
  <1> QED BY <1>1, <1>2, <1>3 DEF MakeAccessor

(* The setter gets its method unless the selector is taken                   *)
(* (objc_runtime_darwin.go:323-325).                                         *)
LEMMA SetterAdded ==
  ASSUME TypeOK, NEW k \in Attempts, AddSetter(k)
  PROVE  /\ pc[k] = "addSetter" /\ pc'[k] = "getter" /\ idx'[k] = idx[k]
         /\ Gains(k, setterSelector(Ivar(k)))
  <1>1. PICK sel : sel = setterSelector(Ivar(k))
    OBVIOUS
  <1>2. PICK enc : enc = encodeFunc(setterType(Ivar(k)))
    OBVIOUS
  <1>3. /\ pc[k] = "addSetter" /\ pc'[k] = "getter" /\ idx'[k] = idx[k]
        /\ class' = [class EXCEPT ![k] = WithMethod(k, sel, enc)]
    BY <1>1, <1>2 DEF AddSetter, Goto, TypeOK
  <1>4. class'[k] = WithMethod(k, sel, enc)
    BY <1>3 DEF TypeOK
  <1>5. CASE HasMethod(k, sel)
    <2>1. class'[k] = class[k]
      BY <1>4, <1>5 DEF WithMethod
    <2> QED BY <1>1, <1>3, <1>5, <2>1 DEF HasMethod, Gains, OtherThanMethods
  <1>6. CASE ~HasMethod(k, sel)
    <2>1. PICK m : m = [sel |-> sel, imp |-> imp[k], types |-> enc]
      OBVIOUS
    <2>2. class'[k] = [class[k] EXCEPT !.methods = @ \cup {m}]
      BY <1>4, <1>6, <2>1 DEF WithMethod
    <2>3. OtherThanMethods(k) /\ class'[k].methods = class[k].methods \cup {m}
      BY <2>2 DEF TypeOK, IsClass, OtherThanMethods
    <2>4. m.sel = sel /\ m.imp = imp[k]
      BY <2>1
    <2>5. \A n \in class[k].methods : n.sel # sel
      BY <1>6 DEF HasMethod
    <2> QED BY <1>1, <1>3, <2>3, <2>4, <2>5 DEF Gains
  <1> QED BY <1>5, <1>6

(* The getter gets its method unless the selector is taken                   *)
(* (objc_runtime_darwin.go:348-351).                                         *)
LEMMA GetterAdded ==
  ASSUME TypeOK, NEW k \in Attempts, AddGetter(k)
  PROVE  /\ pc[k] = "addGetter" /\ pc'[k] = "ivars" /\ idx'[k] = idx[k] + 1
         /\ Gains(k, getterSelector(Ivar(k)))
  <1>1. PICK sel : sel = getterSelector(Ivar(k))
    OBVIOUS
  <1>2. PICK enc : enc = encodeFunc(getterType(Ivar(k)))
    OBVIOUS
  <1>3. /\ pc[k] = "addGetter" /\ pc'[k] = "ivars" /\ idx'[k] = idx[k] + 1
        /\ class' = [class EXCEPT ![k] = WithMethod(k, sel, enc)]
    BY <1>1, <1>2 DEF AddGetter, Goto, TypeOK
  <1>4. class'[k] = WithMethod(k, sel, enc)
    BY <1>3 DEF TypeOK
  <1>5. CASE HasMethod(k, sel)
    <2>1. class'[k] = class[k]
      BY <1>4, <1>5 DEF WithMethod
    <2> QED BY <1>1, <1>3, <1>5, <2>1 DEF HasMethod, Gains, OtherThanMethods
  <1>6. CASE ~HasMethod(k, sel)
    <2>1. PICK m : m = [sel |-> sel, imp |-> imp[k], types |-> enc]
      OBVIOUS
    <2>2. class'[k] = [class[k] EXCEPT !.methods = @ \cup {m}]
      BY <1>4, <1>6, <2>1 DEF WithMethod
    <2>3. OtherThanMethods(k) /\ class'[k].methods = class[k].methods \cup {m}
      BY <2>2 DEF TypeOK, IsClass, OtherThanMethods
    <2>4. m.sel = sel /\ m.imp = imp[k]
      BY <2>1
    <2>5. \A n \in class[k].methods : n.sel # sel
      BY <1>6 DEF HasMethod
    <2> QED BY <1>1, <1>3, <2>3, <2>4, <2>5 DEF Gains
  <1> QED BY <1>5, <1>6

(* The class becomes visible (objc_runtime_darwin.go:356-357).               *)
LEMMA Registered ==
  ASSUME TypeOK, NEW k \in Attempts, objc_registerClassPair(k)
  PROVE  /\ pc[k] = "register" /\ pc'[k] = "returned" /\ idx'[k] = idx[k]
         /\ class'[k].state = "registered" /\ class'[k].protocols = class[k].protocols
         /\ class'[k].methods = class[k].methods /\ class'[k].ivars = class[k].ivars
  BY DEF objc_registerClassPair, Goto, Fail, Panic, Loop, IsClass, TypeOK

(* A step of one attempt leaves the others' places, classes and functions    *)
(* alone, and the plans; once the callbacks are used up they stay so.        *)
LEMMA OthersKept ==
  ASSUME TypeOK, NEW k \in Attempts, RegisterClass(k)
  PROVE  /\ plan' = plan
         /\ callbacks = MaxCallbacks => callbacks' = MaxCallbacks
         /\ \A r \in Attempts \ {k} : /\ pc'[r] = pc[r] /\ idx'[r] = idx[r]
                                     /\ imp'[r] = imp[r] /\ class'[r] = class[r]
  <1> USE DEF Goto, Fail, Panic, Loop, NewCallback, Panics, TypeOK
  <1>1. CASE Allocate(k)
    BY <1>1 DEF Allocate
  <1>2. CASE AddProtocol(k)
    BY <1>2 DEF AddProtocol
  <1>3. CASE MakeIMP(k)
    BY <1>3 DEF MakeIMP
  <1>4. CASE AddMethod(k)
    BY <1>4 DEF AddMethod
  <1>5. CASE AddIvar(k)
    BY <1>5 DEF AddIvar
  <1>6. CASE Attribute(k)
    BY <1>6 DEF Attribute
  <1>7. CASE MakeSetter(k)
    BY <1>7 DEF MakeSetter, MakeAccessor
  <1>8. CASE MakeGetter(k)
    BY <1>8 DEF MakeGetter, MakeAccessor
  <1>9. CASE AddSetter(k)
    BY <1>9 DEF AddSetter
  <1>10. CASE AddGetter(k)
    BY <1>10 DEF AddGetter
  <1>11. CASE objc_registerClassPair(k)
    BY <1>11 DEF objc_registerClassPair
  <1> QED BY <1>1, <1>2, <1>3, <1>4, <1>5, <1>6, <1>7, <1>8, <1>9, <1>10,
     <1>11 DEF RegisterClass

(* Every step keeps the types.                                               *)
LEMMA NextTypes ==
  ASSUME TypeOK, NEW k \in Attempts, RegisterClass(k)
  PROVE  TypeOK'
  <1>p. /\ "protocols" \in PCs /\ "methods" \in PCs /\ "addMethod" \in PCs /\ "ivars" \in PCs
        /\ "attribute" \in PCs /\ "setter" \in PCs /\ "addSetter" \in PCs
        /\ "getter" \in PCs /\ "addGetter" \in PCs /\ "register" \in PCs
        /\ "returned" \in PCs /\ "error" \in PCs /\ "panicked" \in PCs
    BY DEF PCs, AtMethods, PastMethods, AtIvar
  <1> USE DEF Goto, Fail, Panic, Loop
  <1>c. ASSUME NEW c, IsClass(c), class' = [class EXCEPT ![k] = c]
        PROVE  class' = [r \in Attempts |-> class'[r]] /\ \A r \in Attempts : IsClass(class'[r])
    BY <1>c DEF TypeOK
  <1>m. \A sel, enc : IsClass(WithMethod(k, sel, enc))
    BY DEF WithMethod, TypeOK, IsClass
  <1>n. ASSUME NEW fn, NEW what \in [does : {"nothing", "call", "set", "get"}, of : Nat],
               NewCallback(k, fn, what)
        PROVE  /\ imp' \in [Attempts -> [does : {"nothing", "call", "set", "get"}, of : Nat]]
               /\ callbacks' \in 0..MaxCallbacks
    <2>1. callbacks' = callbacks + 1 /\ callbacks # MaxCallbacks /\ imp' = [imp EXCEPT ![k] = what]
      BY <1>n DEF NewCallback, Panics
    <2> QED BY <2>1, ObjcClassAssumption DEF TypeOK
  <1>i. /\ idx \in [Attempts -> Nat]
        /\ [idx EXCEPT ![k] = 0] \in [Attempts -> Nat]
        /\ [idx EXCEPT ![k] = @ + 1] \in [Attempts -> Nat]
    BY DEF TypeOK
  <1>w. \A does \in {"call", "set", "get"} :
          [does |-> does, of |-> idx[k] + 1]
          \in [does : {"nothing", "call", "set", "get"}, of : Nat]
    BY DEF TypeOK
  <1>1. CASE Allocate(k)
    <2>1. PICK c : c = [class[k] EXCEPT !.state = "allocated"]
      OBVIOUS
    <2>2. IsClass(c)
      BY <2>1 DEF TypeOK, IsClass
    <2>3. class' = class \/ class' = [class EXCEPT ![k] = c]
      BY <1>1, <2>1 DEF Allocate, Ivar, TypeOK
    <2>4. class' = [r \in Attempts |-> class'[r]] /\ \A r \in Attempts : IsClass(class'[r])
      BY <1>c, <2>2, <2>3 DEF TypeOK
    <2>5. pc' \in [Attempts -> PCs]
      BY <1>1, <1>p DEF Allocate, TypeOK
    <2>6. idx' \in [Attempts -> Nat]
      BY <1>1, <1>i DEF Allocate
    <2> QED BY <1>1, <2>4, <2>5, <2>6 DEF Allocate, TypeOK
  <1>2. CASE AddProtocol(k)
    <2>1. PICK c : c = [class[k] EXCEPT !.protocols = @ \cup {plan[k].protocols[idx[k] + 1]}]
      OBVIOUS
    <2>2. IsClass(c)
      BY <2>1 DEF TypeOK, IsClass
    <2>3. class' = class \/ class' = [class EXCEPT ![k] = c]
      BY <1>2, <2>1 DEF AddProtocol, Ivar, TypeOK
    <2>4. class' = [r \in Attempts |-> class'[r]] /\ \A r \in Attempts : IsClass(class'[r])
      BY <1>c, <2>2, <2>3 DEF TypeOK
    <2>5. pc' \in [Attempts -> PCs]
      BY <1>2, <1>p DEF AddProtocol, TypeOK
    <2>6. idx' \in [Attempts -> Nat]
      BY <1>2, <1>i DEF AddProtocol
    <2> QED BY <1>2, <2>4, <2>5, <2>6 DEF AddProtocol, TypeOK
  <1>3. CASE MakeIMP(k)
    <2>1. (imp' = imp /\ callbacks' = callbacks)
          \/ \E fn : NewCallback(k, fn, [does |-> "call", of |-> idx[k] + 1])
      BY <1>3 DEF MakeIMP
    <2>2. /\ imp' \in [Attempts -> [does : {"nothing", "call", "set", "get"}, of : Nat]]
          /\ callbacks' \in 0..MaxCallbacks
      BY <1>n, <1>w, <2>1 DEF TypeOK
    <2>3. pc' \in [Attempts -> PCs]
      BY <1>3, <1>p DEF MakeIMP, TypeOK
    <2>4. idx' \in [Attempts -> Nat]
      BY <1>3, <1>i DEF MakeIMP
    <2> QED BY <1>3, <2>2, <2>3, <2>4 DEF MakeIMP, TypeOK
  <1>4. CASE AddMethod(k)
    <2>1. class' = class \/ \E sel, enc : class' = [class EXCEPT ![k] = WithMethod(k, sel, enc)]
      BY <1>4 DEF AddMethod
    <2>2. class' = [r \in Attempts |-> class'[r]] /\ \A r \in Attempts : IsClass(class'[r])
      BY <1>c, <1>m, <2>1 DEF TypeOK
    <2> QED BY <1>4, <1>p, <2>2 DEF AddMethod, TypeOK
  <1>5. CASE AddIvar(k)
    <2>1. PICK c : c = [class[k] EXCEPT !.ivars = @ \cup {plan[k].ivars[idx[k] + 1].name}]
      OBVIOUS
    <2>2. IsClass(c)
      BY <2>1 DEF TypeOK, IsClass
    <2>3. class' = class \/ class' = [class EXCEPT ![k] = c]
      BY <1>5, <2>1 DEF AddIvar, Ivar, TypeOK
    <2>4. class' = [r \in Attempts |-> class'[r]] /\ \A r \in Attempts : IsClass(class'[r])
      BY <1>c, <2>2, <2>3 DEF TypeOK
    <2>5. pc' \in [Attempts -> PCs]
      BY <1>5, <1>p DEF AddIvar, TypeOK
    <2>6. idx' \in [Attempts -> Nat]
      BY <1>5, <1>i DEF AddIvar
    <2> QED BY <1>5, <2>4, <2>5, <2>6 DEF AddIvar, TypeOK
  <1>6. CASE Attribute(k)
    BY <1>6, <1>p DEF Attribute, TypeOK
  <1>7. CASE MakeSetter(k)
    <2>1. (imp' = imp /\ callbacks' = callbacks)
          \/ \E fn : NewCallback(k, fn, [does |-> "set", of |-> idx[k] + 1])
      BY <1>7 DEF MakeSetter, MakeAccessor, Accessor
    <2>2. /\ imp' \in [Attempts -> [does : {"nothing", "call", "set", "get"}, of : Nat]]
          /\ callbacks' \in 0..MaxCallbacks
      BY <1>n, <1>w, <2>1 DEF TypeOK
    <2>3. pc' \in [Attempts -> PCs]
      BY <1>7, <1>p DEF MakeSetter, MakeAccessor, Accessor, TypeOK
    <2>4. idx' \in [Attempts -> Nat]
      BY <1>7, <1>i DEF MakeSetter, MakeAccessor, Accessor
    <2> QED BY <1>7, <2>2, <2>3, <2>4 DEF MakeSetter, MakeAccessor, Accessor, TypeOK
  <1>8. CASE MakeGetter(k)
    <2>1. (imp' = imp /\ callbacks' = callbacks)
          \/ \E fn : NewCallback(k, fn, [does |-> "get", of |-> idx[k] + 1])
      BY <1>8 DEF MakeGetter, MakeAccessor, Accessor
    <2>2. /\ imp' \in [Attempts -> [does : {"nothing", "call", "set", "get"}, of : Nat]]
          /\ callbacks' \in 0..MaxCallbacks
      BY <1>n, <1>w, <2>1 DEF TypeOK
    <2>3. pc' \in [Attempts -> PCs]
      BY <1>8, <1>p DEF MakeGetter, MakeAccessor, Accessor, TypeOK
    <2>4. idx' \in [Attempts -> Nat]
      BY <1>8, <1>i DEF MakeGetter, MakeAccessor, Accessor
    <2> QED BY <1>8, <2>2, <2>3, <2>4 DEF MakeGetter, MakeAccessor, Accessor, TypeOK
  <1>9. CASE AddSetter(k)
    <2>1. class' = class \/ \E sel, enc : class' = [class EXCEPT ![k] = WithMethod(k, sel, enc)]
      BY <1>9 DEF AddSetter
    <2>2. class' = [r \in Attempts |-> class'[r]] /\ \A r \in Attempts : IsClass(class'[r])
      BY <1>c, <1>m, <2>1 DEF TypeOK
    <2> QED BY <1>9, <1>p, <2>2 DEF AddSetter, TypeOK
  <1>10. CASE AddGetter(k)
    <2>1. class' = class \/ \E sel, enc : class' = [class EXCEPT ![k] = WithMethod(k, sel, enc)]
      BY <1>10 DEF AddGetter
    <2>2. class' = [r \in Attempts |-> class'[r]] /\ \A r \in Attempts : IsClass(class'[r])
      BY <1>c, <1>m, <2>1 DEF TypeOK
    <2> QED BY <1>10, <1>p, <2>2 DEF AddGetter, TypeOK
  <1>11. CASE objc_registerClassPair(k)
    <2>1. PICK c : c = [class[k] EXCEPT !.state = "registered"]
      OBVIOUS
    <2>2. IsClass(c)
      BY <2>1 DEF TypeOK, IsClass
    <2>3. class' = class \/ class' = [class EXCEPT ![k] = c]
      BY <1>11, <2>1 DEF objc_registerClassPair, Ivar, TypeOK
    <2>4. class' = [r \in Attempts |-> class'[r]] /\ \A r \in Attempts : IsClass(class'[r])
      BY <1>c, <2>2, <2>3 DEF TypeOK
    <2>5. pc' \in [Attempts -> PCs]
      BY <1>11, <1>p DEF objc_registerClassPair, TypeOK
    <2>6. idx' \in [Attempts -> Nat]
      BY <1>11, <1>i DEF objc_registerClassPair
    <2> QED BY <1>11, <2>4, <2>5, <2>6 DEF objc_registerClassPair, TypeOK
  <1> QED BY <1>1, <1>2, <1>3, <1>4, <1>5, <1>6, <1>7, <1>8, <1>9, <1>10,
     <1>11 DEF RegisterClass

(* The loops stay within the plan, and each step of one starts from what the *)
(* step before has left (objc_runtime_darwin.go:259-357).                    *)
LEMMA NextControl ==
  ASSUME IndInv, NEW k \in Attempts, RegisterClass(k), NEW r \in Attempts
  PROVE  ControlOf(r)'
  <1>0. TypeOK /\ ControlOf(r) /\ ControlOf(k)
    BY DEF IndInv
  <1>f. plan' = plan
    BY <1>0, OthersKept
  <1>n. Len(plan[k].protocols) \in Nat /\ Len(plan[k].methods) \in Nat
        /\ Len(plan[k].ivars) \in Nat /\ idx[k] \in Nat
    BY <1>0, PlanFacts
  <1>o. CASE r # k
    <2>1. pc'[r] = pc[r] /\ idx'[r] = idx[r] /\ imp'[r] = imp[r] /\ class'[r] = class[r]
      BY <1>0, <1>o, OthersKept
    <2> QED BY <1>0, <1>f, <2>1 DEF ControlOf, Ivar, AtMethods, AtIvar,
       PastMethods, NoClass
  <1>1. CASE r = k /\ Allocate(k)
    BY <1>0, <1>f, <1>n, <1>1, Allocated DEF Stops, ControlOf, Ivar,
       AtMethods, AtIvar, PastMethods, NoClass
  <1>2. CASE r = k /\ AddProtocol(k)
    BY <1>0, <1>f, <1>n, <1>2, ProtocolAdded DEF Stops, ControlOf, Ivar,
       AtMethods, AtIvar, PastMethods, NoClass
  <1>3. CASE r = k /\ MakeIMP(k)
    BY <1>0, <1>f, <1>n, <1>3, IMPMade DEF Stops, ControlOf, Ivar, AtMethods,
       AtIvar, PastMethods, NoClass
  <1>4. CASE r = k /\ AddMethod(k)
    BY <1>0, <1>f, <1>n, <1>4, MethodAdded DEF Stops, ControlOf, Ivar,
       AtMethods, AtIvar, PastMethods, NoClass, Gains, OtherThanMethods
  <1>5. CASE r = k /\ AddIvar(k)
    BY <1>0, <1>f, <1>n, <1>5, IvarAdded DEF Stops, ControlOf, Ivar,
       AtMethods, AtIvar, PastMethods, NoClass
  <1>6. CASE r = k /\ Attribute(k)
    BY <1>0, <1>f, <1>n, <1>6, AttributeRead DEF Stops, ControlOf, Ivar,
       AtMethods, AtIvar, PastMethods, NoClass
  <1>7. CASE r = k /\ MakeSetter(k)
    BY <1>0, <1>f, <1>n, <1>7, SetterMade DEF Stops, ControlOf, Ivar,
       AtMethods, AtIvar, PastMethods, NoClass
  <1>8. CASE r = k /\ MakeGetter(k)
    BY <1>0, <1>f, <1>n, <1>8, GetterMade DEF Stops, ControlOf, Ivar,
       AtMethods, AtIvar, PastMethods, NoClass
  <1>9. CASE r = k /\ AddSetter(k)
    BY <1>0, <1>f, <1>n, <1>9, SetterAdded DEF Stops, ControlOf, Ivar,
       AtMethods, AtIvar, PastMethods, NoClass, Gains, OtherThanMethods
  <1>10. CASE r = k /\ AddGetter(k)
    BY <1>0, <1>f, <1>n, <1>10, GetterAdded DEF Stops, ControlOf, Ivar,
       AtMethods, AtIvar, PastMethods, NoClass, Gains, OtherThanMethods
  <1>11. CASE r = k /\ objc_registerClassPair(k)
    BY <1>0, <1>f, <1>n, <1>11, Registered DEF Stops, ControlOf, Ivar,
       AtMethods, AtIvar, PastMethods, NoClass
  <1> QED BY <1>o, <1>1, <1>2, <1>3, <1>4, <1>5, <1>6, <1>7, <1>8, <1>9,
     <1>10, <1>11 DEF RegisterClass

(* What a loop has added stays in the class (objc_runtime_darwin.go:259-298).*)
LEMMA NextAdded ==
  ASSUME IndInv, NEW k \in Attempts, RegisterClass(k), NEW r \in Attempts
  PROVE  AddedOf(r)'
  <1>0. TypeOK /\ AddedOf(r) /\ ControlOf(k) /\ AddedOf(k)
    BY DEF IndInv
  <1>f. plan' = plan
    BY <1>0, OthersKept
  <1>n. Len(plan[k].protocols) \in Nat /\ Len(plan[k].methods) \in Nat
        /\ Len(plan[k].ivars) \in Nat /\ idx[k] \in Nat
    BY <1>0, PlanFacts
  <1>o. CASE r # k
    <2>1. pc'[r] = pc[r] /\ idx'[r] = idx[r] /\ imp'[r] = imp[r] /\ class'[r] = class[r]
      BY <1>0, <1>o, OthersKept
    <2> QED BY <1>0, <1>f, <2>1 DEF AddedOf, ControlOf, Ivar, AtMethods,
       AtIvar, PastMethods
  <1>1. CASE r = k /\ Allocate(k)
    BY <1>0, <1>f, <1>n, <1>1, Allocated DEF Stops, AddedOf, ControlOf, Ivar,
       AtMethods, AtIvar, PastMethods
  <1>2. CASE r = k /\ AddProtocol(k)
    BY <1>0, <1>f, <1>n, <1>2, ProtocolAdded DEF Stops, AddedOf, ControlOf,
       Ivar, AtMethods, AtIvar, PastMethods
  <1>3. CASE r = k /\ MakeIMP(k)
    BY <1>0, <1>f, <1>n, <1>3, IMPMade DEF Stops, AddedOf, ControlOf, Ivar,
       AtMethods, AtIvar, PastMethods
  <1>4. CASE r = k /\ AddMethod(k)
    BY <1>0, <1>f, <1>n, <1>4, MethodAdded DEF Stops, AddedOf, ControlOf,
       Ivar, AtMethods, AtIvar, PastMethods, Gains, OtherThanMethods
  <1>5. CASE r = k /\ AddIvar(k)
    BY <1>0, <1>f, <1>n, <1>5, IvarAdded DEF Stops, AddedOf, ControlOf, Ivar,
       AtMethods, AtIvar, PastMethods
  <1>6. CASE r = k /\ Attribute(k)
    BY <1>0, <1>f, <1>n, <1>6, AttributeRead DEF Stops, AddedOf, ControlOf,
       Ivar, AtMethods, AtIvar, PastMethods
  <1>7. CASE r = k /\ MakeSetter(k)
    BY <1>0, <1>f, <1>n, <1>7, SetterMade DEF Stops, AddedOf, ControlOf, Ivar,
       AtMethods, AtIvar, PastMethods
  <1>8. CASE r = k /\ MakeGetter(k)
    BY <1>0, <1>f, <1>n, <1>8, GetterMade DEF Stops, AddedOf, ControlOf, Ivar,
       AtMethods, AtIvar, PastMethods
  <1>9. CASE r = k /\ AddSetter(k)
    BY <1>0, <1>f, <1>n, <1>9, SetterAdded DEF Stops, AddedOf, ControlOf,
       Ivar, AtMethods, AtIvar, PastMethods, Gains, OtherThanMethods
  <1>10. CASE r = k /\ AddGetter(k)
    BY <1>0, <1>f, <1>n, <1>10, GetterAdded DEF Stops, AddedOf, ControlOf,
       Ivar, AtMethods, AtIvar, PastMethods, Gains, OtherThanMethods
  <1>11. CASE r = k /\ objc_registerClassPair(k)
    BY <1>0, <1>f, <1>n, <1>11, Registered DEF Stops, AddedOf, ControlOf,
       Ivar, AtMethods, AtIvar, PastMethods
  <1> QED BY <1>o, <1>1, <1>2, <1>3, <1>4, <1>5, <1>6, <1>7, <1>8, <1>9,
     <1>10, <1>11 DEF RegisterClass

(* A method comes behind its selector with its own function, and nothing     *)
(* takes its place (objc_runtime_darwin.go:264-283, 324, 351).               *)
LEMMA NextMethods ==
  ASSUME IndInv, NEW k \in Attempts, RegisterClass(k), NEW r \in Attempts
  PROVE  MethodsOf(r)'
  <1>0. TypeOK /\ MethodsOf(r) /\ ControlOf(k) /\ MethodsOf(k)
    BY DEF IndInv
  <1>f. plan' = plan
    BY <1>0, OthersKept
  <1>n. Len(plan[k].protocols) \in Nat /\ Len(plan[k].methods) \in Nat
        /\ Len(plan[k].ivars) \in Nat /\ idx[k] \in Nat
    BY <1>0, PlanFacts
  <1>o. CASE r # k
    <2>1. pc'[r] = pc[r] /\ idx'[r] = idx[r] /\ imp'[r] = imp[r] /\ class'[r] = class[r]
      BY <1>0, <1>o, OthersKept
    <2> QED BY <1>0, <1>f, <2>1 DEF MethodsOf, AtMethods, AtIvar, PastMethods
  <1>1. CASE r = k /\ Allocate(k)
    BY <1>0, <1>f, <1>n, <1>1, Allocated DEF Stops, MethodsOf, AtMethods,
       AtIvar, PastMethods
  <1>2. CASE r = k /\ AddProtocol(k)
    BY <1>0, <1>f, <1>n, <1>2, ProtocolAdded DEF Stops, MethodsOf, AtMethods,
       AtIvar, PastMethods
  <1>3. CASE r = k /\ MakeIMP(k)
    BY <1>0, <1>f, <1>n, <1>3, IMPMade DEF Stops, MethodsOf, AtMethods,
       AtIvar, PastMethods, ControlOf
  <1>4. CASE r = k /\ AddMethod(k)
    <2>1. CASE Stops(k, "error")
      BY <1>0, <1>4, <2>1 DEF Stops, MethodsOf, AtMethods, AtIvar, PastMethods
    <2>2. CASE ~Stops(k, "error")
      <3>1. PICK sel : sel = plan[k].methods[idx[k] + 1].sel
        OBVIOUS
      <3>2. /\ pc[k] = "addMethod" /\ pc'[k] = "methods" /\ idx'[k] = idx[k] + 1
            /\ \A m \in class[k].methods : m.sel # sel
            /\ Gains(k, sel)
        BY <1>0, <1>4, <2>2, <3>1, MethodAdded
      <3>3. PICK m : /\ m.sel = sel /\ m.imp = imp[k]
                     /\ class'[k].methods = class[k].methods \cup {m}
        BY <3>2 DEF Gains
      <3>4. Behind(class'[k], sel, [does |-> "call", of |-> idx[k] + 1])
        BY <1>0, <3>2, <3>3 DEF Behind, ControlOf
      <3>5. \A n \in 1..idx[k] :
              Behind(class'[k], plan[k].methods[n].sel, [does |-> "call", of |-> n])
        BY <1>0, <3>2, <3>3, BehindGrows, ZenonT(60) DEF MethodsOf, AtMethods
      <3>6. \A n \in 1..(idx[k] + 1) : n \in 1..idx[k] \/ n = idx[k] + 1
        BY <1>n
      <3> QED BY <1>f, <1>4, <3>1, <3>2, <3>4, <3>5, <3>6
           DEF MethodsOf, AtMethods, AtIvar, PastMethods
    <2> QED BY <2>1, <2>2
  <1>5. CASE r = k /\ AddIvar(k)
    BY <1>0, <1>f, <1>n, <1>5, IvarAdded DEF Stops, MethodsOf, AtMethods,
       AtIvar, PastMethods, Behind
  <1>6. CASE r = k /\ Attribute(k)
    BY <1>0, <1>f, <1>n, <1>6, AttributeRead DEF Stops, MethodsOf, AtMethods,
       AtIvar, PastMethods
  <1>7. CASE r = k /\ MakeSetter(k)
    BY <1>0, <1>f, <1>n, <1>7, SetterMade DEF Stops, MethodsOf, AtMethods,
       AtIvar, PastMethods
  <1>8. CASE r = k /\ MakeGetter(k)
    BY <1>0, <1>f, <1>n, <1>8, GetterMade DEF Stops, MethodsOf, AtMethods,
       AtIvar, PastMethods
  <1>9. CASE r = k /\ AddSetter(k)
    <2>1. PICK sel : sel = setterSelector(Ivar(k))
      OBVIOUS
    <2>2. pc[k] = "addSetter" /\ pc'[k] = "getter" /\ Gains(k, sel)
      BY <1>0, <1>9, <2>1, SetterAdded
    <2>3. class[k].methods \subseteq class'[k].methods
      BY <2>2 DEF Gains
    <2> QED BY <1>0, <1>f, <1>9, <2>2, <2>3, BehindGrows
         DEF MethodsOf, AtMethods, AtIvar, PastMethods
  <1>10. CASE r = k /\ AddGetter(k)
    <2>1. PICK sel : sel = getterSelector(Ivar(k))
      OBVIOUS
    <2>2. pc[k] = "addGetter" /\ pc'[k] = "ivars" /\ Gains(k, sel)
      BY <1>0, <1>10, <2>1, GetterAdded
    <2>3. class[k].methods \subseteq class'[k].methods
      BY <2>2 DEF Gains
    <2> QED BY <1>0, <1>f, <1>10, <2>2, <2>3, BehindGrows
         DEF MethodsOf, AtMethods, AtIvar, PastMethods
  <1>11. CASE r = k /\ objc_registerClassPair(k)
    BY <1>0, <1>f, <1>n, <1>11, Registered DEF Stops, MethodsOf, AtMethods,
       AtIvar, PastMethods, Behind
  <1> QED BY <1>o, <1>1, <1>2, <1>3, <1>4, <1>5, <1>6, <1>7, <1>8, <1>9,
     <1>10, <1>11 DEF RegisterClass

(* class_addMethod keeps the method a selector has, and only the plan's      *)
(* definitions up to the current one have asked for selectors.               *)
LEMMA NextSelectors ==
  ASSUME IndInv, NEW k \in Attempts, RegisterClass(k), NEW r \in Attempts
  PROVE  SelectorsOf(r)'
  <1>0. TypeOK /\ SelectorsOf(r) /\ ControlOf(k) /\ SelectorsOf(k)
    BY DEF IndInv
  <1>f. plan' = plan
    BY <1>0, OthersKept
  <1>n. Len(plan[k].protocols) \in Nat /\ Len(plan[k].methods) \in Nat
        /\ Len(plan[k].ivars) \in Nat /\ idx[k] \in Nat
    BY <1>0, PlanFacts
  <1>o. CASE r # k
    <2>1. pc'[r] = pc[r] /\ idx'[r] = idx[r] /\ imp'[r] = imp[r] /\ class'[r] = class[r]
      BY <1>0, <1>o, OthersKept
    <2> QED BY <1>0, <1>f, <2>1 DEF SelectorsOf, Ivar, AtMethods
  <1>1. CASE r = k /\ Allocate(k)
    BY <1>0, <1>f, <1>n, <1>1, Allocated DEF Stops, SelectorsOf, Ivar,
       AtMethods, ControlOf, NoClass
  <1>2. CASE r = k /\ AddProtocol(k)
    BY <1>0, <1>f, <1>n, <1>2, ProtocolAdded DEF Stops, SelectorsOf, Ivar,
       AtMethods, ControlOf
  <1>3. CASE r = k /\ MakeIMP(k)
    BY <1>0, <1>f, <1>n, <1>3, IMPMade DEF Stops, SelectorsOf, Ivar,
       AtMethods, ControlOf
  <1>4. CASE r = k /\ AddMethod(k)
    <2>1. CASE Stops(k, "error")
      BY <1>0, <1>4, <2>1 DEF Stops, SelectorsOf, AtMethods
    <2>2. CASE ~Stops(k, "error")
      <3>1. PICK sel : sel = plan[k].methods[idx[k] + 1].sel
        OBVIOUS
      <3>2. pc[k] = "addMethod" /\ pc'[k] = "methods" /\ Gains(k, sel)
        BY <1>0, <1>4, <2>2, <3>1, MethodAdded
      <3>3. sel \in TakenBefore(plan[k], 1)
        <4>1. idx[k] + 1 \in 1..Len(plan[k].methods)
          BY <1>0, <1>n, <3>2 DEF ControlOf
        <4> QED BY <3>1, <4>1, MethodsTaken
      <3>4. \A m1, m2 \in class'[k].methods : m1.sel = m2.sel => m1 = m2
        BY <1>0, <3>2 DEF SelectorsOf, Gains
      <3>5. \A m \in class'[k].methods : m.sel \in TakenBefore(plan[k], 1)
        BY <1>0, <3>2, <3>3 DEF SelectorsOf, Gains, AtMethods
      <3> QED BY <1>f, <1>4, <3>2, <3>4, <3>5 DEF SelectorsOf
    <2> QED BY <2>1, <2>2
  <1>5. CASE r = k /\ AddIvar(k)
    BY <1>0, <1>f, <1>n, <1>5, IvarAdded DEF Stops, SelectorsOf, Ivar,
       AtMethods
  <1>6. CASE r = k /\ Attribute(k)
    BY <1>0, <1>f, <1>n, <1>6, AttributeRead DEF Stops, SelectorsOf, Ivar,
       AtMethods
  <1>7. CASE r = k /\ MakeSetter(k)
    BY <1>0, <1>f, <1>n, <1>7, SetterMade DEF Stops, SelectorsOf, Ivar,
       AtMethods
  <1>8. CASE r = k /\ MakeGetter(k)
    BY <1>0, <1>f, <1>n, <1>8, GetterMade DEF Stops, SelectorsOf, Ivar,
       AtMethods
  <1>9. CASE r = k /\ AddSetter(k)
    <2>1. PICK sel : sel = setterSelector(Ivar(k))
      OBVIOUS
    <2>2. pc[k] = "addSetter" /\ pc'[k] = "getter" /\ idx'[k] = idx[k] /\ Gains(k, sel)
      BY <1>0, <1>9, <2>1, SetterAdded
    <2>3. \A m1, m2 \in class'[k].methods : m1.sel = m2.sel => m1 = m2
      BY <1>0, <2>2 DEF SelectorsOf, Gains
    <2>4. \A m \in class'[k].methods :
            m.sel \in TakenBefore(plan[k], idx[k] + 1) \/ m.sel = sel
      BY <1>0, <2>2 DEF SelectorsOf, Gains
    <2>5. sel = setterSelector(plan[k].ivars[idx[k] + 1])
      BY <2>1 DEF Ivar
    <2> QED BY <1>f, <1>9, <2>2, <2>3, <2>4, <2>5 DEF SelectorsOf, Ivar, AtMethods
  <1>10. CASE r = k /\ AddGetter(k)
    <2>1. PICK sel : sel = getterSelector(Ivar(k))
      OBVIOUS
    <2>2. pc[k] = "addGetter" /\ pc'[k] = "ivars" /\ idx'[k] = idx[k] + 1 /\ Gains(k, sel)
      BY <1>0, <1>10, <2>1, GetterAdded
    <2>3. \A m1, m2 \in class'[k].methods : m1.sel = m2.sel => m1 = m2
      BY <1>0, <2>2 DEF SelectorsOf, Gains
    <2>4. \A m \in class'[k].methods :
            \/ m.sel \in TakenBefore(plan[k], idx[k] + 1)
            \/ m.sel = setterSelector(Ivar(k)) \/ m.sel = sel
      BY <1>0, <2>2 DEF SelectorsOf, Gains
    <2>5. \A m \in class'[k].methods : m.sel \in TakenBefore(plan[k], idx[k] + 1 + 1)
      BY <1>n, <2>1, <2>4, TakenGrows DEF Ivar
    <2> QED BY <1>f, <1>10, <2>2, <2>3, <2>5 DEF SelectorsOf, AtMethods
  <1>11. CASE r = k /\ objc_registerClassPair(k)
    BY <1>0, <1>f, <1>n, <1>11, Registered DEF Stops, SelectorsOf, Ivar,
       AtMethods
  <1> QED BY <1>o, <1>1, <1>2, <1>3, <1>4, <1>5, <1>6, <1>7, <1>8, <1>9,
     <1>10, <1>11 DEF RegisterClass

(* An accessor whose selector is free comes behind it with the closure of    *)
(* its own variable (objc_runtime_darwin.go:284-355).                        *)
LEMMA NextAccessors ==
  ASSUME IndInv, NEW k \in Attempts, RegisterClass(k), NEW r \in Attempts
  PROVE  AccessorsOf(r)'
  <1>0. TypeOK /\ AccessorsOf(r) /\ ControlOf(k) /\ SelectorsOf(k) /\ AccessorsOf(k)
    BY DEF IndInv
  <1>f. plan' = plan
    BY <1>0, OthersKept
  <1>n. Len(plan[k].protocols) \in Nat /\ Len(plan[k].methods) \in Nat
        /\ Len(plan[k].ivars) \in Nat /\ idx[k] \in Nat
    BY <1>0, PlanFacts
  <1>o. CASE r # k
    <2>1. pc'[r] = pc[r] /\ idx'[r] = idx[r] /\ imp'[r] = imp[r] /\ class'[r] = class[r]
      BY <1>0, <1>o, OthersKept
    <2> QED BY <1>0, <1>f, <2>1 DEF AccessorsOf, SetterAt, GetterAt, Behind,
       AtMethods, AtIvar, PastMethods
  <1>1. CASE r = k /\ Allocate(k)
    BY <1>0, <1>f, <1>n, <1>1, Allocated DEF Stops, AccessorsOf, SetterAt,
       GetterAt, Behind, AtMethods, AtIvar, PastMethods
  <1>2. CASE r = k /\ AddProtocol(k)
    BY <1>0, <1>f, <1>n, <1>2, ProtocolAdded DEF Stops, AccessorsOf, SetterAt,
       GetterAt, Behind, AtMethods, AtIvar, PastMethods
  <1>3. CASE r = k /\ MakeIMP(k)
    <2>1. pc'[k] \in {"error", "addMethod"} \/ (pc'[k] = "ivars" /\ idx'[k] = 0)
      BY <1>0, <1>3, IMPMade DEF Stops
    <2>2. 1..0 = {}
      OBVIOUS
    <2> QED BY <1>3, <2>1, <2>2 DEF AccessorsOf, AtIvar, PastMethods
  <1>4. CASE r = k /\ AddMethod(k)
    BY <1>0, <1>f, <1>n, <1>4, MethodAdded DEF Stops, AccessorsOf, SetterAt,
       GetterAt, Behind, AtMethods, AtIvar, PastMethods, Gains
  <1>5. CASE r = k /\ AddIvar(k)
    BY <1>0, <1>f, <1>n, <1>5, IvarAdded, SMTT(60) DEF Stops, AccessorsOf, SetterAt,
       GetterAt, Behind, AtMethods, AtIvar, PastMethods
  <1>6. CASE r = k /\ Attribute(k)
    BY <1>0, <1>f, <1>n, <1>6, AttributeRead DEF Stops, AccessorsOf, SetterAt,
       GetterAt, Behind, AtMethods, AtIvar, PastMethods, Ivar
  <1>7. CASE r = k /\ MakeSetter(k)
    <2>1. class'[k] = class[k] /\ idx'[k] = idx[k] /\ pc[k] = "setter"
          /\ pc'[k] \in {"addSetter", "panicked"}
      BY <1>0, <1>7, SetterMade DEF Stops
    <2>2. \A n : (SetterAt(k, n)' <=> SetterAt(k, n)) /\ (GetterAt(k, n)' <=> GetterAt(k, n))
      BY <1>f, <2>1 DEF SetterAt, GetterAt
    <2> QED BY <1>0, <1>7, <2>1, <2>2 DEF AccessorsOf, AtMethods, AtIvar, PastMethods
  <1>8. CASE r = k /\ MakeGetter(k)
    <2>1. class'[k] = class[k] /\ idx'[k] = idx[k] /\ pc[k] = "getter"
          /\ pc'[k] \in {"addGetter", "panicked"}
      BY <1>0, <1>8, GetterMade DEF Stops
    <2>2. \A n : (SetterAt(k, n)' <=> SetterAt(k, n)) /\ (GetterAt(k, n)' <=> GetterAt(k, n))
      BY <1>f, <2>1 DEF SetterAt, GetterAt
    <2> QED BY <1>0, <1>8, <2>1, <2>2 DEF AccessorsOf, AtMethods, AtIvar, PastMethods
  <1>9. CASE r = k /\ AddSetter(k)
    <2>1. PICK v : v = plan[k].ivars[idx[k] + 1]
      OBVIOUS
    <2>2. pc[k] = "addSetter" /\ pc'[k] = "getter" /\ idx'[k] = idx[k]
          /\ Gains(k, setterSelector(v))
      BY <1>0, <1>9, <2>1, SetterAdded DEF Ivar
    <2>3. class[k].methods \subseteq class'[k].methods
      BY <2>2 DEF Gains
    <2>4. ASSUME setterSelector(v) \notin TakenBefore(plan[k], idx[k] + 1)
          PROVE  Behind(class'[k], setterSelector(v), [does |-> "set", of |-> idx[k] + 1])
      <3>1. \A m \in class[k].methods : m.sel # setterSelector(v)
        BY <1>0, <2>2, <2>4 DEF SelectorsOf
      <3>2. imp[k] = [does |-> "set", of |-> idx[k] + 1]
        BY <1>0, <2>2 DEF ControlOf
      <3> QED BY <2>2, <3>1, <3>2 DEF Gains, Behind
    <2>j. PICK j : j = idx[k] + 1
      OBVIOUS
    <2>5. SetterAt(k, j)'
      BY <1>f, <2>1, <2>4, <2>j DEF SetterAt
    <2>6. ASSUME NEW n \in 1..idx[k] PROVE SetterAt(k, n)' /\ GetterAt(k, n)'
      <3>1. SetterAt(k, n) /\ GetterAt(k, n)
        BY <1>0, <2>2, <2>6 DEF AccessorsOf, AtIvar, PastMethods
      <3> QED BY <1>f, <2>3, <3>1, BehindGrows DEF SetterAt, GetterAt
    <2> QED BY <1>9, <2>2, <2>5, <2>6, <2>j DEF AccessorsOf
  <1>10. CASE r = k /\ AddGetter(k)
    <2>1. PICK v : v = plan[k].ivars[idx[k] + 1]
      OBVIOUS
    <2>2. pc[k] = "addGetter" /\ pc'[k] = "ivars" /\ idx'[k] = idx[k] + 1
          /\ Gains(k, getterSelector(v))
      BY <1>0, <1>10, <2>1, GetterAdded DEF Ivar
    <2>3. class[k].methods \subseteq class'[k].methods
      BY <2>2 DEF Gains
    <2>4. setterSelector(v) # getterSelector(v)
      <3>1. idx[k] + 1 \in 1..Len(plan[k].ivars) /\ ivarRegex(v.name)
        BY <1>0, <1>n, <2>1, <2>2 DEF ControlOf, AtIvar, Ivar
      <3>2. v.name \in Seq(DOMAIN Capital)
        BY <1>0, <2>1, <3>1, PlanFacts
      <3> QED BY <3>1, <3>2, SetterNotGetter
    <2>5. ASSUME getterSelector(v) \notin TakenBefore(plan[k], idx[k] + 1)
          PROVE  Behind(class'[k], getterSelector(v), [does |-> "get", of |-> idx[k] + 1])
      <3>1. \A m \in class[k].methods : m.sel # getterSelector(v)
        BY <1>0, <2>1, <2>2, <2>4, <2>5 DEF SelectorsOf, Ivar
      <3>2. imp[k] = [does |-> "get", of |-> idx[k] + 1]
        BY <1>0, <2>2 DEF ControlOf
      <3> QED BY <2>2, <3>1, <3>2 DEF Gains, Behind
    <2>j. PICK j : j = idx[k] + 1
      OBVIOUS
    <2>6. GetterAt(k, j)'
      BY <1>f, <2>1, <2>5, <2>j DEF GetterAt
    <2>7. SetterAt(k, j)'
      <3>1. SetterAt(k, j)
        BY <1>0, <2>2, <2>j DEF AccessorsOf
      <3> QED BY <1>f, <2>3, <3>1, BehindGrows DEF SetterAt
    <2>8. ASSUME NEW n \in 1..idx[k] PROVE SetterAt(k, n)' /\ GetterAt(k, n)'
      <3>1. SetterAt(k, n) /\ GetterAt(k, n)
        BY <1>0, <2>2, <2>8 DEF AccessorsOf, AtIvar, PastMethods
      <3> QED BY <1>f, <2>3, <3>1, BehindGrows DEF SetterAt, GetterAt
    <2>9. \A n \in 1..(idx[k] + 1) : n \in 1..idx[k] \/ n = idx[k] + 1
      BY <1>n
    <2> QED BY <1>10, <2>2, <2>6, <2>7, <2>8, <2>9, <2>j DEF AccessorsOf
  <1>11. CASE r = k /\ objc_registerClassPair(k)
    BY <1>0, <1>f, <1>n, <1>11, Registered DEF Stops, AccessorsOf, SetterAt,
       GetterAt, Behind, AtMethods, AtIvar, PastMethods
  <1> QED BY <1>o, <1>1, <1>2, <1>3, <1>4, <1>5, <1>6, <1>7, <1>8, <1>9,
     <1>10, <1>11 DEF RegisterClass

(* An attempt panics for want of a callback, or of a conversion for its      *)
(* variable's type, and callbacks do not come back (objc_runtime_darwin.go:  *)
(* 324, 351, 639-655).                                                       *)
LEMMA NextPanicked ==
  ASSUME IndInv, NEW k \in Attempts, RegisterClass(k), NEW r \in Attempts
  PROVE  PanickedOf(r)'
  <1>0. TypeOK /\ PanickedOf(r)
    BY DEF IndInv
  <1>f. plan' = plan
    BY <1>0, OthersKept
  <1>n. Len(plan[k].protocols) \in Nat /\ Len(plan[k].methods) \in Nat
        /\ Len(plan[k].ivars) \in Nat /\ idx[k] \in Nat
    BY <1>0, PlanFacts
  <1>o. CASE r # k
    <2>1. pc'[r] = pc[r] /\ idx'[r] = idx[r] /\ imp'[r] = imp[r] /\ class'[r] = class[r]
      BY <1>0, <1>o, OthersKept
    <2> QED BY <1>0, <1>f, <2>1, OthersKept DEF PanickedOf, Ivar
  <1>1. CASE r = k /\ Allocate(k)
    BY <1>0, <1>f, <1>n, <1>1, Allocated DEF Stops, PanickedOf, Ivar
  <1>2. CASE r = k /\ AddProtocol(k)
    BY <1>0, <1>f, <1>n, <1>2, ProtocolAdded DEF Stops, PanickedOf, Ivar
  <1>3. CASE r = k /\ MakeIMP(k)
    BY <1>0, <1>f, <1>n, <1>3, IMPMade DEF Stops, PanickedOf, Ivar
  <1>4. CASE r = k /\ AddMethod(k)
    BY <1>0, <1>f, <1>n, <1>4, MethodAdded DEF Stops, PanickedOf, Ivar
  <1>5. CASE r = k /\ AddIvar(k)
    BY <1>0, <1>f, <1>n, <1>5, IvarAdded DEF Stops, PanickedOf, Ivar
  <1>6. CASE r = k /\ Attribute(k)
    BY <1>0, <1>f, <1>n, <1>6, AttributeRead DEF Stops, PanickedOf, Ivar
  <1>7. CASE r = k /\ MakeSetter(k)
    BY <1>0, <1>f, <1>n, <1>7, SetterMade DEF Stops, PanickedOf, Ivar
  <1>8. CASE r = k /\ MakeGetter(k)
    BY <1>0, <1>f, <1>n, <1>8, GetterMade DEF Stops, PanickedOf, Ivar
  <1>9. CASE r = k /\ AddSetter(k)
    BY <1>0, <1>f, <1>n, <1>9, SetterAdded DEF Stops, PanickedOf, Ivar
  <1>10. CASE r = k /\ AddGetter(k)
    BY <1>0, <1>f, <1>n, <1>10, GetterAdded DEF Stops, PanickedOf, Ivar
  <1>11. CASE r = k /\ objc_registerClassPair(k)
    BY <1>0, <1>f, <1>n, <1>11, Registered DEF Stops, PanickedOf, Ivar
  <1> QED BY <1>o, <1>1, <1>2, <1>3, <1>4, <1>5, <1>6, <1>7, <1>8, <1>9,
     <1>10, <1>11 DEF RegisterClass

-----------------------------------------------------------------------------
(* The types of a plan's functions and variables.                            *)
LEMMA PlanTypes ==
  ASSUME TypeOK, NEW r \in Attempts
  PROVE  /\ \A n \in 1..Len(plan[r].methods) :
               /\ plan[r].methods[n].fn.ins \in Seq(Types)
               /\ plan[r].methods[n].fn.outs \in Seq(Types)
         /\ \A n \in 1..Len(plan[r].ivars) : plan[r].ivars[n].type \in Types
  <1>1. plan[r] \in Plans
    BY DEF TypeOK
  <1> QED BY <1>1, SignaturesAssumption

(* An ID and a SEL are readable, and encoded without an error                *)
(* (objc_runtime_darwin.go:388-391).                                         *)
LEMMA ReceiverTypes ==
  /\ ID \in Types /\ SEL \in Types
  /\ Readable(ID) /\ Readable(SEL) /\ encoded(SEL) # Refused
  <1>1. ID \in Types /\ SEL \in Types
    BY SignaturesAssumption
  <1>2. ID.kind = "ID" /\ SEL.kind = "SEL"
    BY DEF ID, SEL, Plain
  <1>3. pointee[ID] = "ID" /\ pointee[SEL] = "SEL"
    BY <1>1, <1>2, PointeeIs
  <1>4. Letter["SEL"] = <<":">> /\ "SEL" \in DOMAIN Letter
    BY DEF Letter
  <1>5. encodeType[SEL][FALSE] = Encoding(encodeType, SEL, FALSE)
    BY <1>1, EncodeTypeIs
  <1>6. encoded(SEL) = <<":">>
    BY <1>2, <1>4, <1>5, EncodingIs DEF encoded
  <1>7. "ID" \notin Misread /\ "SEL" \notin Misread
    BY DEF Misread
  <1>8. Readable(ID) /\ Readable(SEL)
    <2>1. ReadRight(readable, ID)
      BY <1>2, <1>3, <1>7 DEF ReadRight
    <2>2. ReadRight(readable, SEL)
      BY <1>2, <1>3, <1>7 DEF ReadRight
    <2> QED BY <1>1, <2>1, <2>2, ReadableIs DEF Readable
  <1>9. encoded(SEL) # Refused
    BY <1>6 DEF Refused
  <1> QED BY <1>1, <1>8, <1>9

(* The functions of a variable's accessors (objc_runtime_darwin.go:303-308,  *)
(* 329-334).                                                                 *)
LEMMA AccessorTypes ==
  ASSUME NEW v, v.type \in Types
  PROVE  LET set == setterType(v)
             get == getterType(v)
         IN /\ TakesIDAndSEL(set) /\ set.ins \in Seq(Types) /\ set.outs \in Seq(Types)
            /\ TakesIDAndSEL(get) /\ get.ins \in Seq(Types) /\ get.outs \in Seq(Types)
            /\ encoded(v.type) # Refused => Encodable(set) /\ Encodable(get)
            /\ Readable(v.type) => ReadableFunc(set) /\ ReadableFunc(get)
  <1>1. PICK t, ins2, ins3, one, set, get :
           /\ t = v.type /\ set = setterType(v) /\ get = getterType(v)
           /\ ins2 = <<ID, SEL>> /\ ins3 = <<ID, SEL, t>> /\ one = <<t>>
    OBVIOUS
  <1>2. t \in Types /\ ID \in Types /\ SEL \in Types
        /\ Readable(ID) /\ Readable(SEL) /\ encoded(SEL) # Refused
    BY <1>1, ReceiverTypes
  <1>3. /\ set.ins = ins3 /\ set.outs = <<>>
        /\ get.ins = ins2 /\ get.outs = one
    BY <1>1 DEF setterType, getterType
  <1>4. ins2 \in Seq(Types) /\ Len(ins2) = 2 /\ ins2[1] = ID /\ ins2[2] = SEL
    BY <1>1, <1>2, TwoTuple
  <1>5. ins3 \in Seq(Types) /\ Len(ins3) = 3
        /\ ins3[1] = ID /\ ins3[2] = SEL /\ ins3[3] = t
    BY <1>1, <1>2, ThreeTuple
  <1>6. one \in Seq(Types) /\ Len(one) = 1 /\ one[1] = t
    BY <1>1, <1>2, OneTuple
  <1>7. <<>> \in Seq(Types) /\ Len(<<>>) = 0
    BY EmptySeq
  <1>8. TakesIDAndSEL(set) /\ TakesIDAndSEL(get)
    BY <1>3, <1>4, <1>5 DEF TakesIDAndSEL
  <1>9. 1..0 = {} /\ 1..1 = {1} /\ 1..2 = {1, 2} /\ 1..3 = {1, 2, 3}
        /\ 2..2 = {2} /\ 2..3 = {2, 3}
    OBVIOUS
  <1>10. ASSUME encoded(t) # Refused PROVE Encodable(set) /\ Encodable(get)
    BY <1>2, <1>3, <1>4, <1>5, <1>6, <1>7, <1>9, <1>10 DEF Encodable
  <1>11. ASSUME Readable(t) PROVE ReadableFunc(set) /\ ReadableFunc(get)
    BY <1>2, <1>3, <1>4, <1>5, <1>6, <1>7, <1>9, <1>11 DEF ReadableFunc
  <1> QED BY <1>1, <1>3, <1>4, <1>5, <1>6, <1>7, <1>8, <1>10, <1>11

(* What class_addMethod adds (objc_runtime_darwin.go:278, 325, 352).         *)
LEMMA OnlyAdded ==
  ASSUME TypeOK, NEW k \in Attempts, NEW sel, NEW enc, class'[k] = WithMethod(k, sel, enc)
  PROVE  \A m \in class'[k].methods :
            m \in class[k].methods \/ (m.imp = imp[k] /\ m.types = enc)
  <1>1. CASE HasMethod(k, sel)
    BY <1>1 DEF WithMethod
  <1>2. CASE ~HasMethod(k, sel)
    <2>1. PICK m : m = [sel |-> sel, imp |-> imp[k], types |-> enc]
      OBVIOUS
    <2>2. class'[k] = [class[k] EXCEPT !.methods = @ \cup {m}]
      BY <1>2, <2>1 DEF WithMethod
    <2>3. class'[k].methods = class[k].methods \cup {m}
      BY <2>2 DEF TypeOK, IsClass
    <2>4. m.imp = imp[k] /\ m.types = enc
      BY <2>1
    <2> QED BY <2>3, <2>4
  <1> QED BY <1>1, <1>2

(* Every method is added with the encoding of its own function's type        *)
(* (objc_runtime_darwin.go:276-282, 308-325, 334-352).                       *)
LEMMA NextSignatures ==
  ASSUME IndInv, NEW k \in Attempts, RegisterClass(k), NEW r \in Attempts
  PROVE  TypesOf(r)'
  <1>0. TypeOK /\ TypesOf(r) /\ ControlOf(k)
    BY DEF IndInv
  <1>f. plan' = plan
    BY <1>0, OthersKept
  <1>n. Len(plan[k].protocols) \in Nat /\ Len(plan[k].methods) \in Nat
        /\ Len(plan[k].ivars) \in Nat /\ idx[k] \in Nat
    BY <1>0, PlanFacts
  <1>k. \A m : TypedMethod(r, m)' <=> TypedMethod(r, m)
    BY <1>f DEF TypedMethod, FnOf
  <1>o. CASE r # k
    <2>1. pc'[r] = pc[r] /\ idx'[r] = idx[r] /\ class'[r] = class[r]
      BY <1>0, <1>o, OthersKept
    <2> QED BY <1>0, <1>f, <1>k, <2>1 DEF TypesOf, Ivar
  <1>1. CASE r = k /\ Allocate(k)
    BY <1>0, <1>k, <1>1, Allocated DEF Stops, TypesOf, AtIvar
  <1>2. CASE r = k /\ AddProtocol(k)
    BY <1>0, <1>k, <1>2, ProtocolAdded DEF Stops, TypesOf, AtIvar
  <1>3. CASE r = k /\ MakeIMP(k)
    BY <1>0, <1>f, <1>k, <1>3, IMPMade DEF Stops, TypesOf, AtIvar
  <1>4. CASE r = k /\ AddMethod(k)
    <2>1. PICK fn, enc : fn = plan[k].methods[idx[k] + 1].fn /\ enc = encodeFunc(fn)
      OBVIOUS
    <2>2. pc[k] = "addMethod" /\ pc'[k] \in {"error", "methods"}
      BY <1>0, <1>4, MethodAdded DEF Stops
    <2>3. CASE class'[k] = class[k]
      BY <1>0, <1>4, <1>k, <2>2, <2>3 DEF TypesOf, AtIvar
    <2>4. CASE class'[k] # class[k]
      <3>1. ~Fail(k)
        BY <2>4 DEF Fail
      <3>2. enc # Refused
            /\ class' = [class EXCEPT ![k] =
                           WithMethod(k, plan[k].methods[idx[k] + 1].sel, enc)]
        BY <1>4, <2>1, <3>1 DEF AddMethod
      <3>3. class'[k] = WithMethod(k, plan[k].methods[idx[k] + 1].sel, enc)
        BY <1>0, <3>2 DEF TypeOK
      <3>4. imp[k] = [does |-> "call", of |-> idx[k] + 1]
            /\ idx[k] + 1 \in 1..Len(plan[k].methods)
        BY <1>0, <1>n, <2>2 DEF ControlOf
      <3>5. TakesIDAndSEL(fn)
        BY <1>0, <1>4, <2>1, <2>2 DEF TypesOf
      <3>6. Encodable(fn)
        <4>1. fn.ins \in Seq(Types) /\ fn.outs \in Seq(Types)
          BY <1>0, <2>1, <3>4, PlanTypes
        <4> QED BY <2>1, <3>2, <4>1, AnsweredEncodable
      <3>7. ASSUME NEW m \in class'[k].methods PROVE TypedMethod(k, m)
        <4>1. CASE m \in class[k].methods
          BY <1>0, <1>4, <4>1 DEF TypesOf
        <4>2. CASE m.imp = imp[k] /\ m.types = enc
          <5>1. m.imp.does = "call" /\ m.imp.of = idx[k] + 1
            BY <3>4, <4>2
          <5>2. FnOf(k, m) = fn
            BY <2>1, <5>1 DEF FnOf
          <5> QED BY <2>1, <3>4, <3>5, <3>6, <4>2, <5>1, <5>2 DEF TypedMethod
        <4> QED BY <1>0, <3>3, <4>1, <4>2, OnlyAdded
      <3> QED BY <1>4, <1>k, <2>2, <3>7 DEF TypesOf, AtIvar
    <2> QED BY <2>3, <2>4
  <1>5. CASE r = k /\ AddIvar(k)
    BY <1>0, <1>f, <1>k, <1>5, IvarAdded DEF Stops, TypesOf, AtIvar, Ivar
  <1>6. CASE r = k /\ Attribute(k)
    BY <1>0, <1>f, <1>k, <1>6, AttributeRead DEF Stops, TypesOf, AtIvar, Ivar
  <1>7. CASE r = k /\ MakeSetter(k)
    BY <1>0, <1>f, <1>k, <1>7, SetterMade DEF Stops, TypesOf, AtIvar, Ivar
  <1>8. CASE r = k /\ MakeGetter(k)
    BY <1>0, <1>f, <1>k, <1>8, GetterMade DEF Stops, TypesOf, AtIvar, Ivar
  <1>9. CASE r = k /\ AddSetter(k)
    <2>1. PICK fn, enc : fn = setterType(Ivar(k)) /\ enc = encodeFunc(fn)
      OBVIOUS
    <2>2. pc[k] = "addSetter" /\ pc'[k] = "getter" /\ idx'[k] = idx[k]
      BY <1>0, <1>9, SetterAdded
    <2>3. class'[k] = WithMethod(k, setterSelector(Ivar(k)), enc)
      BY <1>0, <1>9, <2>1 DEF AddSetter, TypeOK
    <2>4. imp[k] = [does |-> "set", of |-> idx[k] + 1]
          /\ idx[k] + 1 \in 1..Len(plan[k].ivars)
      BY <1>0, <1>n, <2>2 DEF ControlOf, AtIvar
    <2>5. encoded(Ivar(k).type) # Refused
      BY <1>0, <1>9, <2>2 DEF TypesOf, AtIvar
    <2>6. TakesIDAndSEL(fn) /\ Encodable(fn)
      <3>1. Ivar(k).type \in Types
        BY <1>0, <2>4, PlanTypes DEF Ivar
      <3> QED BY <2>1, <2>5, <3>1, AccessorTypes
    <2>7. ASSUME NEW m \in class'[k].methods PROVE TypedMethod(k, m)
      <3>1. CASE m \in class[k].methods
        BY <1>0, <1>9, <3>1 DEF TypesOf
      <3>2. CASE m.imp = imp[k] /\ m.types = enc
        <4>1. m.imp.does = "set" /\ m.imp.of = idx[k] + 1
          BY <2>4, <3>2
        <4>2. FnOf(k, m) = fn
          BY <2>1, <4>1 DEF FnOf, Ivar
        <4> QED BY <2>1, <2>4, <2>6, <3>2, <4>1, <4>2 DEF TypedMethod
      <3> QED BY <1>0, <2>3, <3>1, <3>2, OnlyAdded
    <2> QED BY <1>9, <1>f, <1>k, <2>2, <2>5, <2>7 DEF TypesOf, AtIvar, Ivar
  <1>10. CASE r = k /\ AddGetter(k)
    <2>1. PICK fn, enc : fn = getterType(Ivar(k)) /\ enc = encodeFunc(fn)
      OBVIOUS
    <2>2. pc[k] = "addGetter" /\ pc'[k] = "ivars"
      BY <1>0, <1>10, GetterAdded
    <2>3. class'[k] = WithMethod(k, getterSelector(Ivar(k)), enc)
      BY <1>0, <1>10, <2>1 DEF AddGetter, TypeOK
    <2>4. imp[k] = [does |-> "get", of |-> idx[k] + 1]
          /\ idx[k] + 1 \in 1..Len(plan[k].ivars)
      BY <1>0, <1>n, <2>2 DEF ControlOf, AtIvar
    <2>5. encoded(Ivar(k).type) # Refused
      BY <1>0, <1>10, <2>2 DEF TypesOf, AtIvar
    <2>6. TakesIDAndSEL(fn) /\ Encodable(fn)
      <3>1. Ivar(k).type \in Types
        BY <1>0, <2>4, PlanTypes DEF Ivar
      <3> QED BY <2>1, <2>5, <3>1, AccessorTypes
    <2>7. ASSUME NEW m \in class'[k].methods PROVE TypedMethod(k, m)
      <3>1. CASE m \in class[k].methods
        BY <1>0, <1>10, <3>1 DEF TypesOf
      <3>2. CASE m.imp = imp[k] /\ m.types = enc
        <4>1. m.imp.does = "get" /\ m.imp.of = idx[k] + 1
          BY <2>4, <3>2
        <4>2. FnOf(k, m) = fn
          BY <2>1, <4>1 DEF FnOf, Ivar
        <4> QED BY <2>1, <2>4, <2>6, <3>2, <4>1, <4>2 DEF TypedMethod
      <3> QED BY <1>0, <2>3, <3>1, <3>2, OnlyAdded
    <2> QED BY <1>10, <1>k, <2>2, <2>7 DEF TypesOf, AtIvar
  <1>11. CASE r = k /\ objc_registerClassPair(k)
    BY <1>0, <1>k, <1>11, Registered DEF TypesOf, AtIvar
  <1> QED BY <1>o, <1>1, <1>2, <1>3, <1>4, <1>5, <1>6, <1>7, <1>8, <1>9,
     <1>10, <1>11 DEF RegisterClass

-----------------------------------------------------------------------------
(* Before the first step no attempt has a class.                             *)
LEMMA InitHolds == Init => IndInv
  <1> SUFFICES ASSUME Init PROVE IndInv
    OBVIOUS
  <1>1. TypeOK
    BY ObjcClassAssumption DEF Init, TypeOK, IsClass, NoImp, NoClass, PCs
  <1>2. ASSUME NEW r \in Attempts
        PROVE  /\ ControlOf(r) /\ AddedOf(r) /\ MethodsOf(r) /\ SelectorsOf(r)
               /\ AccessorsOf(r) /\ PanickedOf(r) /\ TypesOf(r)
    <2>1. pc[r] = "start" /\ class[r] = NoClass
      BY <1>2 DEF Init
    <2> QED BY <2>1 DEF ControlOf, AddedOf, MethodsOf, SelectorsOf, AccessorsOf, PanickedOf,
           TypesOf, NoClass, AtMethods, AtIvar, PastMethods
  <1> QED BY <1>1, <1>2 DEF IndInv

(* The inductive invariant holds of RegisterClass (objc_runtime_darwin.go:   *)
(* 252-358), whatever the attempts are given and however they interleave.    *)
THEOREM Induction == Spec => []IndInv
  <1>1. IndInv /\ [Next]_vars => IndInv'
    <2> SUFFICES ASSUME IndInv, [Next]_vars PROVE IndInv'
      OBVIOUS
    <2>1. ASSUME NEW k \in Attempts, RegisterClass(k) PROVE IndInv'
      <3>1. TypeOK'
        BY <2>1, NextTypes DEF IndInv
      <3> QED BY <2>1, <3>1, NextControl, NextAdded, NextMethods, NextSelectors,
                 NextAccessors, NextPanicked, NextSignatures DEF IndInv
    <2>2. CASE UNCHANGED vars
      <3> USE <2>2 DEF vars, IndInv
      <3>1. TypeOK'
        BY DEF TypeOK
      <3>2. ASSUME NEW r \in Attempts
            PROVE  /\ ControlOf(r)' /\ AddedOf(r)' /\ MethodsOf(r)' /\ SelectorsOf(r)'
                   /\ PanickedOf(r)'
        BY <3>2 DEF ControlOf, AddedOf, MethodsOf, SelectorsOf, PanickedOf, Ivar
      <3>3. ASSUME NEW r \in Attempts PROVE AccessorsOf(r)'
        BY <3>3 DEF AccessorsOf, SetterAt, GetterAt
      <3>4. ASSUME NEW r \in Attempts PROVE TypesOf(r)'
        BY <3>4 DEF TypesOf, TypedMethod, FnOf, Ivar
      <3> QED BY <3>1, <3>2, <3>3, <3>4
    <2> QED BY <2>1, <2>2 DEF Next, Over
  <1> QED BY InitHolds, <1>1, PTL DEF Spec

(* The method under a selector is the only one there is.                     *)
LEMMA OnlyMethod ==
  ASSUME NEW r \in Attempts, SelectorsOf(r), NEW sel, NEW i, Behind(class[r], sel, i)
  PROVE  HasMethod(r, sel) /\ MethodOf(r, sel).imp = i
  <1>1. PICK m \in class[r].methods : m.sel = sel /\ m.imp = i
    BY DEF Behind
  <1>2. MethodOf(r, sel) \in class[r].methods /\ MethodOf(r, sel).sel = sel
    BY <1>1 DEF MethodOf
  <1>3. MethodOf(r, sel) = m
    BY <1>1, <1>2 DEF SelectorsOf
  <1> QED BY <1>1, <1>3 DEF HasMethod

(* A class that can be found by its name is complete, with the functions the *)
(* plan gives its methods (objc_runtime_darwin.go:254-358).                  *)
THEOREM FoundComplete == Spec => []VisibleComplete
  <1>1. IndInv => VisibleComplete
    <2> SUFFICES ASSUME IndInv, NEW r \in Visible
                 PROVE  VisibleComplete!(r)
      BY DEF VisibleComplete
    <2>1. r \in Attempts /\ pc[r] = "returned" /\ idx[r] = Len(plan[r].ivars)
      BY DEF IndInv, Visible, ControlOf
    <2>2. AddedOf(r) /\ MethodsOf(r) /\ SelectorsOf(r)
      BY <2>1 DEF IndInv
    <2>3. \A n \in 1..Len(plan[r].methods) :
            Behind(class[r], plan[r].methods[n].sel, [does |-> "call", of |-> n])
      BY <2>1, <2>2 DEF MethodsOf, PastMethods
    <2>4. \A n \in 1..Len(plan[r].methods) :
            /\ HasMethod(r, plan[r].methods[n].sel)
            /\ MethodOf(r, plan[r].methods[n].sel).imp = [does |-> "call", of |-> n]
      BY <2>1, <2>2, <2>3, OnlyMethod
    <2> QED BY <2>1, <2>2, <2>4 DEF AddedOf, AtMethods, PastMethods
  <1> QED BY Induction, <1>1, PTL

(* The accessors of a visible class read and write their own variables, save *)
(* for selectors the plan has used before (objc_runtime_darwin.go:284-355).  *)
THEOREM OwnAccessors == Spec => []AccessorsOwn
  <1>1. IndInv => AccessorsOwn
    <2> SUFFICES ASSUME IndInv, NEW r \in Visible, NEW n \in 1..Len(plan[r].ivars)
                 PROVE  AccessorsOwn!(r)!(n)
      BY DEF AccessorsOwn
    <2>1. r \in Attempts /\ pc[r] = "returned" /\ idx[r] = Len(plan[r].ivars)
      BY DEF IndInv, Visible, ControlOf
    <2>2. SelectorsOf(r) /\ SetterAt(r, n) /\ GetterAt(r, n)
      BY <2>1 DEF IndInv, AccessorsOf, PastMethods
    <2> QED BY <2>1, <2>2, OnlyMethod DEF SetterAt, GetterAt
  <1> QED BY Induction, <1>1, PTL

(* RegisterClass panics over accessors only, for want of callbacks or of a   *)
(* conversion (objc_runtime_darwin.go:265-275, 324, 351).                    *)
THEOREM OnlyAccessorsPanic == Spec => []PanicsOverAccessors
  <1>1. IndInv => PanicsOverAccessors
    <2> SUFFICES ASSUME IndInv, NEW r \in Attempts, pc[r] = "panicked"
                 PROVE  /\ \A n \in 1..Len(plan[r].methods) : HasMethod(r, plan[r].methods[n].sel)
                        /\ Ivar(r).name \in class[r].ivars
                        /\ callbacks = MaxCallbacks \/ Ivar(r).type.kind \notin CallbackKinds
      BY DEF PanicsOverAccessors
    <2>1. \A n \in 1..Len(plan[r].methods) : HasMethod(r, plan[r].methods[n].sel)
      BY ZenonT(60) DEF IndInv, MethodsOf, PastMethods, AtIvar, Behind, HasMethod
    <2> QED BY <2>1 DEF IndInv, AddedOf, PanickedOf, AtIvar
  <1> QED BY Induction, <1>1, PTL

(* The methods of an attempt with a readable plan are read as they are, if   *)
(* it is still at work, too (objc_runtime_darwin.go:276-352, 454-489).       *)
LEMMA ReadablePlanReads ==
  ASSUME IndInv, NEW r \in Attempts, ReadablePlan(plan[r])
  PROVE  ReadsBack(r)
  <1> SUFFICES ASSUME NEW m \in class[r].methods
               PROVE  ReadTypes(m.types) = CSignature(FnOf(r, m))
    BY DEF ReadsBack
  <1>1. TypeOK /\ TypedMethod(r, m)
    BY DEF IndInv, TypesOf
  <1>2. PICK fn : fn = FnOf(r, m)
    OBVIOUS
  <1>3. Encodable(fn) /\ fn.ins[1] = ID /\ m.types = encodeFunc(fn)
    BY <1>1, <1>2 DEF TypedMethod, TakesIDAndSEL
  <1>4. fn.ins \in Seq(Types) /\ fn.outs \in Seq(Types) /\ ReadableFunc(fn)
    <2>1. PICK n : n = m.imp.of
      OBVIOUS
    <2>2. CASE m.imp.does = "call" /\ n \in 1..Len(plan[r].methods)
      <3>1. fn = plan[r].methods[n].fn
        BY <1>2, <2>1, <2>2 DEF FnOf
      <3> QED BY <1>1, <2>2, <3>1, PlanTypes DEF ReadablePlan
    <2>3. CASE m.imp.does = "set" /\ n \in 1..Len(plan[r].ivars)
      <3>1. fn = setterType(plan[r].ivars[n])
        BY <1>2, <2>1, <2>3 DEF FnOf
      <3>2. plan[r].ivars[n].type \in Types /\ Readable(plan[r].ivars[n].type)
        BY <1>1, <2>3, PlanTypes DEF ReadablePlan
      <3> QED BY <3>1, <3>2, AccessorTypes
    <2>4. CASE m.imp.does = "get" /\ n \in 1..Len(plan[r].ivars)
      <3>1. fn = getterType(plan[r].ivars[n])
        BY <1>2, <2>1, <2>4 DEF FnOf
      <3>2. plan[r].ivars[n].type \in Types /\ Readable(plan[r].ivars[n].type)
        BY <1>1, <2>4, PlanTypes DEF ReadablePlan
      <3> QED BY <3>1, <3>2, AccessorTypes
    <2> QED BY <1>1, <2>1, <2>2, <2>3, <2>4 DEF TypedMethod
  <1> QED BY <1>2, <1>3, <1>4, EncodeFuncReads

(* Whatever the other attempts register: from the methods of a visible class *)
(* with a readable plan, the runtime reads the signatures of its functions   *)
(* (objc_runtime_darwin.go:276-352, 454-489).                                *)
THEOREM SignaturesRead ==
  Spec => [](\A r \in Visible : ReadablePlan(plan[r]) => ReadsBack(r))
  <1>1. IndInv => \A r \in Visible : ReadablePlan(plan[r]) => ReadsBack(r)
    BY ReadablePlanReads DEF Visible
  <1> QED BY Induction, <1>1, PTL

(* When no plan has a number of 64 bits, which are encoded like others, nor  *)
(* a string in a struct, every visible class reads back                      *)
(* (objc_runtime_darwin.go:398, 406-409, 416-419, 454).                      *)
THEOREM ReadablePlansReadBack ==
  ASSUME \A p \in Plans : ReadablePlan(p)
  PROVE  Spec => []SignaturesReadBack
  <1>1. IndInv => SignaturesReadBack
    <2> SUFFICES ASSUME IndInv, NEW r \in Visible PROVE ReadsBack(r)
      BY DEF SignaturesReadBack
    <2>1. r \in Attempts
      BY DEF Visible
    <2>2. plan[r] \in Plans
      BY <2>1 DEF IndInv, TypeOK
    <2> QED BY <2>1, <2>2, ReadablePlanReads
  <1> QED BY Induction, <1>1, PTL
=============================================================================
