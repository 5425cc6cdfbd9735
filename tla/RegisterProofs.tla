--------------------------- MODULE RegisterProofs ---------------------------
(***************************************************************************)
(* Proofs about Register, for any number of parameters and any length of   *)
(* the tail: what is packed for a call is what its interface describes,    *)
(* the tail of a C-variadic call begins where C looks for it, and          *)
(* objc_msgSend is called with its arguments in registers.                 *)
(***************************************************************************)
EXTENDS Register, SequenceTheorems, TLAPS

-----------------------------------------------------------------------------
(* Sequences up to a length are sequences.                                   *)
LEMMA UpToSeq ==
  ASSUME NEW n, NEW S, NEW s \in UpTo(n, S)
  PROVE  s \in Seq(S)
  <1>1. PICK k \in 0..n : s \in [1..k -> S]
    BY DEF UpTo
  <1>2. k \in Nat
    BY <1>1
  <1> QED BY <1>1, <1>2

(* A sequence with one more element.                                         *)
LEMMA Appended ==
  ASSUME NEW S, NEW s \in Seq(S), NEW x \in S
  PROVE  /\ Append(s, x) \in Seq(S)
         /\ Len(Append(s, x)) = Len(s) + 1
         /\ \A i \in 1..Len(s) : Append(s, x)[i] = s[i]
         /\ Append(s, x)[Len(s) + 1] = x
  OBVIOUS

(* A parameter's descriptor and the memory packArg points to agree           *)
(* (purego.go:273-322, 368-436).                                             *)
LEMMA PackedAsDescribed ==
  ASSUME NEW kind
  PROVE  /\ packArg(kind) = goArgTypeToFfiType(kind)
         /\ packArg(kind) \in Descriptors
  BY DEF packArg, goArgTypeToFfiType, goTypeToFfiType, Descriptors

(* Three sequences one behind the other: where the elements of the first two *)
(* are.                                                                      *)
LEMMA Concatenated ==
  ASSUME NEW T, NEW m \in Seq(T), NEW p \in Seq(T), NEW t \in Seq(T)
  PROVE  /\ Len((m \o p) \o t) = Len(m) + Len(p) + Len(t)
         /\ \A i \in 1..Len(p) : ((m \o p) \o t)[Len(m) + i] = p[i]
         /\ \A i \in 1..Len(m) : ((m \o p) \o t)[i] = m[i]
  <1>1. PICK f : f = m \o p
    OBVIOUS
  <1>2. PICK g : g = f \o t
    OBVIOUS
  <1>3. /\ f \in Seq(T) /\ Len(f) = Len(m) + Len(p)
        /\ \A i \in 1..(Len(m) + Len(p)) :
              f[i] = IF i <= Len(m) THEN m[i] ELSE p[i - Len(m)]
    BY <1>1, ConcatProperties
  <1>f. f \in Seq(T)
    BY <1>3
  <1>4. /\ Len(g) = Len(f) + Len(t)
        /\ \A i \in 1..(Len(f) + Len(t)) :
              g[i] = IF i <= Len(f) THEN f[i] ELSE t[i - Len(f)]
    BY <1>2, <1>f, ConcatProperties
  <1>5. Len(m) \in Nat /\ Len(p) \in Nat /\ Len(t) \in Nat
    BY LenProperties
  <1>6. ASSUME NEW i \in 1..Len(p) PROVE g[Len(m) + i] = p[i]
    <2>1. Len(m) + i \in 1..(Len(m) + Len(p)) /\ Len(m) + i \in 1..(Len(f) + Len(t))
          /\ ~(Len(m) + i <= Len(m)) /\ (Len(m) + i) - Len(m) = i
      BY <1>3, <1>5, <1>6
    <2>2. PICK j : j = Len(m) + i
      OBVIOUS
    <2>3. j <= Len(f) /\ ~(j <= Len(m)) /\ j - Len(m) = i
      BY <1>3, <1>5, <1>6, <2>2
    <2>4. g[j] = f[j]
      BY <1>4, <2>1, <2>2, <2>3
    <2>5. f[j] = p[j - Len(m)]
      BY <1>3, <2>1, <2>2, <2>3
    <2> QED BY <2>2, <2>3, <2>4, <2>5
  <1>7. ASSUME NEW i \in 1..Len(m) PROVE g[i] = m[i]
    <2>1. i \in 1..(Len(m) + Len(p)) /\ i \in 1..(Len(f) + Len(t)) /\ i <= Len(f)
      BY <1>3, <1>5, <1>7
    <2> QED BY <1>3, <1>4, <1>7, <2>1
  <1>8. Len(g) = Len(m) + Len(p) + Len(t)
    BY <1>3, <1>4
  <1> QED BY <1>1, <1>2, <1>6, <1>7, <1>8

(* The fixed parameters follow the marker among those reflect sees.          *)
LEMMA FixedParameters ==
  ASSUME sig \in Signatures
  PROVE  /\ sig.params \in Seq(Kinds) /\ Len(sig.params) \in Nat
         /\ Offset \in {0, 1} /\ sig.dotdotdot \in BOOLEAN
         /\ sig.dotdotdot => Len(In) = Offset + Len(sig.params) + 1
         /\ ~sig.dotdotdot => Len(In) = Offset + Len(sig.params)
         /\ \A i \in 1..Len(sig.params) : In[Offset + i] = sig.params[i]
         /\ sig.marker # "none" => In[1] = "marker"
  <1>1. PICK m : m = IF sig.marker = "none" THEN <<>> ELSE <<"marker">>
    OBVIOUS
  <1>2. PICK t : t = IF sig.dotdotdot THEN <<"slice">> ELSE <<>>
    OBVIOUS
  <1>3. PICK p : p = sig.params
    OBVIOUS
  <1> DEFINE T == Kinds \cup {"marker", "slice"}
  <1>4. p \in Seq(Kinds) /\ sig.dotdotdot \in BOOLEAN
    BY <1>3, UpToSeq DEF Signatures
  <1>5. p \in Seq(T) /\ Len(p) \in Nat
    BY <1>4, SeqMonotonic, LenProperties
  <1>6. m \in Seq(T) /\ Len(m) = Offset /\ Offset \in {0, 1}
        /\ (sig.marker # "none" => m[1] = "marker" /\ Offset = 1)
    <2>1. CASE sig.marker = "none"
      BY <1>1, <2>1 DEF Offset
    <2>2. CASE sig.marker # "none"
      BY <1>1, <2>2 DEF Offset
    <2> QED BY <2>1, <2>2
  <1>7. t \in Seq(T) /\ (sig.dotdotdot => Len(t) = 1) /\ (~sig.dotdotdot => Len(t) = 0)
    <2>1. CASE sig.dotdotdot
      BY <1>2, <2>1
    <2>2. CASE ~sig.dotdotdot
      BY <1>2, <2>2
    <2> QED BY <2>1, <2>2
  <1>8. In = (m \o p) \o t
    BY <1>1, <1>2, <1>3 DEF In
  <1> HIDE DEF T
  <1>s. m \in Seq(T) /\ p \in Seq(T) /\ t \in Seq(T)
    BY <1>5, <1>6, <1>7
  <1>9. /\ Len(In) = Len(m) + Len(p) + Len(t)
        /\ \A i \in 1..Len(p) : In[Len(m) + i] = p[i]
        /\ \A i \in 1..Len(m) : In[i] = m[i]
    BY <1>s, <1>8, Concatenated
  <1>l. Len(In) = Offset + Len(p) + Len(t) /\ Len(p) \in Nat /\ Offset \in Nat
    BY <1>5, <1>6, <1>9
  <1>10. /\ sig.dotdotdot => Len(In) = Offset + Len(p) + 1
         /\ ~sig.dotdotdot => Len(In) = Offset + Len(p)
    <2>1. ASSUME Len(t) = 1 PROVE Len(In) = Offset + Len(p) + 1
      BY <1>l, <2>1
    <2>2. ASSUME Len(t) = 0 PROVE Len(In) = Offset + Len(p)
      BY <1>l, <2>2
    <2> QED BY <1>7, <2>1, <2>2
  <1>11. sig.marker # "none" => In[1] = "marker"
    BY <1>6, <1>9
  <1> QED BY <1>3, <1>4, <1>5, <1>6, <1>9, <1>10, <1>11

-----------------------------------------------------------------------------
(* Before RegisterFunc has looked at the type nothing is described.          *)
LEMMA InitHolds == Init => IndInv
  <1> SUFFICES ASSUME Init PROVE IndInv
    OBVIOUS
  <1> USE DEF Init
  <1>1. TypeOK
    <2>1. cif \in [variadic : BOOLEAN, fixed : Nat, args : Seq(Descriptors)]
      BY DEF NoCif
    <2>2. <<>> \in Seq(Descriptors) /\ <<>> \in Seq(Kinds \cup {"nil"})
      BY EmptySeq
    <2> QED BY <2>1, <2>2 DEF TypeOK
  <1>2. Bounded /\ Described /\ Prepared /\ Packed /\ NotVariadic
    BY DEF Bounded, Described, Prepared, Packed, NotVariadic
  <1> QED BY <1>1, <1>2 DEF IndInv

(* Every step keeps the types: a descriptor for each parameter that is       *)
(* described (purego.go:104-107, 175), numbers for the bounds.               *)
LEMMA NextTypes == IndInv /\ [Next]_vars => TypeOK'
  <1> SUFFICES ASSUME IndInv, [Next]_vars PROVE TypeOK'
    OBVIOUS
  <1> USE DEF regVars
  <1>0. TypeOK
    BY DEF IndInv
  <1>p. Panic => TypeOK'
    BY <1>0 DEF Panic, TypeOK
  <1>1. CASE Check
    BY <1>0, <1>1, <1>p DEF Check, TypeOK
  <1>2. CASE Markers
    <2>1. sig \in Signatures
      BY <1>0 DEF TypeOK
    <2>2. fixedIn' \in Nat
      BY <1>2, <2>1, FixedParameters DEF Markers
    <2> QED BY <1>0, <1>2, <2>2 DEF Markers, TypeOK
  <1>3. CASE Heuristic
    BY <1>0, <1>3 DEF Heuristic, TypeOK, IsVariadicByName
  <1>4. CASE Describe
    <2>1. \A k : goArgTypeToFfiType(k) \in Descriptors
      BY PackedAsDescribed
    <2>2. CASE Panic
      BY <1>p, <2>2
    <2>3. CASE ~Panic
      <3>1. fixedArgTypes' = fixedArgTypes
            \/ \E k : fixedArgTypes' = Append(fixedArgTypes, goArgTypeToFfiType(k))
        BY <1>4, <2>3 DEF Describe
      <3>2. fixedArgTypes \in Seq(Descriptors)
        BY <1>0 DEF TypeOK
      <3>3. fixedArgTypes' \in Seq(Descriptors)
        BY <2>1, <3>1, <3>2, Appended
      <3> QED BY <1>0, <1>4, <2>3, <3>3 DEF Describe, TypeOK
    <2> QED BY <2>2, <2>3
  <1>5. CASE Prepare
    <2>1. [NoCif EXCEPT !.args = fixedArgTypes]
          \in [variadic : BOOLEAN, fixed : Nat, args : Seq(Descriptors)]
      BY <1>0 DEF NoCif, TypeOK
    <2> QED BY <1>0, <1>5, <1>p, <2>1 DEF Prepare, Installs, TypeOK
  <1>6. CASE Call
    <2>1. [NoCif EXCEPT !.args = fixedArgTypes]
          \in [variadic : BOOLEAN, fixed : Nat, args : Seq(Descriptors)]
      BY <1>0 DEF NoCif, TypeOK
    <2>2. tail' \in Seq(Kinds \cup {"nil"})
      BY <1>6, UpToSeq DEF Call
    <2> QED BY <1>0, <1>6, <2>1, <2>2 DEF Call, TypeOK
  <1>7. CASE PackFixed
    <2>1. packed' = packed \/ \E k : packed' = Append(packed, packArg(k))
      BY <1>7 DEF PackFixed
    <2>2. packed \in Seq(Descriptors)
      BY <1>0 DEF TypeOK
    <2>3. packed' \in Seq(Descriptors)
      BY <2>1, <2>2, PackedAsDescribed, Appended
    <2> QED BY <1>0, <1>7, <2>3 DEF PackFixed, TypeOK
  <1>8. CASE PackTail
    <2> DEFINE k == tail[Len(packed) - Len(fixedArgTypes) + 1]
    <2>1. goArgTypeToFfiType(k) \in Descriptors /\ packArg(k) \in Descriptors
      BY PackedAsDescribed
    <2>2. CASE Panic
      BY <1>p, <2>2
    <2>3. CASE ~Panic
      <3>1. cif' = [cif EXCEPT !.args = Append(@, goArgTypeToFfiType(k))]
            /\ packed' = Append(packed, packArg(k))
            /\ UNCHANGED <<sig, pc, regVars, fixedArgTypes, installed, tail>>
        BY <1>8, <2>3 DEF PackTail
      <3> HIDE DEF k
      <3>2. packed' \in Seq(Descriptors)
            /\ Append(cif.args, goArgTypeToFfiType(k)) \in Seq(Descriptors)
        BY <1>0, <2>1, <3>1, Appended DEF TypeOK
      <3> QED BY <1>0, <3>1, <3>2 DEF TypeOK
    <2> QED BY <2>2, <2>3
  <1>9. CASE PrepareDynamic
    <2>1. Boundary \in Nat
      BY <1>0, LenProperties DEF Boundary, TypeOK
    <2> QED BY <1>0, <1>9, <1>p, <2>1 DEF PrepareDynamic, TypeOK
  <1>10. CASE UNCHANGED vars
    BY <1>0, <1>10 DEF vars, TypeOK
  <1> QED BY <1>1, <1>2, <1>3, <1>4, <1>5, <1>6, <1>7, <1>8, <1>9, <1>10
      DEF Next, Over

(* A marker and the slice of the tail lie outside the fixed parameters       *)
(* (purego.go:60-86), and the bounds stay as they are.                       *)
LEMMA NextBounded == IndInv /\ [Next]_vars => Bounded'
  <1> SUFFICES ASSUME IndInv, [Next]_vars PROVE Bounded'
    OBVIOUS
  <1> USE DEF regVars, Offset
  <1>0. TypeOK /\ Bounded
    BY DEF IndInv
  <1>p. Panic => Bounded'
    BY DEF Panic, Bounded
  <1>1. CASE Check
    BY <1>1, <1>p DEF Check, Bounded
  <1>2. CASE Markers
    <2>1. sig \in Signatures
      BY <1>0 DEF TypeOK
    <2>2. sig' = sig /\ startIn' = Offset
      BY <1>2 DEF Markers
    <2>3. fixedIn' = Offset + Len(sig.params)
      <3>1. Len(sig.params) \in Nat /\ Offset \in {0, 1}
        BY <2>1, FixedParameters
      <3>2. CASE sig.dotdotdot
        <4>1. Len(In) = Offset + Len(sig.params) + 1
          BY <2>1, <3>2, FixedParameters
        <4> HIDE DEF Offset
        <4> QED BY <1>2, <3>1, <3>2, <4>1 DEF Markers
      <3>3. CASE ~sig.dotdotdot
        <4>1. Len(In) = Offset + Len(sig.params)
          BY <2>1, <3>3, FixedParameters
        <4> QED BY <1>2, <3>3, <4>1 DEF Markers
      <3> QED BY <3>2, <3>3
    <2> QED BY <2>2, <2>3 DEF Bounded
  <1>3. CASE Heuristic
    BY <1>0, <1>3 DEF Heuristic, Bounded
  <1>4. CASE Describe
    BY <1>0, <1>4, <1>p DEF Describe, Bounded
  <1>5. CASE Prepare
    BY <1>0, <1>5, <1>p DEF Prepare, Installs, Bounded
  <1>6. CASE Call
    BY <1>0, <1>6 DEF Call, Bounded
  <1>7. CASE PackFixed
    BY <1>0, <1>7 DEF PackFixed, Bounded
  <1>8. CASE PackTail
    BY <1>0, <1>8, <1>p DEF PackTail, Bounded
  <1>9. CASE PrepareDynamic
    BY <1>0, <1>9, <1>p DEF PrepareDynamic, Bounded
  <1>10. CASE UNCHANGED vars
    BY <1>0, <1>10 DEF vars, Bounded
  <1> QED BY <1>1, <1>2, <1>3, <1>4, <1>5, <1>6, <1>7, <1>8, <1>9, <1>10
      DEF Next, Over

(* The loop over the fixed parameters describes them in their order and      *)
(* leaves none out (purego.go:104-114).                                      *)
LEMMA NextDescribed == IndInv /\ [Next]_vars => Described'
  <1> SUFFICES ASSUME IndInv, [Next]_vars PROVE Described'
    OBVIOUS
  <1> USE DEF regVars
  <1>0. TypeOK /\ Bounded /\ Described
    BY DEF IndInv
  <1>p. Panic => Described'
    BY DEF Panic, Described
  <1>1. CASE Check
    BY <1>0, <1>1, <1>p DEF Check, Described
  <1>2. CASE Markers
    BY <1>0, <1>2 DEF Markers, Described
  <1>3. CASE Heuristic
    <2>1. fixedArgTypes' = <<>> /\ sig' = sig /\ pc' = "describe"
      BY <1>0, <1>3 DEF Heuristic, Described
    <2>2. Len(sig.params) \in Nat /\ Len(<<>>) = 0
      BY <1>0, FixedParameters, LenProperties DEF TypeOK
    <2> QED BY <2>1, <2>2 DEF Described
  <1>4. CASE Describe
    <2> DEFINE n == Len(fixedArgTypes)
    <2>1. n \in Nat /\ Len(sig.params) \in Nat /\ startIn \in Nat
      BY <1>0, FixedParameters, LenProperties DEF TypeOK
    <2>2. CASE Panic
      BY <1>p, <2>2
    <2>3. CASE startIn + n + 1 <= fixedIn /\ ~Panic
      <3>1. n + 1 \in 1..Len(sig.params)
        BY <1>0, <1>4, <2>1, <2>3 DEF Describe, Bounded
      <3>2. In[startIn + (n + 1)] = sig.params[n + 1]
        BY <1>0, <1>4, <3>1, FixedParameters DEF Describe, Bounded, TypeOK
      <3>3. startIn + n + 1 = startIn + (n + 1)
        BY <2>1
      <3>4. fixedArgTypes' = Append(fixedArgTypes, goArgTypeToFfiType(sig.params[n + 1]))
            /\ sig' = sig /\ pc' = "describe"
        BY <1>4, <2>3, <3>2, <3>3 DEF Describe
      <3>5. /\ Len(fixedArgTypes') = n + 1
            /\ \A i \in 1..n : fixedArgTypes'[i] = fixedArgTypes[i]
            /\ fixedArgTypes'[n + 1] = goArgTypeToFfiType(sig.params[n + 1])
        BY <1>0, <3>4, Appended, PackedAsDescribed DEF TypeOK
      <3>6. \A i \in 1..(n + 1) : i \in 1..n \/ i = n + 1
        BY <2>1
      <3> QED BY <1>0, <1>4, <3>1, <3>4, <3>5, <3>6 DEF Describe, Described
    <2>4. CASE ~(startIn + n + 1 <= fixedIn) /\ ~Panic
      <3>1. pc' = "prepare" /\ sig' = sig /\ fixedArgTypes' = fixedArgTypes
        BY <1>4, <2>4 DEF Describe
      <3>2. n = Len(sig.params)
        BY <1>0, <1>4, <2>1, <2>4 DEF Describe, Bounded, Described
      <3> QED BY <1>0, <1>4, <3>1, <3>2 DEF Describe, Described
    <2> QED BY <2>2, <2>3, <2>4
  <1>5. CASE Prepare
    BY <1>0, <1>5, <1>p DEF Prepare, Installs, Described
  <1>6. CASE Call
    BY <1>0, <1>6 DEF Call, Described
  <1>7. CASE PackFixed
    BY <1>0, <1>7 DEF PackFixed, Described
  <1>8. CASE PackTail
    BY <1>0, <1>8, <1>p DEF PackTail, Described
  <1>9. CASE PrepareDynamic
    BY <1>0, <1>9, <1>p DEF PrepareDynamic, Described
  <1>10. CASE UNCHANGED vars
    BY <1>0, <1>10 DEF vars, Described
  <1> QED BY <1>1, <1>2, <1>3, <1>4, <1>5, <1>6, <1>7, <1>8, <1>9, <1>10
      DEF Next, Over

(* What is installed goes with an interface of all fixed parameters          *)
(* (purego.go:116-141); the closure of a function with a tail has none yet.  *)
LEMMA NextPrepared == IndInv /\ [Next]_vars => Prepared'
  <1> SUFFICES ASSUME IndInv, [Next]_vars PROVE Prepared'
    OBVIOUS
  <1> USE DEF regVars
  <1>0. TypeOK /\ Prepared
    BY DEF IndInv
  <1>f. sig' = sig /\ hasError' = hasError => (FastPathFits' <=> FastPathFits)
    BY DEF FastPathFits, In
  <1>p. pc # "registered" /\ Panic => Prepared'
    BY <1>0 DEF Panic, Prepared, TypeOK
  <1>1. CASE Check
    BY <1>0, <1>1, <1>p DEF Check, Prepared
  <1>2. CASE Markers
    BY <1>0, <1>2 DEF Markers, Prepared
  <1>3. CASE Heuristic
    BY <1>0, <1>3 DEF Heuristic, Prepared
  <1>4. CASE Describe
    BY <1>0, <1>4, <1>p DEF Describe, Prepared
  <1>5. CASE Prepare
    BY <1>0, <1>5, <1>p, <1>f DEF Prepare, Installs, Prepared, NoCif
  <1>6. CASE Call
    BY <1>0, <1>6 DEF Call, Prepared
  <1>7. CASE PackFixed
    BY <1>0, <1>7 DEF PackFixed, Prepared
  <1>8. CASE PackTail
    BY <1>0, <1>8, <1>p DEF PackTail, Prepared
  <1>9. CASE PrepareDynamic
    BY <1>0, <1>9, <1>p DEF PrepareDynamic, Prepared
  <1>10. CASE UNCHANGED vars
    BY <1>0, <1>10, <1>f DEF vars, Prepared
  <1> QED BY <1>1, <1>2, <1>3, <1>4, <1>5, <1>6, <1>7, <1>8, <1>9, <1>10
      DEF Next, Over

(* A call packs the fixed arguments as they were described, then describes   *)
(* and packs those of its tail one by one (purego.go:143-200).               *)
LEMMA NextPacked == IndInv /\ [Next]_vars => Packed'
  <1> SUFFICES ASSUME IndInv, [Next]_vars PROVE Packed'
    OBVIOUS
  <1> USE DEF regVars
  <1>0. TypeOK /\ Bounded /\ Described /\ Prepared /\ Packed
    BY DEF IndInv
  <1>p. Panic => Packed'
    BY DEF Panic, Packed
  <1>n. Len(sig.params) \in Nat /\ Len(packed) \in Nat /\ Len(tail) \in Nat
        /\ Len(fixedArgTypes) \in Nat /\ startIn \in Nat
    BY <1>0, FixedParameters, LenProperties DEF TypeOK
  <1>1. CASE Check
    BY <1>0, <1>1, <1>p DEF Check, Packed
  <1>2. CASE Markers
    BY <1>0, <1>2 DEF Markers, Packed
  <1>3. CASE Heuristic
    BY <1>0, <1>3 DEF Heuristic, Packed
  <1>4. CASE Describe
    BY <1>0, <1>4, <1>p DEF Describe, Packed
  <1>5. CASE Prepare
    BY <1>0, <1>5, <1>p DEF Prepare, Installs, Packed
  <1>6. CASE Call
    <2>1. packed' = <<>> /\ pc' = "pack" /\ sig' = sig /\ fixedArgTypes' = fixedArgTypes
      BY <1>0, <1>6 DEF Call, Packed
    <2>2. cif'.args = fixedArgTypes /\ ~cif'.variadic
      BY <1>0, <1>6 DEF Call, Prepared, NoCif
    <2>3. Len(<<>>) = 0
      OBVIOUS
    <2> QED BY <1>n, <2>1, <2>2, <2>3 DEF Packed
  <1>7. CASE PackFixed
    <2> DEFINE n == Len(packed)
    <2>1. CASE startIn + n < fixedIn
      <3>1. n + 1 \in 1..Len(sig.params)
        BY <1>0, <1>7, <1>n, <2>1 DEF PackFixed, Bounded
      <3>o. startIn = Offset /\ sig \in Signatures /\ startIn + (n + 1) = startIn + n + 1
        BY <1>0, <1>7, <1>n DEF PackFixed, Bounded, TypeOK
      <3>2. In[startIn + n + 1] = sig.params[n + 1]
        BY <3>1, <3>o, FixedParameters
      <3>3. packArg(sig.params[n + 1]) = fixedArgTypes[n + 1]
        BY <1>0, <1>7, <3>1, PackedAsDescribed DEF PackFixed, Described
      <3>4. packed' = Append(packed, fixedArgTypes[n + 1])
            /\ UNCHANGED <<pc, sig, fixedArgTypes, cif, tail>>
        BY <1>7, <2>1, <3>2, <3>3 DEF PackFixed
      <3>5. /\ Len(packed') = n + 1
            /\ \A i \in 1..n : packed'[i] = packed[i]
            /\ packed'[n + 1] = fixedArgTypes[n + 1]
        BY <1>0, <3>3, <3>4, Appended, PackedAsDescribed DEF TypeOK
      <3>6. \A i \in 1..(n + 1) : i \in 1..n \/ i = n + 1
        BY <1>n
      <3> QED BY <1>0, <1>7, <3>1, <3>4, <3>5, <3>6 DEF PackFixed, Packed
    <2>2. CASE ~(startIn + n < fixedIn)
      <3>1. n = Len(sig.params)
        BY <1>0, <1>7, <1>n, <2>2 DEF PackFixed, Bounded, Packed
      <3>2. packed = fixedArgTypes
        BY <1>0, <1>7, <3>1, SeqEqual DEF PackFixed, Packed, Described, TypeOK
      <3>3. pc' = "tail" /\ UNCHANGED <<packed, sig, fixedArgTypes, cif, tail>>
        BY <1>7, <2>2 DEF PackFixed
      <3> QED BY <1>0, <1>7, <1>n, <3>1, <3>2, <3>3 DEF PackFixed, Packed
    <2> QED BY <2>1, <2>2
  <1>8. CASE PackTail
    <2> DEFINE k == tail[Len(packed) - Len(fixedArgTypes) + 1]
    <2>1. CASE Panic
      BY <1>p, <2>1
    <2>2. CASE ~Panic
      <3>1. cif' = [cif EXCEPT !.args = Append(@, goArgTypeToFfiType(k))]
            /\ packed' = Append(packed, packArg(k))
            /\ UNCHANGED <<sig, pc, fixedArgTypes, tail>>
        BY <1>8, <2>2 DEF PackTail
      <3>2. packArg(k) = goArgTypeToFfiType(k) /\ packArg(k) \in Descriptors
        BY PackedAsDescribed
      <3>3. Len(packed) < Len(sig.params) + Len(tail)
        BY <1>0, <1>8, <1>n DEF PackTail, Described
      <3> HIDE DEF k
      <3>4. Len(packed') = Len(packed) + 1
        BY <1>0, <3>1, <3>2, Appended DEF TypeOK
      <3>5. cif'.args = packed' /\ cif'.variadic = cif.variadic
        BY <1>0, <1>8, <3>1, <3>2 DEF PackTail, Packed, TypeOK
      <3> QED BY <1>0, <1>8, <1>n, <3>1, <3>3, <3>4, <3>5 DEF PackTail, Packed
    <2> QED BY <2>1, <2>2
  <1>9. CASE PrepareDynamic
    <2>1. CASE Panic
      BY <1>p, <2>1
    <2>2. CASE ~Panic
      <3>1. cif' = (IF sig.dotdotdot /\ isCVariadic
                    THEN [cif EXCEPT !.variadic = TRUE, !.fixed = Boundary] ELSE cif)
            /\ pc' = "called" /\ UNCHANGED <<sig, regVars, fixedArgTypes, tail, packed>>
        BY <1>9, <2>2 DEF PrepareDynamic
      <3>2. Boundary = Len(sig.params) /\ cif.args = packed /\ ~cif.variadic
        BY <1>0, <1>9 DEF PrepareDynamic, Boundary, Described, Packed
      <3>3. Len(packed) = Len(sig.params) + Len(tail)
        BY <1>0, <1>9, <1>n DEF PrepareDynamic, Described, Packed
      <3>4. /\ cif'.args = packed
            /\ cif'.variadic => isCVariadic /\ cif'.fixed = Len(sig.params)
        BY <1>0, <3>1, <3>2 DEF TypeOK
      <3> QED BY <1>n, <3>1, <3>3, <3>4 DEF Packed
    <2> QED BY <2>1, <2>2
  <1>10. CASE UNCHANGED vars
    BY <1>0, <1>10 DEF vars, Packed
  <1> QED BY <1>1, <1>2, <1>3, <1>4, <1>5, <1>6, <1>7, <1>8, <1>9, <1>10
      DEF Next, Over

(* Neither the marker's branch nor the heuristic makes objc_msgSend          *)
(* C-variadic (purego.go:68-102), with or without a name from dladdr.        *)
LEMMA NextNotVariadic == IndInv /\ [Next]_vars => NotVariadic'
  <1> SUFFICES ASSUME IndInv, [Next]_vars PROVE NotVariadic'
    OBVIOUS
  <1> USE DEF regVars
  <1>0. TypeOK /\ NotVariadic
    BY DEF IndInv
  <1>p. Panic => NotVariadic'
    BY <1>0 DEF Panic, NotVariadic
  <1>1. CASE Check
    BY <1>0, <1>1, <1>p DEF Check, NotVariadic
  <1>2. CASE Markers
    BY <1>0, <1>2 DEF Markers, NotVariadic
  <1>3. CASE Heuristic
    <2>1. sig.real = "objc_msgSend" => ~IsVariadicByName
      BY <1>0 DEF NotVariadic, IsVariadicByName, getSymbolName
    <2> QED BY <1>0, <1>3, <2>1 DEF Heuristic, NotVariadic
  <1>4. CASE Describe
    BY <1>0, <1>4, <1>p DEF Describe, NotVariadic
  <1>5. CASE Prepare
    BY <1>0, <1>5, <1>p DEF Prepare, Installs, NotVariadic
  <1>6. CASE Call
    BY <1>0, <1>6 DEF Call, NotVariadic
  <1>7. CASE PackFixed
    BY <1>0, <1>7 DEF PackFixed, NotVariadic
  <1>8. CASE PackTail
    BY <1>0, <1>8, <1>p DEF PackTail, NotVariadic
  <1>9. CASE PrepareDynamic
    BY <1>0, <1>9, <1>p DEF PrepareDynamic, NotVariadic
  <1>10. CASE UNCHANGED vars
    BY <1>0, <1>10 DEF vars, NotVariadic
  <1> QED BY <1>1, <1>2, <1>3, <1>4, <1>5, <1>6, <1>7, <1>8, <1>9, <1>10
      DEF Next, Over

-----------------------------------------------------------------------------
(* The inductive invariant holds of RegisterFunc and the calls through its   *)
(* closure (purego.go:43-215).                                               *)
THEOREM Induction == Spec => []IndInv
  <1>1. IndInv /\ [Next]_vars => IndInv'
    BY NextTypes, NextBounded, NextDescribed, NextPrepared, NextPacked, NextNotVariadic
       DEF IndInv
  <1> QED BY InitHolds, <1>1, PTL DEF Spec

(* C reads each argument the way it was packed (purego.go:104-107, 155-182), *)
(* whatever the parameters and the tail of the call.                         *)
THEOREM InterfaceDescribesMemory == Spec => []InterfaceMatches
  <1>1. IndInv => InterfaceMatches
    <2> SUFFICES ASSUME IndInv PROVE InterfaceMatches
      OBVIOUS
    <2>1. pc = "called" => cif.args = packed
      BY DEF IndInv, Packed
    <2>2. ASSUME installed = "fast" PROVE Len(cif.args) = Len(In)
      <3>1. cif.args = fixedArgTypes /\ Len(fixedArgTypes) = Len(sig.params)
            /\ ~sig.dotdotdot /\ \A i \in 1..Len(In) : In[i] = "word"
        BY <2>2 DEF IndInv, Prepared, Described, FastPathFits
      <3>2. sig \in Signatures
        BY DEF IndInv, TypeOK
      <3>3. Len(sig.params) \in Nat
        BY <3>2, FixedParameters, LenProperties
      <3>4. CASE sig.marker # "none"
        <4>1. In[1] = "marker" /\ Offset = 1 /\ Len(In) = Offset + Len(sig.params)
          BY <3>1, <3>2, <3>4, FixedParameters DEF Offset
        <4>2. 1 \in 1..Len(In)
          BY <3>3, <4>1
        <4> QED BY <3>1, <4>1, <4>2
      <3>5. CASE sig.marker = "none"
        <4>1. Offset = 0 /\ Len(In) = Offset + Len(sig.params)
          BY <3>1, <3>2, <3>5, FixedParameters DEF Offset
        <4> QED BY <3>1, <3>3, <4>1
      <3> QED BY <3>4, <3>5
    <2> QED BY <2>1, <2>2 DEF InterfaceMatches
  <1> QED BY Induction, <1>1, PTL

(* The tail of a C-variadic call begins behind the function's fixed          *)
(* parameters (purego.go:194), for any number of them.                       *)
THEOREM TailBehindFixed == Spec => []VariadicBoundary
  <1>1. IndInv => VariadicBoundary
    BY DEF IndInv, Packed, VariadicBoundary
  <1> QED BY Induction, <1>1, PTL

(* objc_msgSend is called as C-variadic only on request (purego.go:88-102).  *)
THEOREM MsgSendNotVariadic == Spec => []MsgSendInRegisters
  <1>1. IndInv => MsgSendInRegisters
    BY DEF IndInv, Packed, NotVariadic, MsgSendInRegisters
  <1> QED BY Induction, <1>1, PTL
=============================================================================
