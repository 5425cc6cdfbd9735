--------------------------- MODULE FastCallProofs ---------------------------
(***************************************************************************)
(* Proofs about FastCall, for any number of calls and contexts and any     *)
(* signatures: contexts belong to one call at a time, and the C function   *)
(* finds each argument in its position, whatever links a context kept from *)
(* the calls before.                                                       *)
(***************************************************************************)
EXTENDS FastCall, FiniteSetTheorems, TLAPS

(* The most arguments there are is a number, and "no context" is none.       *)
LEMMA Bounds == MaxArgs \in Nat /\ NoCtx \notin Ctxs
  BY FastCallAssumption

(* A call interface is a sequence of kinds within the bound                  *)
(* (zz_fast_func.go:45, cif.ArgTypes).                                       *)
LEMMA SigTyped ==
  ASSUME NEW s \in Sigs \cup {<<>>}
  PROVE  /\ Len(s) \in 0..MaxArgs
         /\ \A n \in 1..Len(s) : s[n] \in ArgKinds /\ n \in Positions
  <1>1. CASE s \in Sigs
    <2>1. PICK n \in 0..MaxArgs : s \in [1..n -> {"int", "float"}]
      BY <1>1, FastCallAssumption
    <2>2. n \in Nat /\ n <= MaxArgs
      BY <2>1, Bounds
    <2>3. s \in Seq({"int", "float"}) /\ Len(s) = n
      BY <2>1, <2>2
    <2> QED BY <2>1, <2>2, <2>3, Bounds DEF ArgKinds, Positions
  <1>2. CASE s = <<>>
    BY <1>2, Bounds
  <1> QED BY <1>1, <1>2

(* The counters iIdx and fIdx (zz_fast_func.go:46-55) give an argument a     *)
(* slot inside the arrays.                                                   *)
LEMMA IndexTyped ==
  ASSUME NEW s \in Sigs \cup {<<>>}, NEW n \in 1..Len(s)
  PROVE  Index(s, s[n], n) \in Positions
  <1> DEFINE S == {m \in 1..n : s[m] = s[n]}
  <1>1. n \in Nat /\ 1 <= n /\ n <= MaxArgs
    BY SigTyped, Bounds
  <1>2. IsFiniteSet(1..n) /\ Cardinality(1..n) = n
    BY <1>1, FS_Interval
  <1>3. S \in SUBSET (1..n) /\ n \in S
    BY <1>1
  <1>4. IsFiniteSet(S) /\ Cardinality(S) <= n
    BY <1>2, <1>3, FS_Subset
  <1>5. Cardinality(S) \in Nat /\ Cardinality(S) # 0
    BY <1>3, <1>4, FS_CardinalityType, FS_EmptySet
  <1>6. Cardinality(S) \in 1..MaxArgs
    BY <1>1, <1>4, <1>5, Bounds
  <1> QED BY <1>6 DEF Index, Positions

(* Two arguments of a kind never have the same slot (zz_fast_func.go:46-55). *)
LEMMA IndexInjective ==
  ASSUME NEW s \in Sigs \cup {<<>>}, NEW m \in 1..Len(s), NEW n \in 1..Len(s),
         s[m] = s[n], m < n
  PROVE  Index(s, s[n], m) # Index(s, s[n], n)
  <1> DEFINE S == {j \in 1..m : s[j] = s[n]}
             T == {j \in 1..n : s[j] = s[n]}
  <1>1. m \in Nat /\ n \in Nat
    BY SigTyped
  <1>2. IsFiniteSet(1..n)
    BY <1>1, FS_Interval
  <1>3. T \in SUBSET (1..n)
    OBVIOUS
  <1>4. IsFiniteSet(T)
    BY <1>2, <1>3, FS_Subset
  <1>5. S \in SUBSET T
    BY <1>1
  <1>6. n \in T /\ n \notin S
    BY <1>1
  <1>7. Cardinality(T) = Cardinality(S) => T = S
    BY <1>4, <1>5, FS_Subset
  <1> QED BY <1>6, <1>7 DEF Index

(* Slots are filled with arguments of the call or with nothing.              *)
LEMMA FilledTyped ==
  ASSUME NEW k \in Calls, sig[k] \in Sigs \cup {<<>>}, NEW d, NEW j
  PROVE  Filled(k, d, j) \in (Calls \X Positions) \cup {Nil}
  <1> DEFINE P(n) == sig[k][n] = d /\ Index(sig[k], d, n) = j
  <1>1. CASE \E n \in 1..Len(sig[k]) : P(n)
    <2>1. (CHOOSE n \in 1..Len(sig[k]) : P(n)) \in 1..Len(sig[k])
      BY <1>1
    <2>2. (CHOOSE n \in 1..Len(sig[k]) : P(n)) \in Positions
      BY <2>1, SigTyped
    <2> QED BY <1>1, <2>2 DEF Filled
  <1>2. CASE ~ \E n \in 1..Len(sig[k]) : P(n)
    BY <1>2 DEF Filled
  <1> QED BY <1>1, <1>2

(* Where the loop links the n-th argument (zz_fast_func.go:47-53), the       *)
(* wrapper has put it.                                                       *)
LEMMA SlotFilled ==
  ASSUME NEW k \in Calls, sig[k] \in Sigs \cup {<<>>}, NEW n \in 1..Len(sig[k])
  PROVE  Filled(k, sig[k][n], Index(sig[k], sig[k][n], n)) = <<k, n>>
  <1> DEFINE s == sig[k]
             Q(m) == s[m] = s[n] /\ Index(s, s[n], m) = Index(s, s[n], n)
  <1>1. Q(n)
    OBVIOUS
  <1>2. ASSUME NEW m \in 1..Len(s), Q(m) PROVE m = n
    <2>1. m \in Int /\ n \in Int
      OBVIOUS
    <2>2. ~ (m < n)
      BY <1>2, IndexInjective
    <2>3. ~ (n < m)
      BY <1>2, IndexInjective
    <2> QED BY <2>1, <2>2, <2>3
  <1>3. (CHOOSE m \in 1..Len(s) : Q(m)) = n
    BY <1>1, <1>2
  <1> QED BY <1>1, <1>3 DEF Filled

(* Every step of fastCallIF (zz_fast_func.go:40-61) and of its surroundings  *)
(* keeps the types.                                                          *)
LEMMA NextTypes == IndInv /\ [Next]_vars => TypeOK'
  <1> SUFFICES ASSUME IndInv, [Next]_vars PROVE TypeOK'
    OBVIOUS
  <1> USE DEF Goto, callVars, poolVars, memVars, ghostVars
  <1>1. ASSUME NEW k \in Calls, Invoke(k) PROVE TypeOK'
    <2>1. PICK s \in Sigs : sig' = [sig EXCEPT ![k] = s]
      BY <1>1 DEF Invoke
    <2>2. sig' \in [Calls -> Sigs \cup {<<>>}] /\ sig'[k] = s
      BY <2>1 DEF IndInv, TypeOK
    <2>3. argIdx[k] = 0 /\ Len(s) \in 0..MaxArgs
      BY <1>1, SigTyped DEF Invoke, IndInv, Started
    <2>4. \A j \in Calls : argIdx'[j] <= Len(sig'[j])
      BY <1>1, <2>1, <2>2, <2>3, Bounds DEF Invoke, IndInv, TypeOK
    <2> QED BY <1>1, <2>2, <2>4 DEF Invoke, IndInv, TypeOK, Holding, PCs
  <1>2. ASSUME NEW k \in Calls, Get(k) PROVE TypeOK'
    BY <1>2 DEF Get, IndInv, TypeOK, Holding, PCs, Take
  <1>3. ASSUME NEW k \in Calls, Fill(k) PROVE TypeOK'
    <2>1. ctx[k] \in Ctxs /\ sig[k] \in Sigs \cup {<<>>}
      BY <1>3 DEF Fill, IndInv, TypeOK, Holding
    <2>2. Arrays(k)
             \in [ArgKinds -> [Positions -> (Calls \X Positions) \cup {Nil}]]
      BY <2>1, FilledTyped DEF Arrays
    <2>3. slots' \in [Ctxs -> [ArgKinds -> [Positions -> (Calls \X Positions) \cup {Nil}]]]
      BY <1>3, <2>1, <2>2 DEF Fill, IndInv, TypeOK
    <2> QED BY <1>3, <2>3 DEF Fill, IndInv, TypeOK, Holding, PCs
  <1>4. ASSUME NEW k \in Calls, Link(k) PROVE TypeOK'
    <2>1. ctx[k] \in Ctxs /\ sig[k] \in Sigs \cup {<<>>} /\ argIdx[k] \in 0..MaxArgs
      BY <1>4 DEF Link, IndInv, TypeOK, Holding
    <2>2. argIdx[k] + 1 \in 1..Len(sig[k]) /\ Len(sig[k]) \in 0..MaxArgs
      BY <1>4, <2>1, SigTyped, Bounds DEF Link
    <2>3. Slot(sig[k], argIdx[k] + 1) \in ArgKinds \X Positions
      BY <2>1, <2>2, SigTyped, IndexTyped DEF Slot
    <2>4. argIdx[k] + 1 \in Positions
      BY <2>1, <2>2, SigTyped
    <2>5. args' \in [Ctxs -> [Positions -> (ArgKinds \X Positions) \cup {Nil}]]
      BY <1>4, <2>1, <2>3, <2>4 DEF Link, IndInv, TypeOK
    <2>6. argIdx' \in [Calls -> 0..MaxArgs] /\ \A j \in Calls : argIdx'[j] <= Len(sig'[j])
      BY <1>4, <2>1, <2>2, Bounds DEF Link, IndInv, TypeOK
    <2> QED BY <1>4, <2>5, <2>6 DEF Link, IndInv, TypeOK, Holding, PCs
  <1>5. ASSUME NEW k \in Calls, ClearRet(k) PROVE TypeOK'
    BY <1>5 DEF ClearRet, IndInv, TypeOK, Holding, PCs
  <1>6. ASSUME NEW k \in Calls, CallFunction(k) PROVE TypeOK'
    BY <1>6 DEF CallFunction, IndInv, TypeOK, Holding, PCs
  <1>7. ASSUME NEW k \in Calls, CReturn(k) PROVE TypeOK'
    BY <1>7 DEF CReturn, IndInv, TypeOK, Holding, PCs
  <1>8. ASSUME NEW k \in Calls, CPanic(k) PROVE TypeOK'
    BY <1>8 DEF CPanic, IndInv, TypeOK, Holding, PCs
  <1>9. ASSUME NEW k \in Calls, Collect(k) PROVE TypeOK'
    BY <1>9 DEF Collect, IndInv, TypeOK, Holding, PCs
  <1>10. ASSUME NEW k \in Calls, Put(k) PROVE TypeOK'
    BY <1>10 DEF Put, IndInv, TypeOK, Holding, PCs
  <1>11. ASSUME NEW c \in Ctxs, DropPooled(c) PROVE TypeOK'
    <2>1. NoSlots \in [ArgKinds -> [Positions -> (Calls \X Positions) \cup {Nil}]]
      BY DEF NoSlots
    <2>2. NoLinks \in [Positions -> (ArgKinds \X Positions) \cup {Nil}]
      BY DEF NoLinks
    <2> QED BY <1>11, <2>1, <2>2 DEF DropPooled, IndInv, TypeOK, Holding, PCs
  <1>12. CASE UNCHANGED vars
    BY <1>12 DEF vars, IndInv, TypeOK, Holding, PCs
  <1> QED BY <1>1, <1>2, <1>3, <1>4, <1>5, <1>6, <1>7, <1>8, <1>9, <1>10, <1>11, <1>12
      DEF Next, Body, Quiescent

(* Every step gives a context to one call at most (zz_fast_func.go:41, 60).  *)
LEMMA NextContexts == IndInv /\ [Next]_vars => CtxExclusive'
  <1> SUFFICES ASSUME IndInv, [Next]_vars PROVE CtxExclusive'
    OBVIOUS
  <1> USE DEF Goto, callVars, poolVars, memVars, ghostVars
  <1>1. ASSUME NEW k \in Calls, Invoke(k) PROVE CtxExclusive'
    BY <1>1 DEF Invoke, IndInv, TypeOK, CtxExclusive, Holding, PCs
  <1>2. ASSUME NEW k \in Calls, Get(k) PROVE CtxExclusive'
    BY <1>2 DEF Get, IndInv, TypeOK, CtxExclusive, Holding, PCs, Take
  <1>3. ASSUME NEW k \in Calls, Fill(k) PROVE CtxExclusive'
    BY <1>3 DEF Fill, IndInv, TypeOK, CtxExclusive, Holding, PCs
  <1>4. ASSUME NEW k \in Calls, Link(k) PROVE CtxExclusive'
    BY <1>4 DEF Link, IndInv, TypeOK, CtxExclusive, Holding, PCs
  <1>5. ASSUME NEW k \in Calls, ClearRet(k) PROVE CtxExclusive'
    BY <1>5 DEF ClearRet, IndInv, TypeOK, CtxExclusive, Holding, PCs
  <1>6. ASSUME NEW k \in Calls, CallFunction(k) PROVE CtxExclusive'
    BY <1>6, ZenonT(60) DEF CallFunction, IndInv, TypeOK, CtxExclusive, Holding, PCs
  <1>7. ASSUME NEW k \in Calls, CReturn(k) PROVE CtxExclusive'
    BY <1>7 DEF CReturn, IndInv, TypeOK, CtxExclusive, Holding, PCs
  <1>8. ASSUME NEW k \in Calls, CPanic(k) PROVE CtxExclusive'
    BY <1>8 DEF CPanic, IndInv, TypeOK, CtxExclusive, Holding, PCs
  <1>9. ASSUME NEW k \in Calls, Collect(k) PROVE CtxExclusive'
    BY <1>9 DEF Collect, IndInv, TypeOK, CtxExclusive, Holding, PCs
  <1>10. ASSUME NEW k \in Calls, Put(k) PROVE CtxExclusive'
    BY <1>10 DEF Put, IndInv, TypeOK, CtxExclusive, Holding, PCs
  <1>11. ASSUME NEW c \in Ctxs, DropPooled(c) PROVE CtxExclusive'
    BY <1>11 DEF DropPooled, IndInv, TypeOK, CtxExclusive, Holding, PCs
  <1>12. CASE UNCHANGED vars
    BY <1>12 DEF vars, IndInv, TypeOK, CtxExclusive, Holding, PCs
  <1> QED BY <1>1, <1>2, <1>3, <1>4, <1>5, <1>6, <1>7, <1>8, <1>9, <1>10, <1>11, <1>12
      DEF Next, Body, Quiescent

(* Every call comes to the loop (zz_fast_func.go:45) with nothing linked.    *)
LEMMA NextStarted == IndInv /\ [Next]_vars => Started'
  <1> SUFFICES ASSUME IndInv, [Next]_vars PROVE Started'
    OBVIOUS
  <1> USE DEF Goto, callVars, poolVars, memVars, ghostVars
  <1>1. ASSUME NEW k \in Calls, Invoke(k) PROVE Started'
    BY <1>1 DEF Invoke, IndInv, TypeOK, Started, PCs
  <1>2. ASSUME NEW k \in Calls, Get(k) PROVE Started'
    BY <1>2 DEF Get, IndInv, TypeOK, Started, PCs, Take
  <1>3. ASSUME NEW k \in Calls, Fill(k) PROVE Started'
    BY <1>3 DEF Fill, IndInv, TypeOK, Started, PCs
  <1>4. ASSUME NEW k \in Calls, Link(k) PROVE Started'
    BY <1>4 DEF Link, IndInv, TypeOK, Started, PCs
  <1>5. ASSUME NEW k \in Calls, ClearRet(k) PROVE Started'
    BY <1>5 DEF ClearRet, IndInv, TypeOK, Started, PCs
  <1>6. ASSUME NEW k \in Calls, CallFunction(k) PROVE Started'
    BY <1>6 DEF CallFunction, IndInv, TypeOK, Started, PCs
  <1>7. ASSUME NEW k \in Calls, CReturn(k) PROVE Started'
    BY <1>7 DEF CReturn, IndInv, TypeOK, Started, PCs
  <1>8. ASSUME NEW k \in Calls, CPanic(k) PROVE Started'
    BY <1>8 DEF CPanic, IndInv, TypeOK, Started, PCs
  <1>9. ASSUME NEW k \in Calls, Collect(k) PROVE Started'
    BY <1>9 DEF Collect, IndInv, TypeOK, Started, PCs
  <1>10. ASSUME NEW k \in Calls, Put(k) PROVE Started'
    BY <1>10 DEF Put, IndInv, TypeOK, Started, PCs
  <1>11. ASSUME NEW c \in Ctxs, DropPooled(c) PROVE Started'
    BY <1>11 DEF DropPooled, IndInv, TypeOK, Started, PCs
  <1>12. CASE UNCHANGED vars
    BY <1>12 DEF vars, IndInv, TypeOK, Started, PCs
  <1> QED BY <1>1, <1>2, <1>3, <1>4, <1>5, <1>6, <1>7, <1>8, <1>9, <1>10, <1>11, <1>12
      DEF Next, Body, Quiescent

(* A call whose own variables and context a step leaves alone keeps its      *)
(* links.                                                                    *)
LEMMA LinkedKept ==
  ASSUME NEW k \in Calls, LinkedOf(k),
         pc'[k] = pc[k], sig'[k] = sig[k], ctx'[k] = ctx[k], argIdx'[k] = argIdx[k],
         slots'[ctx[k]] = slots[ctx[k]], args'[ctx[k]] = args[ctx[k]]
  PROVE  LinkedOf(k)'
  <1>1. ASSUME NEW d, NEW j PROVE Filled(k, d, j)' = Filled(k, d, j)
    BY DEF Filled
  <1>2. Arrays(k)' = Arrays(k)
    BY <1>1 DEF Arrays
  <1> QED BY <1>2 DEF LinkedOf

(* A step writes to no other call's context, and to its own the right        *)
(* arrays and links (zz_fast_func.go:42-55).                                 *)
LEMMA NextLinked == IndInv /\ [Next]_vars => Linked'
  <1> SUFFICES ASSUME IndInv, [Next]_vars,
                      NEW j \in Calls, pc'[j] \in {"link", "call"}
               PROVE  LinkedOf(j)'
    BY DEF Linked
  <1> USE DEF Goto, callVars, poolVars, memVars, ghostVars
  <1> DEFINE Kept == /\ pc'[j] = pc[j] /\ sig'[j] = sig[j] /\ ctx'[j] = ctx[j]
                     /\ argIdx'[j] = argIdx[j]
                     /\ slots'[ctx[j]] = slots[ctx[j]] /\ args'[ctx[j]] = args[ctx[j]]
  <1>0. ASSUME Kept PROVE LinkedOf(j)'
    BY <1>0, LinkedKept DEF IndInv, Linked
  <1>1. ASSUME NEW k \in Calls, Invoke(k) PROVE LinkedOf(j)'
    <2>1. Kept
      BY <1>1 DEF Invoke, IndInv, TypeOK, CtxExclusive, Holding
    <2> QED BY <1>0, <2>1
  <1>2. ASSUME NEW k \in Calls, Get(k) PROVE LinkedOf(j)'
    <2>1. Kept
      BY <1>2 DEF Get, Take, IndInv, TypeOK, CtxExclusive, Holding
    <2> QED BY <1>0, <2>1
  <1>3. ASSUME NEW k \in Calls, Fill(k) PROVE LinkedOf(j)'
    <2>1. CASE j = k
      <3>1. ctx[k] \in Ctxs /\ argIdx'[k] = 0 /\ pc'[k] = "link"
        BY <1>3 DEF Fill, IndInv, TypeOK, Holding, Started
      <3>2. slots'[ctx'[k]] = Arrays(k)
        BY <1>3, <3>1 DEF Fill, IndInv, TypeOK
      <3>3. Arrays(k)' = Arrays(k)
        BY <1>3 DEF Fill, Arrays, Filled
      <3> QED BY <2>1, <3>1, <3>2, <3>3 DEF LinkedOf
    <2>2. CASE j # k
      <3>1. Kept
        BY <1>3, <2>2 DEF Fill, IndInv, TypeOK, CtxExclusive, Holding
      <3> QED BY <1>0, <3>1
    <2> QED BY <2>1, <2>2
  <1>4. ASSUME NEW k \in Calls, Link(k) PROVE LinkedOf(j)'
    <2>1. CASE j = k
      <3>1. ctx[k] \in Ctxs /\ argIdx[k] \in Nat /\ LinkedOf(k) /\ pc'[k] = "link"
        BY <1>4, Bounds DEF Link, IndInv, TypeOK, Holding, Linked
      <3>2. Arrays(k)' = Arrays(k)
        BY <1>4 DEF Link, Arrays, Filled
      <3>3. argIdx'[k] = argIdx[k] + 1 /\ ctx'[k] = ctx[k] /\ sig'[k] = sig[k]
        BY <1>4 DEF Link, IndInv, TypeOK
      <3>4. argIdx[k] + 1 \in Positions
        BY <1>4, <3>1, SigTyped DEF Link, IndInv, TypeOK
      <3>5. args'[ctx[k]] = [args[ctx[k]] EXCEPT ![argIdx[k] + 1] = Slot(sig[k], argIdx[k] + 1)]
        BY <1>4, <3>1 DEF Link, IndInv, TypeOK
      <3>6. args[ctx[k]] \in [Positions -> (ArgKinds \X Positions) \cup {Nil}]
        BY <3>1 DEF IndInv, TypeOK
      <3>7. ASSUME NEW n \in 1..(argIdx[k] + 1) PROVE args'[ctx[k]][n] = Slot(sig[k], n)
        <4>1. CASE n = argIdx[k] + 1
          BY <3>4, <3>5, <3>6, <4>1
        <4>2. CASE n # argIdx[k] + 1
          <5>1. n \in 1..argIdx[k]
            BY <3>1, <4>2
          <5> QED BY <3>1, <3>5, <3>6, <4>2, <5>1 DEF LinkedOf
        <4> QED BY <4>1, <4>2
      <3>8. (\A n \in 1..argIdx[k] : args[ctx[k]][n] = Slot(sig[k], n))'
        BY <3>3, <3>7 DEF Slot, Index
      <3>9. slots'[ctx'[k]] = Arrays(k)'
        BY <1>4, <3>1, <3>2, <3>3 DEF Link, LinkedOf
      <3> QED BY <2>1, <3>1, <3>8, <3>9 DEF LinkedOf
    <2>2. CASE j # k
      <3>1. Kept
        BY <1>4, <2>2 DEF Link, IndInv, TypeOK, CtxExclusive, Holding
      <3> QED BY <1>0, <3>1
    <2> QED BY <2>1, <2>2
  <1>5. ASSUME NEW k \in Calls, ClearRet(k) PROVE LinkedOf(j)'
    <2>1. CASE j = k
      <3>1. LinkedOf(k) /\ pc'[k] = "call" /\ argIdx[k] = Len(sig[k])
        BY <1>5 DEF ClearRet, IndInv, TypeOK, Linked
      <3>2. Arrays(k)' = Arrays(k)
        BY <1>5 DEF ClearRet, Arrays, Filled
      <3> QED BY <1>5, <2>1, <3>1, <3>2 DEF ClearRet, LinkedOf
    <2>2. CASE j # k
      <3>1. Kept
        BY <1>5, <2>2 DEF ClearRet, IndInv, TypeOK, CtxExclusive, Holding
      <3> QED BY <1>0, <3>1
    <2> QED BY <2>1, <2>2
  <1>6. ASSUME NEW k \in Calls, CallFunction(k) PROVE LinkedOf(j)'
    <2>1. Kept
      BY <1>6 DEF CallFunction, IndInv, TypeOK, CtxExclusive, Holding
    <2> QED BY <1>0, <2>1
  <1>7. ASSUME NEW k \in Calls, CReturn(k) PROVE LinkedOf(j)'
    <2>1. Kept
      BY <1>7 DEF CReturn, IndInv, TypeOK, CtxExclusive, Holding
    <2> QED BY <1>0, <2>1
  <1>8. ASSUME NEW k \in Calls, CPanic(k) PROVE LinkedOf(j)'
    <2>1. Kept
      BY <1>8 DEF CPanic, IndInv, TypeOK, CtxExclusive, Holding
    <2> QED BY <1>0, <2>1
  <1>9. ASSUME NEW k \in Calls, Collect(k) PROVE LinkedOf(j)'
    <2>1. Kept
      BY <1>9 DEF Collect, IndInv, TypeOK, CtxExclusive, Holding
    <2> QED BY <1>0, <2>1
  <1>10. ASSUME NEW k \in Calls, Put(k) PROVE LinkedOf(j)'
    <2>1. Kept
      BY <1>10 DEF Put, IndInv, TypeOK, CtxExclusive, Holding
    <2> QED BY <1>0, <2>1
  <1>11. ASSUME NEW c \in Ctxs, DropPooled(c) PROVE LinkedOf(j)'
    <2>1. Kept
      BY <1>11 DEF DropPooled, IndInv, TypeOK, CtxExclusive, Holding
    <2> QED BY <1>0, <2>1
  <1>12. CASE UNCHANGED vars
    BY <1>0, <1>12 DEF vars
  <1> QED BY <1>1, <1>2, <1>3, <1>4, <1>5, <1>6, <1>7, <1>8, <1>9, <1>10, <1>11, <1>12
      DEF Next, Body, Quiescent

(* Every step leaves what the C functions saw on record.                     *)
LEMMA NextRecorded == IndInv /\ [Next]_vars => Recorded'
  <1> SUFFICES ASSUME IndInv, [Next]_vars PROVE Recorded'
    OBVIOUS
  <1> USE DEF Goto, callVars, poolVars, memVars, ghostVars
  <1>1. ASSUME NEW k \in Calls, Invoke(k) PROVE Recorded'
    BY <1>1 DEF Invoke, IndInv, Recorded
  <1>2. ASSUME NEW k \in Calls, Get(k) PROVE Recorded'
    BY <1>2 DEF Get, IndInv, Recorded, Take
  <1>3. ASSUME NEW k \in Calls, Fill(k) PROVE Recorded'
    BY <1>3 DEF Fill, IndInv, Recorded
  <1>4. ASSUME NEW k \in Calls, Link(k) PROVE Recorded'
    BY <1>4 DEF Link, IndInv, Recorded
  <1>5. ASSUME NEW k \in Calls, ClearRet(k) PROVE Recorded'
    BY <1>5 DEF ClearRet, IndInv, Recorded
  <1>6. ASSUME NEW k \in Calls, CallFunction(k) PROVE Recorded'
    BY <1>6 DEF CallFunction, IndInv, Recorded
  <1>7. ASSUME NEW k \in Calls, CReturn(k) PROVE Recorded'
    BY <1>7 DEF CReturn, IndInv, Recorded
  <1>8. ASSUME NEW k \in Calls, CPanic(k) PROVE Recorded'
    BY <1>8 DEF CPanic, IndInv, Recorded
  <1>9. ASSUME NEW k \in Calls, Collect(k) PROVE Recorded'
    BY <1>9 DEF Collect, IndInv, Recorded
  <1>10. ASSUME NEW k \in Calls, Put(k) PROVE Recorded'
    BY <1>10 DEF Put, IndInv, Recorded
  <1>11. ASSUME NEW c \in Ctxs, DropPooled(c) PROVE Recorded'
    BY <1>11 DEF DropPooled, IndInv, Recorded
  <1>12. CASE UNCHANGED vars
    BY <1>12 DEF vars, IndInv, Recorded
  <1> QED BY <1>1, <1>2, <1>3, <1>4, <1>5, <1>6, <1>7, <1>8, <1>9, <1>10, <1>11, <1>12
      DEF Next, Body, Quiescent

(* A C function is shown the call's own arguments (zz_fast_func.go:58).      *)
LEMMA NextArguments == IndInv /\ [Next]_vars => ArgumentsInPlace'
  <1> SUFFICES ASSUME IndInv, [Next]_vars PROVE ArgumentsInPlace'
    OBVIOUS
  <1> USE DEF Goto, callVars, poolVars, memVars, ghostVars
  <1>1. ASSUME NEW k \in Calls, Invoke(k) PROVE ArgumentsInPlace'
    BY <1>1 DEF Invoke, IndInv, TypeOK, Started, Recorded, ArgumentsInPlace, PCs
  <1>2. ASSUME NEW k \in Calls, Get(k) PROVE ArgumentsInPlace'
    BY <1>2
    DEF Get, IndInv, TypeOK, Started, Recorded, ArgumentsInPlace, PCs, Take
  <1>3. ASSUME NEW k \in Calls, Fill(k) PROVE ArgumentsInPlace'
    BY <1>3 DEF Fill, IndInv, TypeOK, Started, Recorded, ArgumentsInPlace, PCs
  <1>4. ASSUME NEW k \in Calls, Link(k) PROVE ArgumentsInPlace'
    BY <1>4 DEF Link, IndInv, TypeOK, Started, Recorded, ArgumentsInPlace, PCs
  <1>5. ASSUME NEW k \in Calls, ClearRet(k) PROVE ArgumentsInPlace'
    BY <1>5
    DEF ClearRet, IndInv, TypeOK, Started, Recorded, ArgumentsInPlace, PCs
  <1>6. ASSUME NEW k \in Calls, CallFunction(k) PROVE ArgumentsInPlace'
    <2>1. CASE UNCHANGED ghostVars
      BY <1>6, <2>1 DEF CallFunction, IndInv, ArgumentsInPlace
    <2>2. CASE /\ entered' = entered \cup {k}
               /\ sees' = [sees EXCEPT ![k] = [n \in 1..argIdx[k] |->
                    LET a == args[ctx[k]][n] IN slots[ctx[k]][a[1]][a[2]]]]
      <3>1. sig[k] \in Sigs \cup {<<>>} /\ argIdx[k] = Len(sig[k]) /\ sig' = sig
        BY <1>6 DEF CallFunction, IndInv, TypeOK, Linked, LinkedOf
      <3>2. ASSUME NEW n \in 1..Len(sig[k])
            PROVE  LET a == args[ctx[k]][n] IN slots[ctx[k]][a[1]][a[2]] = <<k, n>>
        <4>1. args[ctx[k]][n] = <<sig[k][n], Index(sig[k], sig[k][n], n)>>
          BY <1>6, <3>1 DEF CallFunction, IndInv, Linked, LinkedOf, Slot
        <4>2. sig[k][n] \in ArgKinds /\ Index(sig[k], sig[k][n], n) \in Positions
          BY <3>1, SigTyped, IndexTyped
        <4>3. slots[ctx[k]] = Arrays(k)
          BY <1>6 DEF CallFunction, IndInv, Linked, LinkedOf
        <4>4. slots[ctx[k]][sig[k][n]][Index(sig[k], sig[k][n], n)] = <<k, n>>
          BY <3>1, <4>2, <4>3, SlotFilled DEF Arrays
        <4> QED BY <4>1, <4>4, SMTT(60)
      <3>3. sees'[k] = [n \in 1..Len(sig[k]) |-> <<k, n>>]
        BY <2>2, <3>1, <3>2 DEF IndInv, Recorded
      <3>4. \A j \in Calls : j # k => sees'[j] = sees[j]
        BY <2>2 DEF IndInv, Recorded
      <3>5. ASSUME NEW j \in entered' PROVE sees'[j] = [n \in 1..Len(sig'[j]) |-> <<j, n>>]
        <4>1. CASE j = k
          BY <3>1, <3>3, <4>1
        <4>2. CASE j # k
          BY <2>2, <3>1, <3>4, <3>5, <4>2 DEF IndInv, TypeOK, ArgumentsInPlace
        <4> QED BY <4>1, <4>2
      <3> QED BY <3>5 DEF ArgumentsInPlace
    <2> QED BY <1>6, <2>1, <2>2 DEF CallFunction
  <1>7. ASSUME NEW k \in Calls, CReturn(k) PROVE ArgumentsInPlace'
    BY <1>7
    DEF CReturn, IndInv, TypeOK, Started, Recorded, ArgumentsInPlace, PCs
  <1>8. ASSUME NEW k \in Calls, CPanic(k) PROVE ArgumentsInPlace'
    BY <1>8 DEF CPanic, IndInv, TypeOK, Started, Recorded, ArgumentsInPlace, PCs
  <1>9. ASSUME NEW k \in Calls, Collect(k) PROVE ArgumentsInPlace'
    BY <1>9
    DEF Collect, IndInv, TypeOK, Started, Recorded, ArgumentsInPlace, PCs
  <1>10. ASSUME NEW k \in Calls, Put(k) PROVE ArgumentsInPlace'
    BY <1>10 DEF Put, IndInv, TypeOK, Started, Recorded, ArgumentsInPlace, PCs
  <1>11. ASSUME NEW c \in Ctxs, DropPooled(c) PROVE ArgumentsInPlace'
    BY <1>11
    DEF DropPooled, IndInv, TypeOK, Started, Recorded, ArgumentsInPlace, PCs
  <1>12. CASE UNCHANGED vars
    BY <1>12 DEF vars, IndInv, TypeOK, Started, Recorded, ArgumentsInPlace, PCs
  <1> QED BY <1>1, <1>2, <1>3, <1>4, <1>5, <1>6, <1>7, <1>8, <1>9, <1>10, <1>11, <1>12
      DEF Next, Body, Quiescent

(* A result is written by the call whose context it is in, and cleared       *)
(* before the call (zz_fast_func.go:57-59).                                  *)
LEMMA NextResults == IndInv /\ [Next]_vars => ResultTracked'
  <1> SUFFICES ASSUME IndInv, [Next]_vars, NEW j \in Calls PROVE ResultOf(j)'
    BY DEF ResultTracked
  <1> USE DEF Goto, callVars, poolVars, memVars, ghostVars
  <1>0. TypeOK /\ CtxExclusive /\ Started /\ ResultOf(j)
    BY DEF IndInv, ResultTracked
  <1>1. ASSUME NEW k \in Calls, Invoke(k) PROVE ResultOf(j)'
    BY <1>0, <1>1 DEF Invoke, TypeOK, CtxExclusive, Started, ResultOf,
       Returned, Holding
  <1>2. ASSUME NEW k \in Calls, Get(k) PROVE ResultOf(j)'
    BY <1>0, <1>2 DEF Get, Take, TypeOK, CtxExclusive, Started, ResultOf,
       Returned, Holding
  <1>3. ASSUME NEW k \in Calls, Fill(k) PROVE ResultOf(j)'
    BY <1>0, <1>3 DEF Fill, TypeOK, CtxExclusive, Started, ResultOf,
       Returned, Holding
  <1>4. ASSUME NEW k \in Calls, Link(k) PROVE ResultOf(j)'
    BY <1>0, <1>4 DEF Link, TypeOK, CtxExclusive, Started, ResultOf,
       Returned, Holding
  <1>5. ASSUME NEW k \in Calls, ClearRet(k) PROVE ResultOf(j)'
    BY <1>0, <1>5 DEF ClearRet, TypeOK, CtxExclusive, Started, ResultOf,
       Returned, Holding
  <1>6. ASSUME NEW k \in Calls, CallFunction(k) PROVE ResultOf(j)'
    BY <1>0, <1>6 DEF CallFunction, TypeOK, CtxExclusive, Started, ResultOf,
       Returned, Holding
  <1>7. ASSUME NEW k \in Calls, CReturn(k) PROVE ResultOf(j)'
    BY <1>0, <1>7 DEF CReturn, TypeOK, CtxExclusive, Started, ResultOf,
       Returned, Holding
  <1>8. ASSUME NEW k \in Calls, CPanic(k) PROVE ResultOf(j)'
    BY <1>0, <1>8 DEF CPanic, TypeOK, CtxExclusive, Started, ResultOf,
       Returned, Holding
  <1>9. ASSUME NEW k \in Calls, Collect(k) PROVE ResultOf(j)'
    BY <1>0, <1>9 DEF Collect, TypeOK, CtxExclusive, Started, ResultOf,
       Returned, Holding
  <1>10. ASSUME NEW k \in Calls, Put(k) PROVE ResultOf(j)'
    BY <1>0, <1>10 DEF Put, TypeOK, CtxExclusive, Started, ResultOf,
       Returned, Holding
  <1>11. ASSUME NEW c \in Ctxs, DropPooled(c) PROVE ResultOf(j)'
    BY <1>0, <1>11 DEF DropPooled, TypeOK, CtxExclusive, Started, ResultOf, Returned,
       Holding
  <1>12. CASE UNCHANGED vars
    BY <1>0, <1>12 DEF vars, ResultOf, Returned
  <1> QED BY <1>1, <1>2, <1>3, <1>4, <1>5, <1>6, <1>7, <1>8, <1>9, <1>10, <1>11, <1>12
      DEF Next, Body, Quiescent

(* At the beginning no call is made and all contexts are zero.               *)
LEMMA InitHolds == Init => IndInv
  <1> SUFFICES ASSUME Init PROVE IndInv
    OBVIOUS
  <1>1. NoSlots \in [ArgKinds -> [Positions -> (Calls \X Positions) \cup {Nil}]]
    BY DEF NoSlots
  <1>2. NoLinks \in [Positions -> (ArgKinds \X Positions) \cup {Nil}]
    BY DEF NoLinks
  <1>3. TypeOK
    BY <1>1, <1>2, Bounds DEF Init, TypeOK, PCs, Holding
  <1>4. /\ CtxExclusive /\ Started /\ Linked /\ Recorded /\ ArgumentsInPlace
        /\ ResultTracked
    BY
    DEF Init, CtxExclusive, Started, Linked, Recorded, ArgumentsInPlace,
        ResultTracked, ResultOf, Holding
  <1> QED BY <1>3, <1>4 DEF IndInv

(* The invariant of all calls through fast wrappers (zz_fast_func.go:40-61)  *)
(* is inductive.                                                             *)
THEOREM Induction == Spec => []IndInv
  <1>1. IndInv /\ [Next]_vars => IndInv'
    BY NextTypes, NextContexts, NextStarted, NextLinked, NextRecorded,
       NextArguments, NextResults DEF IndInv
  <1> QED BY InitHolds, <1>1, PTL DEF Spec

(* The locals of fastCallIF and the contexts keep their types; the loop      *)
(* never links more arguments than the interface has (zz_fast_func.go:45).   *)
THEOREM TypeCorrect == Spec => []TypeOK
  <1>1. IndInv => TypeOK
    BY DEF IndInv
  <1> QED BY Induction, <1>1, PTL

(* A fastCallContext belongs to one call at a time, from Get to Put          *)
(* (zz_fast_func.go:41, 60), however calls interleave, nest or panic.        *)
THEOREM ContextsSafe == Spec => []CtxExclusive
  <1>1. IndInv => CtxExclusive
    BY DEF IndInv
  <1> QED BY Induction, <1>1, PTL

(* The C function finds every argument of its own call in its position, for  *)
(* every mix of integers and floats (zz_fast_func.go:42-58): nothing that an *)
(* earlier call left in the context's arrays or links is ever followed.      *)
THEOREM ArgumentsSafe == Spec => []ArgumentsInPlace
  <1>1. IndInv => ArgumentsInPlace
    BY DEF IndInv
  <1> QED BY Induction, <1>1, PTL

(* A call nobody has made has no result and no phase but the first           *)
(* (zz_fast_func.go:40).                                                     *)
LEMMA InitRefines == Init => Abstract!Init
  BY DEF Init, Abstract!Init, Phase, Outcome

(* A step of call k (zz_fast_func.go:40-61) that moves its phase to p and    *)
(* leaves the other calls where they are moves the abstract phases so.       *)
LEMMA PhaseMoves ==
  ASSUME NEW k \in Calls, NEW p, Phase(k)' = p,
         \A j \in Calls \ {k} : Phase(j)' = Phase(j)
  PROVE  [j \in Calls |-> Phase(j)]' = [[j \in Calls |-> Phase(j)] EXCEPT ![k] = p]
  OBVIOUS

(* A call that is not over (zz_fast_func.go:61) before nor after a step      *)
(* keeps its outcome, and so does one whose result does not change.          *)
LEMMA OutcomeSame ==
  ASSUME NEW j \in Calls,
         \/ pc[j] # "done" /\ pc'[j] # "done"
         \/ pc'[j] = pc[j] /\ ret'[j] = ret[j]
  PROVE  Outcome(j)' = Outcome(j)
  BY DEF Outcome

(* Every step of a call through a fast wrapper (zz_fast_func.go:40-61) is a  *)
(* step of a foreign call, or none.                                          *)
LEMMA NextRefines == IndInv /\ IndInv' /\ [Next]_vars => [Abstract!Next]_(Abstract!vars)
  <1> SUFFICES ASSUME IndInv, IndInv', [Next]_vars
               PROVE  [Abstract!Next]_(Abstract!vars)
    OBVIOUS
  <1> USE DEF Goto, callVars, poolVars, memVars, ghostVars
  <1>0. TypeOK /\ Started /\ ResultTracked /\ Recorded /\ ArgumentsInPlace'
    BY DEF IndInv
  <1>s. ASSUME \A j \in Calls : Phase(j)' = Phase(j) /\ Outcome(j)' = Outcome(j),
               UNCHANGED <<sig, sees>>
        PROVE  UNCHANGED Abstract!vars
    BY <1>s DEF Abstract!vars
  <1>1. ASSUME NEW k \in Calls, Invoke(k) PROVE [Abstract!Next]_(Abstract!vars)
    <2>1. PICK s \in Sigs : sig' = [sig EXCEPT ![k] = s]
      BY <1>1 DEF Invoke
    <2>2. Len(s) \in 0..MaxArgs
      BY SigTyped
    <2>3. [j \in Calls |-> Len(sig[j])]' = [[j \in Calls |-> Len(sig[j])] EXCEPT ![k] = Len(s)]
      BY <1>0, <2>1 DEF TypeOK
    <2>4. Phase(k) = "idle" /\ Phase(k)' = "called"
          /\ \A j \in Calls \ {k} : Phase(j)' = Phase(j)
      BY <1>0, <1>1 DEF Invoke, Phase, TypeOK
    <2>5. \A j \in Calls : Outcome(j)' = Outcome(j)
      BY <1>0, <1>1, OutcomeSame DEF Invoke, TypeOK
    <2>6. Abstract!Invoke(k)
      BY <1>1, <2>2, <2>3, <2>4, <2>5, PhaseMoves DEF Invoke, Abstract!Invoke
    <2> QED BY <2>6 DEF Abstract!Next
  <1>2. ASSUME NEW k \in Calls, Get(k) PROVE [Abstract!Next]_(Abstract!vars)
    <2>1. \A j \in Calls : Phase(j)' = Phase(j)
      BY <1>0, <1>2 DEF Get, Take, Phase, TypeOK
    <2>2. \A j \in Calls : Outcome(j)' = Outcome(j)
      BY <1>0, <1>2, OutcomeSame DEF Get, Take, TypeOK
    <2> QED BY <1>2, <1>s, <2>1, <2>2 DEF Get
  <1>3. ASSUME NEW k \in Calls, Fill(k) PROVE [Abstract!Next]_(Abstract!vars)
    <2>1. \A j \in Calls : Phase(j)' = Phase(j)
      BY <1>0, <1>3 DEF Fill, Phase, TypeOK
    <2>2. \A j \in Calls : Outcome(j)' = Outcome(j)
      BY <1>0, <1>3, OutcomeSame DEF Fill, TypeOK
    <2> QED BY <1>3, <1>s, <2>1, <2>2 DEF Fill
  <1>4. ASSUME NEW k \in Calls, Link(k) PROVE [Abstract!Next]_(Abstract!vars)
    <2>1. \A j \in Calls : Phase(j)' = Phase(j)
      BY <1>0, <1>4 DEF Link, Phase, TypeOK
    <2>2. \A j \in Calls : Outcome(j)' = Outcome(j)
      BY <1>0, <1>4, OutcomeSame DEF Link, TypeOK
    <2> QED BY <1>4, <1>s, <2>1, <2>2 DEF Link
  <1>5. ASSUME NEW k \in Calls, ClearRet(k) PROVE [Abstract!Next]_(Abstract!vars)
    <2>1. \A j \in Calls : Phase(j)' = Phase(j)
      BY <1>0, <1>5 DEF ClearRet, Phase, TypeOK
    <2>2. \A j \in Calls : Outcome(j)' = Outcome(j)
      BY <1>0, <1>5, OutcomeSame DEF ClearRet, TypeOK
    <2> QED BY <1>5, <1>s, <2>1, <2>2 DEF ClearRet
  <1>6. ASSUME NEW k \in Calls, CallFunction(k) PROVE [Abstract!Next]_(Abstract!vars)
    <2>1. \A j \in Calls : Outcome(j)' = Outcome(j)
      BY <1>0, <1>6, OutcomeSame DEF CallFunction, TypeOK
    <2>2. CASE pc'[k] = "inC"
      <3>1. Phase(k) = "called" /\ Phase(k)' = "inC"
            /\ \A j \in Calls \ {k} : Phase(j)' = Phase(j)
        BY <1>0, <1>6, <2>2 DEF CallFunction, Phase, TypeOK, Started
      <3>2. k \in entered' /\ sig' = sig
            /\ \E x : sees' = [sees EXCEPT ![k] = x]
        BY <1>0, <1>6, <2>2 DEF CallFunction, TypeOK
      <3>3. sees'[k] = [n \in 1..Len(sig[k]) |-> <<k, n>>]
        BY <1>0, <3>2 DEF ArgumentsInPlace
      <3>4. sees' = [sees EXCEPT ![k] = [n \in 1..Len(sig[k]) |-> <<k, n>>]]
        BY <1>0, <3>2, <3>3 DEF Recorded
      <3>5. sees' = [sees EXCEPT ![k] = Abstract!Args(k, [j \in Calls |-> Len(sig[j])][k])]
        BY <3>4 DEF Abstract!Args
      <3>6. Abstract!Enter(k)
        BY <2>1, <3>1, <3>2, <3>5, PhaseMoves DEF Abstract!Enter
      <3> QED BY <3>6 DEF Abstract!Next
    <2>3. CASE pc'[k] # "inC"
      <3>1. UNCHANGED <<sees, entered, sig>> /\ k \notin entered /\ Goto(k, "collect")
        BY <1>0, <1>6, <2>3 DEF CallFunction, TypeOK, Started
      <3>2. \A j \in Calls : Phase(j)' = Phase(j)
        BY <1>0, <1>6, <3>1 DEF CallFunction, Phase, TypeOK
      <3> QED BY <1>s, <2>1, <3>1, <3>2
    <2> QED BY <2>2, <2>3
  <1>7. ASSUME NEW k \in Calls, CReturn(k) PROVE [Abstract!Next]_(Abstract!vars)
    <2>1. \A j \in Calls : Phase(j)' = Phase(j)
      BY <1>0, <1>7 DEF CReturn, Phase, TypeOK, ResultTracked, ResultOf
    <2>2. \A j \in Calls : Outcome(j)' = Outcome(j)
      BY <1>0, <1>7, OutcomeSame DEF CReturn, TypeOK
    <2> QED BY <1>7, <1>s, <2>1, <2>2 DEF CReturn
  <1>8. ASSUME NEW k \in Calls, CPanic(k) PROVE [Abstract!Next]_(Abstract!vars)
    <2>1. \A j \in Calls : Outcome(j)' = Outcome(j)
      BY <1>0, <1>8, OutcomeSame DEF CPanic, TypeOK
    <2>2. Phase(k) \in {"called", "inC"} /\ Phase(k)' = "panicked"
          /\ \A j \in Calls \ {k} : Phase(j)' = Phase(j)
      BY <1>0, <1>8 DEF CPanic, Phase, TypeOK
    <2>3. Abstract!Panic(k)
      BY <1>8, <2>1, <2>2, PhaseMoves DEF CPanic, Abstract!Panic
    <2> QED BY <2>3 DEF Abstract!Next
  <1>9. ASSUME NEW k \in Calls, Collect(k) PROVE [Abstract!Next]_(Abstract!vars)
    <2>1. \A j \in Calls : Phase(j)' = Phase(j)
      BY <1>0, <1>9 DEF Collect, Phase, TypeOK
    <2>2. \A j \in Calls : Outcome(j)' = Outcome(j)
      BY <1>0, <1>9, OutcomeSame DEF Collect, TypeOK
    <2> QED BY <1>9, <1>s, <2>1, <2>2 DEF Collect
  <1>10. ASSUME NEW k \in Calls, Put(k) PROVE [Abstract!Next]_(Abstract!vars)
    <2>1. \A j \in Calls \ {k} : Outcome(j)' = Outcome(j)
      BY <1>0, <1>10, OutcomeSame DEF Put, TypeOK
    <2>2. Phase(k)' = "returned" /\ \A j \in Calls \ {k} : Phase(j)' = Phase(j)
      BY <1>0, <1>10 DEF Put, Phase, TypeOK
    <2>3. Outcome(k)' = [val |-> IF ret[k] = Nil THEN NoOut ELSE ret[k], err |-> 0]
      BY <1>0, <1>10 DEF Put, Outcome, TypeOK
    <2>4. ret[k] = Returned(k)
      BY <1>0, <1>10 DEF Put, ResultTracked, ResultOf
    <2>5. CASE k \in entered
      <3>1. Phase(k) = "inC"
        BY <1>10, <2>5 DEF Put, Phase
      <3>2. Outcome(k)' = [val |-> k, err |-> 0]
        BY <2>3, <2>4, <2>5, FastCallAssumption DEF Returned
      <3>3. Abstract!Return(k)
        BY <1>10, <2>1, <2>2, <3>1, <3>2, PhaseMoves DEF Put, Abstract!Return
      <3> QED BY <3>3 DEF Abstract!Next
    <2>6. CASE k \notin entered
      <3>1. Phase(k) = "called"
        BY <1>10, <2>6 DEF Put, Phase
      <3>2. Outcome(k)' = [val |-> NoOut, err |-> 0]
        BY <2>3, <2>4, <2>6 DEF Returned
      <3>3. Abstract!Refuse(k)
        BY <1>10, <2>1, <2>2, <3>1, <3>2, PhaseMoves DEF Put, Abstract!Refuse
      <3> QED BY <3>3 DEF Abstract!Next
    <2> QED BY <2>5, <2>6
  <1>11. ASSUME NEW c \in Ctxs, DropPooled(c) PROVE [Abstract!Next]_(Abstract!vars)
    <2>1. \A j \in Calls : Phase(j)' = Phase(j)
      BY <1>0, <1>11 DEF DropPooled, Phase, TypeOK
    <2>2. \A j \in Calls : Outcome(j)' = Outcome(j)
      BY <1>0, <1>11, OutcomeSame DEF DropPooled, TypeOK
    <2> QED BY <1>11, <1>s, <2>1, <2>2 DEF DropPooled
  <1>12. CASE UNCHANGED vars
    <2>1. \A j \in Calls : Phase(j)' = Phase(j)
      BY <1>0, <1>12 DEF vars, Phase, TypeOK
    <2>2. \A j \in Calls : Outcome(j)' = Outcome(j)
      BY <1>0, <1>12, OutcomeSame DEF vars, TypeOK
    <2> QED BY <1>12, <1>s, <2>1, <2>2 DEF vars
  <1> QED BY <1>1, <1>2, <1>3, <1>4, <1>5, <1>6, <1>7, <1>8, <1>9, <1>10, <1>11, <1>12
      DEF Next, Body, Quiescent

(* A call through a fast wrapper implements a foreign call that reports no   *)
(* error (zz_fast_func.go:40-61, ForeignCall): for any number of calls and   *)
(* contexts and any signatures the C function sees the arguments of its own  *)
(* call, and the call returns what that execution produced.                  *)
THEOREM Refinement == Spec => ImplementsForeignCall
  <1> QED BY Induction, InitRefines, NextRefines, PTL
      DEF Spec, ImplementsForeignCall, Abstract!Spec
=============================================================================
