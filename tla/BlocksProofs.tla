---------------------------- MODULE BlocksProofs ----------------------------
(***************************************************************************)
(* Proofs about Blocks, for any number of actors, functions, types,        *)
(* addresses and callbacks: IndInv is an inductive invariant.  References  *)
(* are counted right, so a block InvokeBlock works on is there, the map    *)
(* leads from a block to its own function, and a function type costs one   *)
(* callback.                                                               *)
(***************************************************************************)
EXTENDS Blocks, FiniteSetTheorems, TLAPS

(* What stands for nobody, no function and no block (objc_block_darwin.go:64,*)
(* 133, 184) is none of them.                                                *)
Fresh == NoActor \notin Actors /\ NoFn \notin Fns /\ NoBlock \notin Addrs

(* The assumptions on the tokens and the types, one by one: a function has a *)
(* type (objc_block_darwin.go:106), and the bounds are numbers.              *)
LEMMA FreshTokens == Fresh
  BY BlocksAssumption DEF Fresh
LEMMA Typed == TypeOf \in [Fns -> Types] /\ Encodable \subseteq Types
  BY BlocksAssumption
LEMMA Bounds == MaxCallbacks \in Nat /\ MaxRefs \in Nat /\ MaxRefs >= 1
  BY BlocksAssumption

(* The references in flight (objc_block_darwin.go:184-185, 189-190) are      *)
(* finitely many.                                                            *)
LEMMA InFlightFinite ==
  ASSUME NEW b
  PROVE  /\ IsFiniteSet(InFlight(b)) /\ Cardinality(InFlight(b)) \in Nat
         /\ IsFiniteSet(InFlight(b)') /\ Cardinality(InFlight(b)') \in Nat
  <1>1. IsFiniteSet(Actors)
    BY BlocksAssumption
  <1>2. InFlight(b) \subseteq Actors /\ InFlight(b)' \subseteq Actors
    BY DEF InFlight
  <1>3. IsFiniteSet(InFlight(b)) /\ IsFiniteSet(InFlight(b)')
    BY <1>1, <1>2, FS_Subset
  <1> QED BY <1>3, FS_CardinalityType

(* An actor that has no reference of its own to a block before nor after its *)
(* step (objc_block_darwin.go:106-154) changes nobody's.                     *)
LEMMA InFlightSame ==
  ASSUME TypeOK, NEW a \in Actors, NEW l, Goto(a, l),
         pc[a] \notin Holding, l \notin Holding,
         \A c \in Actors \ {a} : blk'[c] = blk[c]
  PROVE  \A b : InFlight(b)' = InFlight(b)
  BY DEF InFlight, TypeOK, Goto

(* Nor does one that goes on with the reference it has                       *)
(* (objc_block_darwin.go:191-204).                                           *)
LEMMA InFlightStays ==
  ASSUME TypeOK, NEW a \in Actors, NEW l, Goto(a, l),
         pc[a] \in Holding, l \in Holding, blk' = blk
  PROVE  \A b : InFlight(b)' = InFlight(b)
  BY DEF InFlight, TypeOK, Goto

(* _Block_copy (objc_block_darwin.go:184, 189) makes one reference more to   *)
(* the block, and none to another.                                           *)
LEMMA InFlightEnter ==
  ASSUME TypeOK, NEW a \in Actors, NEW d \in Addrs, NEW l, Goto(a, l),
         pc[a] \notin Holding, l \in Holding, blk' = [blk EXCEPT ![a] = d]
  PROVE  /\ InFlight(d)' = InFlight(d) \cup {a} /\ a \notin InFlight(d)
         /\ \A b : b # d => InFlight(b)' = InFlight(b)
         /\ Cardinality(InFlight(d)') = Cardinality(InFlight(d)) + 1
  <1>1. /\ InFlight(d)' = InFlight(d) \cup {a} /\ a \notin InFlight(d)
        /\ \A b : b # d => InFlight(b)' = InFlight(b)
    BY DEF InFlight, TypeOK, Goto
  <1>2. IsFiniteSet(InFlight(d))
    BY InFlightFinite
  <1> QED BY <1>1, <1>2, FS_AddElement

(* The deferred Release (objc_block_darwin.go:190), and NewBlock's return,   *)
(* end the actor's own reference to the block and no other.                  *)
LEMMA InFlightLeave ==
  ASSUME TypeOK, NEW a \in Actors, NEW d, d = blk[a], NEW l, Goto(a, l),
         pc[a] \in Holding, l \notin Holding, \A c \in Actors : blk'[c] = blk[c]
  PROVE  /\ InFlight(d)' = InFlight(d) \ {a} /\ a \in InFlight(d)
         /\ \A b : b # d => InFlight(b)' = InFlight(b)
         /\ Cardinality(InFlight(d)') = Cardinality(InFlight(d)) - 1
         /\ Cardinality(InFlight(d)) >= 1
  <1>1. /\ InFlight(d)' = InFlight(d) \ {a} /\ a \in InFlight(d)
        /\ \A b : b # d => InFlight(b)' = InFlight(b)
    BY DEF InFlight, TypeOK, Goto
  <1>2. IsFiniteSet(InFlight(d)) /\ Cardinality(InFlight(d)') \in Nat
        /\ Cardinality(InFlight(d)) \in Nat
    BY InFlightFinite
  <1>3. Cardinality(InFlight(d)') = Cardinality(InFlight(d)) - 1
    BY <1>1, <1>2, FS_RemoveElement, ZenonT(60)
  <1> QED BY <1>1, <1>2, <1>3

(* An actor with a reference of its own keeps its block alive                *)
(* (objc_block_darwin.go:189): the count is above zero.                      *)
LEMMA HeldLive ==
  ASSUME TypeOK, RefsCounted, Disposals, NEW a \in Actors, pc[a] \in Holding
  PROVE  blk[a] \in Addrs /\ refs[blk[a]] > 0 /\ heap[blk[a]] = "live"
  <1> DEFINE b == blk[a]
  <1>1. b \in Addrs /\ a \in InFlight(b)
    BY DEF Disposals, InFlight
  <1>2. IsFiniteSet(InFlight(b)) /\ Cardinality(InFlight(b)) \in Nat
    BY InFlightFinite
  <1>3. Cardinality(InFlight(b) \ {a}) = Cardinality(InFlight(b)) - 1
        /\ IsFiniteSet(InFlight(b) \ {a})
    BY <1>1, <1>2, FS_RemoveElement
  <1>4. Cardinality(InFlight(b) \ {a}) \in Nat
    BY <1>3, FS_CardinalityType
  <1>5. owned[b] \in Nat
    BY <1>1, Bounds DEF TypeOK
  <1>6. Cardinality(InFlight(b)) > 0
    BY <1>2, <1>3, <1>4
  <1>7. refs[b] = owned[b] + Cardinality(InFlight(b))
        /\ (heap[b] = "live" <=> refs[b] > 0)
    BY <1>1 DEF RefsCounted
  <1>8. refs[b] > 0
    BY <1>2, <1>5, <1>6, <1>7
  <1> QED BY <1>1, <1>7, <1>8

(* A block a client owns (objc_block_darwin.go:159, 165) is there, and it    *)
(* leads to its function.                                                    *)
LEMMA OwnedLive ==
  ASSUME TypeOK, RefsCounted, Entered, NEW b \in Addrs, owned[b] > 0
  PROVE  refs[b] > 0 /\ heap[b] = "live" /\ functions[b] = madeOf[b]
  <1>1. Cardinality(InFlight(b)) \in Nat
    BY InFlightFinite
  <1>2. owned[b] \in Nat
    BY Bounds DEF TypeOK
  <1>3. refs[b] = owned[b] + Cardinality(InFlight(b))
        /\ (heap[b] = "live" <=> refs[b] > 0)
    BY DEF RefsCounted
  <1>4. refs[b] > 0
    BY <1>1, <1>2, <1>3
  <1>5. heap[b] = "live"
    BY <1>3, <1>4
  <1>6. ~ \E a \in Actors : pc[a] = "store" /\ blk[a] = b
    BY DEF Entered
  <1> QED BY <1>4, <1>5, <1>6 DEF Entered

(* Before the first block (objc_block_darwin.go:38-49) the invariant holds.  *)
LEMMA InitInv == Init => IndInv
  <1> SUFFICES ASSUME Init PROVE IndInv
    OBVIOUS
  <1>f. Fresh
    BY FreshTokens
  <1>b. 0 \in 0..MaxCallbacks /\ MaxCallbacks \in 0..MaxCallbacks /\ 0 \in 0..MaxRefs
    BY Bounds
  <1>1. TypeOK
    BY <1>b DEF Init, TypeOK, PCs
  <1>2. MutexHeld /\ OneCallbackPerType /\ FunctionsOfLive /\ CalledOwn
    BY <1>f DEF Init, MutexHeld, OneCallbackPerType, FunctionsOfLive, CalledOwn, Fresh
  <1>3. Entered /\ Disposals
    BY DEF Init, Entered, Disposals, Holding
  <1>4. \A b \in Addrs : InFlight(b) = {}
    BY DEF Init, InFlight, Holding
  <1>5. RefsCounted
    BY <1>4, FS_EmptySet DEF Init, RefsCounted
  <1> QED BY <1>1, <1>2, <1>3, <1>5 DEF IndInv

(* Every step (objc_block_darwin.go:38-204) keeps the types: counts do not   *)
(* fall below zero, and no more callbacks are made than there are.           *)
LEMMA NextTypes == IndInv /\ [Next]_vars => TypeOK'
  <1> SUFFICES ASSUME IndInv, [Next]_vars PROVE TypeOK'
    OBVIOUS
  <1> USE DEF Goto, actorVars, cacheVars, blockVars
  <1>0. TypeOK /\ MutexHeld /\ RefsCounted /\ OneCallbackPerType /\ Disposals /\ Entered
    BY DEF IndInv
  <1>f. Fresh
    BY FreshTokens
  <1>1. ASSUME NEW a \in Actors, NewBlock(a) PROVE TypeOK'
    BY <1>0, <1>f, <1>1 DEF NewBlock, TypeOK, PCs
  <1>2. ASSUME NEW a \in Actors, GetLayout(a) PROVE TypeOK'
    BY <1>0, <1>f, <1>2 DEF GetLayout, TypeOK, PCs
  <1>3. ASSUME NEW a \in Actors, Encode(a) PROVE TypeOK'
    BY <1>0, <1>f, <1>3 DEF Encode, TypeOK, PCs
  <1>4. ASSUME NEW a \in Actors, NewCallback(a) PROVE TypeOK'
    <2>1. TypeOf[fn[a]] \in Encodable /\ TypeOf[fn[a]] \in Types
          /\ callbacks[TypeOf[fn[a]]] = 0
      BY <1>0, <1>4, Typed DEF NewCallback, MutexHeld, OneCallbackPerType
    <2>2. CASE spare > 0
      <3>1. 0 + 1 \in 0..MaxCallbacks /\ spare - 1 \in 0..MaxCallbacks
        BY <1>0, <2>2, Bounds DEF TypeOK
      <3>2. callbacks' = [callbacks EXCEPT ![TypeOf[fn[a]]] = 0 + 1]
        BY <1>4, <2>1, <2>2 DEF NewCallback
      <3> QED BY <1>0, <1>4, <2>1, <2>2, <3>1, <3>2 DEF NewCallback, TypeOK, PCs
    <2>3. CASE ~ (spare > 0)
      BY <1>0, <1>4, <2>3 DEF NewCallback, TypeOK, PCs
    <2> QED BY <2>2, <2>3
  <1>5. ASSUME NEW a \in Actors, BlockCopy(a) PROVE TypeOK'
    <2>1. fn[a] \in Fns
      BY <1>0, <1>5 DEF BlockCopy, MutexHeld
    <2> QED BY <1>0, <1>5, <2>1 DEF BlockCopy, TypeOK, PCs
  <1>6. ASSUME NEW a \in Actors, FinishNewBlock(a) PROVE TypeOK'
    <2>1. 1 \in 0..MaxRefs
      BY Bounds
    <2> QED BY <1>0, <1>6, <2>1 DEF FinishNewBlock, Store, TypeOK, PCs
  <1>7. ASSUME NEW a \in Actors, Dispose(a) PROVE TypeOK'
    BY <1>0, <1>f, <1>7 DEF Dispose, Delete, TypeOK, PCs
  <1>8. ASSUME NEW a \in Actors, Free(a) PROVE TypeOK'
    BY <1>0, <1>f, <1>8 DEF Free, TypeOK, PCs
  <1>9. ASSUME NEW a \in Actors, Finish(a) PROVE TypeOK'
    BY <1>0, <1>f, <1>9 DEF Finish, TypeOK, PCs
  <1>10. ASSUME NEW a \in Actors, Load(a) PROVE TypeOK'
    <2>1. blk[a] \in Addrs
      BY <1>0, <1>10 DEF Load, Disposals, Holding
    <2>2. functions[blk[a]] \in Fns \cup {NoFn}
      BY <1>0, <2>1 DEF TypeOK
    <2> QED BY <1>0, <1>10, <2>2 DEF Load, TypeOK, PCs
  <1>11. ASSUME NEW a \in Actors, Called(a) PROVE TypeOK'
    BY <1>0, <1>f, <1>11 DEF Called, TypeOK, PCs
  <1>12. ASSUME NEW a \in Actors, ReleaseOwn(a) PROVE TypeOK'
    <2>1. blk[a] \in Addrs /\ refs[blk[a]] > 0
      BY <1>0, <1>12, HeldLive DEF ReleaseOwn, Holding
    <2>2. refs[blk[a]] - 1 \in Nat
      BY <1>0, <2>1 DEF TypeOK
    <2> QED BY <1>0, <1>12, <2>1, <2>2 DEF ReleaseOwn, Drop, TypeOK, PCs
  <1>13. ASSUME NEW a \in Actors, NEW b \in Addrs, Copy(a, b) PROVE TypeOK'
    <2>1. owned[b] + 1 \in 0..MaxRefs /\ refs[b] + 1 \in Nat
      BY <1>0, <1>13, Bounds DEF Copy, TypeOK
    <2> QED BY <1>0, <1>13, <2>1 DEF Copy, TypeOK, PCs
  <1>14. ASSUME NEW a \in Actors, NEW b \in Addrs, Release(a, b) PROVE TypeOK'
    <2>1. refs[b] > 0
      BY <1>0, <1>14, OwnedLive DEF Release
    <2>2. refs[b] - 1 \in Nat /\ owned[b] - 1 \in 0..MaxRefs
      BY <1>0, <1>14, <2>1, Bounds DEF Release, TypeOK
    <2> QED BY <1>0, <1>14, <2>1, <2>2 DEF Release, Drop, TypeOK, PCs
  <1>15. ASSUME NEW a \in Actors, NEW b \in Addrs, Invoke(a, b) PROVE TypeOK'
    BY <1>0, <1>f, <1>15 DEF Invoke, TypeOK, PCs
  <1>16. ASSUME NEW a \in Actors, NEW b \in Addrs, InvokeBlock(a, b) PROVE TypeOK'
    BY <1>0, <1>f, <1>16 DEF InvokeBlock, TypeOK, PCs
  <1>17. CASE UNCHANGED vars
    BY <1>0, <1>17 DEF vars, TypeOK, PCs
  <1> QED BY <1>1, <1>2, <1>3, <1>4, <1>5, <1>6, <1>7, <1>8, <1>9, <1>10,
     <1>11, <1>12, <1>13, <1>14, <1>15, <1>16, <1>17 DEF Next, Body

(* Every step (objc_block_darwin.go:111-138) keeps what the mutex stands     *)
(* for: a panic in encode or NewCallback gives it back.                      *)
LEMMA NextMutex == IndInv /\ [Next]_vars => MutexHeld'
  <1> SUFFICES ASSUME IndInv, [Next]_vars PROVE MutexHeld'
    OBVIOUS
  <1> USE DEF Goto, actorVars, cacheVars, blockVars
  <1>0. TypeOK /\ MutexHeld
    BY DEF IndInv
  <1>f. Fresh
    BY FreshTokens
  <1>1. ASSUME NEW a \in Actors, NewBlock(a) PROVE MutexHeld'
    BY <1>0, <1>f, <1>1 DEF NewBlock, MutexHeld, TypeOK, Fresh
  <1>2. ASSUME NEW a \in Actors, GetLayout(a) PROVE MutexHeld'
    BY <1>0, <1>f, <1>2 DEF GetLayout, MutexHeld, TypeOK, Fresh
  <1>3. ASSUME NEW a \in Actors, Encode(a) PROVE MutexHeld'
    BY <1>0, <1>f, <1>3 DEF Encode, MutexHeld, TypeOK, Fresh
  <1>4. ASSUME NEW a \in Actors, NewCallback(a) PROVE MutexHeld'
    BY <1>0, <1>f, <1>4 DEF NewCallback, MutexHeld, TypeOK, Fresh
  <1>5. ASSUME NEW a \in Actors, BlockCopy(a) PROVE MutexHeld'
    BY <1>0, <1>f, <1>5 DEF BlockCopy, MutexHeld, TypeOK, Fresh
  <1>6. ASSUME NEW a \in Actors, FinishNewBlock(a) PROVE MutexHeld'
    BY <1>0, <1>f, <1>6 DEF FinishNewBlock, Store, MutexHeld, TypeOK, Fresh
  <1>7. ASSUME NEW a \in Actors, Dispose(a) PROVE MutexHeld'
    BY <1>0, <1>f, <1>7 DEF Dispose, Delete, MutexHeld, TypeOK, Fresh
  <1>8. ASSUME NEW a \in Actors, Free(a) PROVE MutexHeld'
    BY <1>0, <1>f, <1>8 DEF Free, MutexHeld, TypeOK, Fresh
  <1>9. ASSUME NEW a \in Actors, Finish(a) PROVE MutexHeld'
    BY <1>0, <1>f, <1>9 DEF Finish, MutexHeld, TypeOK, Fresh
  <1>10. ASSUME NEW a \in Actors, Load(a) PROVE MutexHeld'
    BY <1>0, <1>f, <1>10 DEF Load, MutexHeld, TypeOK, Fresh
  <1>11. ASSUME NEW a \in Actors, Called(a) PROVE MutexHeld'
    BY <1>0, <1>f, <1>11 DEF Called, MutexHeld, TypeOK, Fresh
  <1>12. ASSUME NEW a \in Actors, ReleaseOwn(a) PROVE MutexHeld'
    BY <1>0, <1>f, <1>12 DEF ReleaseOwn, Drop, MutexHeld, TypeOK, Fresh
  <1>13. ASSUME NEW a \in Actors, NEW b \in Addrs, Copy(a, b) PROVE MutexHeld'
    BY <1>0, <1>f, <1>13 DEF Copy, MutexHeld, TypeOK, Fresh
  <1>14. ASSUME NEW a \in Actors, NEW b \in Addrs, Release(a, b) PROVE MutexHeld'
    BY <1>0, <1>f, <1>14 DEF Release, Drop, MutexHeld, TypeOK, Fresh
  <1>15. ASSUME NEW a \in Actors, NEW b \in Addrs, Invoke(a, b) PROVE MutexHeld'
    BY <1>0, <1>f, <1>15 DEF Invoke, MutexHeld, TypeOK, Fresh
  <1>16. ASSUME NEW a \in Actors, NEW b \in Addrs, InvokeBlock(a, b) PROVE MutexHeld'
    BY <1>0, <1>f, <1>16 DEF InvokeBlock, MutexHeld, TypeOK, Fresh
  <1>17. CASE UNCHANGED vars
    BY <1>0, <1>17 DEF vars, MutexHeld, TypeOK, Fresh
  <1> QED BY <1>1, <1>2, <1>3, <1>4, <1>5, <1>6, <1>7, <1>8, <1>9, <1>10,
     <1>11, <1>12, <1>13, <1>14, <1>15, <1>16, <1>17 DEF Next, Body

(* Every step (objc_block_darwin.go:125-138) keeps one callback to a type.   *)
LEMMA NextCallbacks == IndInv /\ [Next]_vars => OneCallbackPerType'
  <1> SUFFICES ASSUME IndInv, [Next]_vars PROVE OneCallbackPerType'
    OBVIOUS
  <1> USE DEF Goto, actorVars, cacheVars, blockVars
  <1>0. TypeOK /\ MutexHeld /\ OneCallbackPerType
    BY DEF IndInv
  <1>f. Fresh
    BY FreshTokens
  <1>1. ASSUME NEW a \in Actors, NewBlock(a) PROVE OneCallbackPerType'
    BY <1>0, <1>f, <1>1 DEF NewBlock, OneCallbackPerType
  <1>2. ASSUME NEW a \in Actors, GetLayout(a) PROVE OneCallbackPerType'
    BY <1>0, <1>f, <1>2 DEF GetLayout, OneCallbackPerType
  <1>3. ASSUME NEW a \in Actors, Encode(a) PROVE OneCallbackPerType'
    BY <1>0, <1>f, <1>3 DEF Encode, OneCallbackPerType
  <1>4. ASSUME NEW a \in Actors, NewCallback(a) PROVE OneCallbackPerType'
    <2>1. TypeOf[fn[a]] \in Types /\ TypeOf[fn[a]] \notin layouts
      BY <1>0, <1>4, Typed DEF NewCallback, MutexHeld
    <2> QED BY <1>0, <1>4, <2>1 DEF NewCallback, OneCallbackPerType, TypeOK
  <1>5. ASSUME NEW a \in Actors, BlockCopy(a) PROVE OneCallbackPerType'
    BY <1>0, <1>f, <1>5 DEF BlockCopy, OneCallbackPerType
  <1>6. ASSUME NEW a \in Actors, FinishNewBlock(a) PROVE OneCallbackPerType'
    BY <1>0, <1>f, <1>6 DEF FinishNewBlock, Store, OneCallbackPerType
  <1>7. ASSUME NEW a \in Actors, Dispose(a) PROVE OneCallbackPerType'
    BY <1>0, <1>f, <1>7 DEF Dispose, Delete, OneCallbackPerType
  <1>8. ASSUME NEW a \in Actors, Free(a) PROVE OneCallbackPerType'
    BY <1>0, <1>f, <1>8 DEF Free, OneCallbackPerType
  <1>9. ASSUME NEW a \in Actors, Finish(a) PROVE OneCallbackPerType'
    BY <1>0, <1>f, <1>9 DEF Finish, OneCallbackPerType
  <1>10. ASSUME NEW a \in Actors, Load(a) PROVE OneCallbackPerType'
    BY <1>0, <1>f, <1>10 DEF Load, OneCallbackPerType
  <1>11. ASSUME NEW a \in Actors, Called(a) PROVE OneCallbackPerType'
    BY <1>0, <1>f, <1>11 DEF Called, OneCallbackPerType
  <1>12. ASSUME NEW a \in Actors, ReleaseOwn(a) PROVE OneCallbackPerType'
    BY <1>0, <1>f, <1>12 DEF ReleaseOwn, Drop, OneCallbackPerType
  <1>13. ASSUME NEW a \in Actors, NEW b \in Addrs, Copy(a, b) PROVE OneCallbackPerType'
    BY <1>0, <1>f, <1>13 DEF Copy, OneCallbackPerType
  <1>14. ASSUME NEW a \in Actors, NEW b \in Addrs, Release(a, b) PROVE OneCallbackPerType'
    BY <1>0, <1>f, <1>14 DEF Release, Drop, OneCallbackPerType
  <1>15. ASSUME NEW a \in Actors, NEW b \in Addrs, Invoke(a, b) PROVE OneCallbackPerType'
    BY <1>0, <1>f, <1>15 DEF Invoke, OneCallbackPerType
  <1>16. ASSUME NEW a \in Actors, NEW b \in Addrs, InvokeBlock(a, b) PROVE OneCallbackPerType'
    BY <1>0, <1>f, <1>16 DEF InvokeBlock, OneCallbackPerType
  <1>17. CASE UNCHANGED vars
    BY <1>0, <1>17 DEF vars, OneCallbackPerType
  <1> QED BY <1>1, <1>2, <1>3, <1>4, <1>5, <1>6, <1>7, <1>8, <1>9, <1>10,
     <1>11, <1>12, <1>13, <1>14, <1>15, <1>16, <1>17 DEF Next, Body

(* Every step (objc_block_darwin.go:159-190) keeps the count of references   *)
(* and the life of the block together.                                       *)
LEMMA NextRefs == IndInv /\ [Next]_vars => RefsCounted'
  <1> SUFFICES ASSUME IndInv, [Next]_vars PROVE RefsCounted'
    OBVIOUS
  <1> USE DEF Goto, actorVars, cacheVars, blockVars
  <1>0. TypeOK /\ RefsCounted /\ Disposals /\ Entered
    BY DEF IndInv
  <1>f. Fresh
    BY FreshTokens
  <1>1. ASSUME NEW a \in Actors, NewBlock(a) PROVE RefsCounted'
    <2>1. \A d : InFlight(d)' = InFlight(d)
      BY <1>0, <1>1, InFlightSame DEF NewBlock, Holding
    <2> QED BY <1>0, <1>1, <2>1 DEF NewBlock, RefsCounted, TypeOK
  <1>2. ASSUME NEW a \in Actors, GetLayout(a) PROVE RefsCounted'
    <2>1. \A d : InFlight(d)' = InFlight(d)
      BY <1>0, <1>2, InFlightSame DEF GetLayout, Holding
    <2> QED BY <1>0, <1>2, <2>1 DEF GetLayout, RefsCounted, TypeOK
  <1>3. ASSUME NEW a \in Actors, Encode(a) PROVE RefsCounted'
    <2>1. \A d : InFlight(d)' = InFlight(d)
      BY <1>0, <1>3, InFlightSame DEF Encode, Holding
    <2> QED BY <1>0, <1>3, <2>1 DEF Encode, RefsCounted, TypeOK
  <1>4. ASSUME NEW a \in Actors, NewCallback(a) PROVE RefsCounted'
    <2>1. \A d : InFlight(d)' = InFlight(d)
      BY <1>0, <1>4, InFlightSame DEF NewCallback, Holding
    <2> QED BY <1>0, <1>4, <2>1 DEF NewCallback, RefsCounted, TypeOK
  <1>5. ASSUME NEW a \in Actors, BlockCopy(a) PROVE RefsCounted'
    <2>1. PICK b \in Addrs :
            /\ heap[b] = "free"
            /\ heap' = [heap EXCEPT ![b] = "live"]
            /\ refs' = [refs EXCEPT ![b] = 1]
            /\ blk' = [blk EXCEPT ![a] = b]
      BY <1>5 DEF BlockCopy
    <2>2. Cardinality(InFlight(b)) \in Nat /\ owned[b] \in Nat /\ refs[b] \in Nat
      BY <1>0, InFlightFinite, Bounds DEF TypeOK
    <2>3. refs[b] = owned[b] + Cardinality(InFlight(b)) /\ refs[b] = 0
      BY <1>0, <2>1, <2>2 DEF RefsCounted
    <2>4. owned[b] = 0 /\ Cardinality(InFlight(b)) = 0
      BY <2>2, <2>3
    <2>5. /\ \A d : d # b => InFlight(d)' = InFlight(d)
          /\ Cardinality(InFlight(b)') = Cardinality(InFlight(b)) + 1
      BY <1>0, <1>5, <2>1, InFlightEnter DEF BlockCopy, Holding
    <2> QED BY <1>0, <1>5, <2>1, <2>4, <2>5 DEF BlockCopy, RefsCounted, TypeOK
  <1>6. ASSUME NEW a \in Actors, FinishNewBlock(a) PROVE RefsCounted'
    <2>0. PICK b \in Addrs : b = blk[a]
      BY <1>0, <1>6 DEF FinishNewBlock, Disposals, Holding
    <2>1. b \in Addrs /\ owned[b] = 0
      BY <2>0, <1>0, <1>6 DEF FinishNewBlock, Disposals, Entered, Holding
    <2>2. /\ \A d : d # b => InFlight(d)' = InFlight(d)
          /\ Cardinality(InFlight(b)') = Cardinality(InFlight(b)) - 1
      BY <2>0, <1>0, <1>6, InFlightLeave DEF FinishNewBlock, Holding
    <2>3. Cardinality(InFlight(b)) \in Nat
      BY <2>0, InFlightFinite
    <2>4. refs[b] = owned'[b] + Cardinality(InFlight(b)')
      BY <2>0, <1>0, <1>6, <2>1, <2>2, <2>3 DEF FinishNewBlock, RefsCounted, TypeOK
    <2> QED BY <2>0, <1>0, <1>6, <2>1, <2>2, <2>4 DEF FinishNewBlock, RefsCounted, TypeOK
  <1>7. ASSUME NEW a \in Actors, Dispose(a) PROVE RefsCounted'
    <2>1. \A d : InFlight(d)' = InFlight(d)
      BY <1>0, <1>7, InFlightSame DEF Dispose, Delete, Holding
    <2> QED BY <1>0, <1>7, <2>1 DEF Dispose, Delete, RefsCounted, TypeOK
  <1>8. ASSUME NEW a \in Actors, Free(a) PROVE RefsCounted'
    <2>1. \A d : InFlight(d)' = InFlight(d)
      BY <1>0, <1>8, InFlightSame DEF Free, Holding
    <2>2. blk[a] \in Addrs /\ heap[blk[a]] = "dying"
      BY <1>0, <1>8 DEF Free, Disposals
    <2> QED BY <1>0, <1>8, <2>1, <2>2 DEF Free, RefsCounted, TypeOK
  <1>9. ASSUME NEW a \in Actors, Finish(a) PROVE RefsCounted'
    <2>1. \A d : InFlight(d)' = InFlight(d)
      BY <1>0, <1>9, InFlightSame DEF Finish, Holding
    <2> QED BY <1>0, <1>9, <2>1 DEF Finish, RefsCounted, TypeOK
  <1>10. ASSUME NEW a \in Actors, Load(a) PROVE RefsCounted'
    <2>1. \A d : InFlight(d)' = InFlight(d)
      BY <1>0, <1>10, InFlightStays DEF Load, Holding
    <2> QED BY <1>0, <1>10, <2>1 DEF Load, RefsCounted, TypeOK
  <1>11. ASSUME NEW a \in Actors, Called(a) PROVE RefsCounted'
    <2>1. \A d : InFlight(d)' = InFlight(d)
      BY <1>0, <1>11, InFlightStays DEF Called, Holding
    <2> QED BY <1>0, <1>11, <2>1 DEF Called, RefsCounted, TypeOK
  <1>12. ASSUME NEW a \in Actors, ReleaseOwn(a) PROVE RefsCounted'
    <2>0. PICK b \in Addrs : b = blk[a]
      BY <1>0, <1>12 DEF ReleaseOwn, Disposals, Holding
    <2>1. b \in Addrs /\ refs[b] > 0 /\ heap[b] = "live"
      BY <2>0, <1>0, <1>12, HeldLive DEF ReleaseOwn, Holding
    <2>a. PICK l \in {"idle", "dispose"} : Goto(a, l)
      BY <2>0, <1>12 DEF ReleaseOwn, Drop
    <2>b. \A c \in Actors : blk'[c] = blk[c]
      BY <2>0, <1>0, <1>12 DEF ReleaseOwn, Drop, TypeOK
    <2>2. /\ \A d : d # b => InFlight(d)' = InFlight(d)
          /\ Cardinality(InFlight(b)') = Cardinality(InFlight(b)) - 1
      BY <2>0, <1>0, <1>12, <2>a, <2>b, InFlightLeave DEF ReleaseOwn, Holding
    <2>3. Cardinality(InFlight(b)) \in Nat /\ owned[b] \in Nat /\ refs[b] \in Nat
      BY <2>0, <1>0, <2>1, InFlightFinite, Bounds DEF TypeOK
    <2>4. refs[b] - 1 = owned[b] + Cardinality(InFlight(b)')
      BY <2>0, <1>0, <2>1, <2>2, <2>3 DEF RefsCounted
    <2>5. refs' = [refs EXCEPT ![b] = @ - 1] /\ owned' = owned
          /\ heap' = IF refs[b] = 1 THEN [heap EXCEPT ![b] = "dying"] ELSE heap
      BY <2>0, <1>12 DEF ReleaseOwn, Drop
    <2>6. refs'[b] = refs[b] - 1 /\ (heap'[b] = "live" <=> refs'[b] > 0)
      BY <2>0, <1>0, <2>1, <2>3, <2>5 DEF TypeOK
    <2>7. \A d \in Addrs : d # b => heap'[d] = heap[d] /\ refs'[d] = refs[d]
      BY <2>0, <1>0, <2>5 DEF TypeOK
    <2> QED BY <2>0, <1>0, <2>2, <2>4, <2>5, <2>6, <2>7 DEF RefsCounted
  <1>13. ASSUME NEW a \in Actors, NEW b \in Addrs, Copy(a, b) PROVE RefsCounted'
    <2>1. \A d : InFlight(d)' = InFlight(d)
      BY <1>13 DEF Copy, InFlight
    <2>2. Cardinality(InFlight(b)) \in Nat /\ owned[b] \in Nat /\ refs[b] \in Nat
      BY <1>0, InFlightFinite, Bounds DEF TypeOK
    <2>3. refs[b] + 1 = (owned[b] + 1) + Cardinality(InFlight(b))
      BY <1>0, <2>2 DEF RefsCounted
    <2>4. refs[b] > 0
      BY <1>0, <1>13, OwnedLive DEF Copy
    <2>5. heap[b] = "live" /\ refs[b] + 1 > 0
      BY <1>0, <2>2, <2>4 DEF RefsCounted
    <2> QED BY <1>0, <1>13, <2>1, <2>3, <2>5 DEF Copy, RefsCounted, TypeOK
  <1>14. ASSUME NEW a \in Actors, NEW b \in Addrs, Release(a, b) PROVE RefsCounted'
    <2>1. refs[b] > 0 /\ heap[b] = "live"
      BY <1>0, <1>14, OwnedLive DEF Release
    <2>2. \A d : InFlight(d)' = InFlight(d)
      <3>1. PICK l \in {"idle", "dispose"} : Goto(a, l)
        BY <1>14 DEF Release, Drop
      <3>2. \A c \in Actors \ {a} : blk'[c] = blk[c]
        BY <1>0, <1>14 DEF Release, Drop, TypeOK
      <3> QED BY <1>0, <1>14, <3>1, <3>2, InFlightSame DEF Release, Holding
    <2>3. Cardinality(InFlight(b)) \in Nat /\ owned[b] \in Nat /\ refs[b] \in Nat
      BY <1>0, InFlightFinite, Bounds DEF TypeOK
    <2>4. refs[b] - 1 = (owned[b] - 1) + Cardinality(InFlight(b))
      BY <1>0, <2>3 DEF RefsCounted
    <2>5. refs' = [refs EXCEPT ![b] = @ - 1] /\ owned' = [owned EXCEPT ![b] = @ - 1]
          /\ heap' = IF refs[b] = 1 THEN [heap EXCEPT ![b] = "dying"] ELSE heap
      BY <1>14 DEF Release, Drop
    <2>6. refs'[b] = refs[b] - 1 /\ owned'[b] = owned[b] - 1
          /\ (heap'[b] = "live" <=> refs'[b] > 0)
      BY <1>0, <2>1, <2>3, <2>5 DEF TypeOK
    <2>7. \A d \in Addrs :
            d # b => heap'[d] = heap[d] /\ refs'[d] = refs[d] /\ owned'[d] = owned[d]
      BY <1>0, <2>5 DEF TypeOK
    <2> QED BY <1>0, <2>2, <2>4, <2>6, <2>7 DEF RefsCounted
  <1>15. ASSUME NEW a \in Actors, NEW b \in Addrs, Invoke(a, b) PROVE RefsCounted'
    <2>0. \A c \in Actors \ {a} : blk'[c] = blk[c]
      BY <1>0, <1>15 DEF Invoke, TypeOK
    <2>a. Goto(a, "running") /\ pc[a] = "idle"
      BY <1>15 DEF Invoke
    <2>1. \A d : InFlight(d)' = InFlight(d)
      BY <1>0, <2>0, <2>a, InFlightSame DEF Holding
    <2> QED BY <1>0, <1>15, <2>1 DEF Invoke, RefsCounted, TypeOK
  <1>16. ASSUME NEW a \in Actors, NEW b \in Addrs, InvokeBlock(a, b) PROVE RefsCounted'
    <2>1. /\ \A d : d # b => InFlight(d)' = InFlight(d)
          /\ Cardinality(InFlight(b)') = Cardinality(InFlight(b)) + 1
      BY <1>0, <1>16, InFlightEnter DEF InvokeBlock, Holding
    <2>2. Cardinality(InFlight(b)) \in Nat /\ owned[b] \in Nat /\ refs[b] \in Nat
      BY <1>0, InFlightFinite, Bounds DEF TypeOK
    <2>3. refs[b] + 1 = owned[b] + Cardinality(InFlight(b)')
      BY <1>0, <2>1, <2>2 DEF RefsCounted
    <2>4. heap[b] = "live" /\ refs[b] + 1 > 0
      BY <1>0, <1>16, <2>2, OwnedLive DEF InvokeBlock
    <2> QED BY <1>0, <1>16, <2>1, <2>3, <2>4 DEF InvokeBlock, RefsCounted, TypeOK
  <1>17. CASE UNCHANGED vars
    <2>1. \A d : InFlight(d)' = InFlight(d)
      BY <1>17 DEF vars, InFlight
    <2> QED BY <1>0, <1>17, <2>1 DEF vars, RefsCounted
  <1> QED BY <1>1, <1>2, <1>3, <1>4, <1>5, <1>6, <1>7, <1>8, <1>9, <1>10,
     <1>11, <1>12, <1>13, <1>14, <1>15, <1>16, <1>17 DEF Next, Body

(* Every step (objc_block_darwin.go:184-185) keeps that a block is its       *)
(* maker's alone until its function is entered, and has it afterwards.       *)
LEMMA NextEntered == IndInv /\ [Next]_vars => Entered'
  <1> SUFFICES ASSUME IndInv, [Next]_vars PROVE Entered'
    OBVIOUS
  <1> USE DEF Goto, actorVars, cacheVars, blockVars
  <1>0. TypeOK /\ MutexHeld /\ RefsCounted /\ Entered /\ Disposals /\ FunctionsOfLive
    BY DEF IndInv
  <1>f. Fresh
    BY FreshTokens
  <1>1. ASSUME NEW a \in Actors, NewBlock(a) PROVE Entered'
    <2>1. \A d : InFlight(d)' = InFlight(d)
      BY <1>0, <1>1, InFlightSame DEF NewBlock, Holding
    <2> QED BY <1>0, <1>1, <2>1 DEF NewBlock, Entered, TypeOK
  <1>2. ASSUME NEW a \in Actors, GetLayout(a) PROVE Entered'
    <2>1. \A d : InFlight(d)' = InFlight(d)
      BY <1>0, <1>2, InFlightSame DEF GetLayout, Holding
    <2> QED BY <1>0, <1>2, <2>1 DEF GetLayout, Entered, TypeOK
  <1>3. ASSUME NEW a \in Actors, Encode(a) PROVE Entered'
    <2>1. \A d : InFlight(d)' = InFlight(d)
      BY <1>0, <1>3, InFlightSame DEF Encode, Holding
    <2> QED BY <1>0, <1>3, <2>1 DEF Encode, Entered, TypeOK
  <1>4. ASSUME NEW a \in Actors, NewCallback(a) PROVE Entered'
    <2>1. \A d : InFlight(d)' = InFlight(d)
      BY <1>0, <1>4, InFlightSame DEF NewCallback, Holding
    <2> QED BY <1>0, <1>4, <2>1 DEF NewCallback, Entered, TypeOK
  <1>5. ASSUME NEW a \in Actors, BlockCopy(a) PROVE Entered'
    <2>1. PICK b \in Addrs :
            /\ heap[b] = "free"
            /\ heap' = [heap EXCEPT ![b] = "live"]
            /\ madeOf' = [madeOf EXCEPT ![b] = fn[a]]
            /\ blk' = [blk EXCEPT ![a] = b]
      BY <1>5 DEF BlockCopy
    <2>2. Cardinality(InFlight(b)) \in Nat /\ owned[b] \in Nat /\ refs[b] \in Nat
      BY <1>0, InFlightFinite, Bounds DEF TypeOK
    <2>3. refs[b] = owned[b] + Cardinality(InFlight(b)) /\ refs[b] = 0
      BY <1>0, <2>1, <2>2 DEF RefsCounted
    <2>4. owned[b] = 0
      BY <2>2, <2>3
    <2>5. InFlight(b) = {}
      BY <1>0, <2>1, HeldLive DEF InFlight
    <2>6. InFlight(b)' = {a} /\ \A d : d # b => InFlight(d)' = InFlight(d)
      <3>1. Goto(a, "store") /\ pc[a] = "copy"
        BY <1>5 DEF BlockCopy
      <3> QED BY <1>0, <2>1, <2>5, <3>1, InFlightEnter, ZenonT(60) DEF Holding
    <2>7. \A c \in Actors : pc[c] = "store" => blk[c] # b
      BY <1>0, <2>5 DEF InFlight, Holding
    <2>8. functions[b] = NoFn
      BY <1>0, <2>1 DEF FunctionsOfLive
    <2>9. /\ pc' = [pc EXCEPT ![a] = "store"] /\ pc[a] = "copy"
          /\ fn' = fn /\ functions' = functions /\ owned' = owned
      BY <1>5 DEF BlockCopy
    <2>10. ASSUME NEW c \in Actors, pc'[c] = "store"
           PROVE  /\ InFlight(blk[c])' = {c} /\ owned'[blk'[c]] = 0
                  /\ functions'[blk'[c]] = NoFn /\ fn'[c] = madeOf'[blk'[c]]
      <3>1. CASE c = a
        BY <1>0, <2>1, <2>4, <2>6, <2>8, <2>9, <3>1 DEF TypeOK
      <3>2. CASE c # a
        <4>1. pc[c] = "store" /\ blk'[c] = blk[c] /\ blk[c] \in Addrs
          BY <1>0, <2>1, <2>9, <2>10, <3>2 DEF TypeOK, Disposals, Holding
        <4> QED BY <1>0, <2>1, <2>6, <2>7, <2>9, <4>1 DEF TypeOK, Entered
      <3> QED BY <3>1, <3>2
    <2>11. ASSUME NEW d \in Addrs, heap'[d] = "live"
           PROVE  functions'[d] = madeOf'[d]
                  \/ \E c \in Actors : pc'[c] = "store" /\ blk'[c] = d
      <3>1. CASE d = b
        BY <1>0, <2>1, <2>9, <3>1 DEF TypeOK
      <3>2. CASE d # b
        BY <1>0, <2>1, <2>9, <2>11, <3>2 DEF TypeOK, Entered
      <3> QED BY <3>1, <3>2
    <2> QED BY <2>10, <2>11 DEF Entered
  <1>6. ASSUME NEW a \in Actors, FinishNewBlock(a) PROVE Entered'
    <2>0. PICK b \in Addrs : b = blk[a]
      BY <1>0, <1>6 DEF FinishNewBlock, Disposals, Holding
    <2>1. b \in Addrs /\ InFlight(b) = {a} /\ fn[a] = madeOf[b]
      BY <2>0, <1>0, <1>6 DEF FinishNewBlock, Disposals, Entered, Holding
    <2>2. \A d : d # b => InFlight(d)' = InFlight(d)
      BY <2>0, <1>0, <1>6, InFlightLeave DEF FinishNewBlock, Holding
    <2>3. \A c \in Actors : c # a /\ pc[c] = "store" => blk[c] # b
      BY <2>0, <2>1 DEF InFlight, Holding
    <2> QED BY <2>0, <1>0, <1>6, <2>1, <2>2, <2>3 DEF FinishNewBlock, Store, Entered, TypeOK
  <1>7. ASSUME NEW a \in Actors, Dispose(a) PROVE Entered'
    <2>1. \A d : InFlight(d)' = InFlight(d)
      BY <1>0, <1>7, InFlightSame DEF Dispose, Holding
    <2>2. blk[a] \in Addrs /\ heap[blk[a]] # "live"
      BY <1>0, <1>7 DEF Dispose, Disposals
    <2>3. \A c \in Actors : pc[c] = "store" => heap[blk[c]] = "live"
      BY <1>0, HeldLive DEF Holding
    <2> QED BY <1>0, <1>7, <2>1, <2>2, <2>3 DEF Dispose, Delete, Entered, TypeOK
  <1>8. ASSUME NEW a \in Actors, Free(a) PROVE Entered'
    <2>1. \A d : InFlight(d)' = InFlight(d)
      BY <1>0, <1>8, InFlightSame DEF Free, Holding
    <2> QED BY <1>0, <1>8, <2>1 DEF Free, Entered, TypeOK
  <1>9. ASSUME NEW a \in Actors, Finish(a) PROVE Entered'
    <2>1. \A d : InFlight(d)' = InFlight(d)
      BY <1>0, <1>9, InFlightSame DEF Finish, Holding
    <2> QED BY <1>0, <1>9, <2>1 DEF Finish, Entered, TypeOK
  <1>10. ASSUME NEW a \in Actors, Load(a) PROVE Entered'
    <2>1. \A d : InFlight(d)' = InFlight(d)
      BY <1>0, <1>10, InFlightStays DEF Load, Holding
    <2> QED BY <1>0, <1>10, <2>1 DEF Load, Entered, TypeOK
  <1>11. ASSUME NEW a \in Actors, Called(a) PROVE Entered'
    <2>1. \A d : InFlight(d)' = InFlight(d)
      BY <1>0, <1>11, InFlightStays DEF Called, Holding
    <2> QED BY <1>0, <1>11, <2>1 DEF Called, Entered, TypeOK
  <1>12. ASSUME NEW a \in Actors, ReleaseOwn(a) PROVE Entered'
    <2>0. PICK b \in Addrs : b = blk[a]
      BY <1>0, <1>12 DEF ReleaseOwn, Disposals, Holding
    <2>1. b \in Addrs /\ a \in InFlight(b)
      BY <2>0, <1>0, <1>12 DEF ReleaseOwn, Disposals, Holding, InFlight
    <2>a. PICK l \in {"idle", "dispose"} : Goto(a, l)
      BY <2>0, <1>12 DEF ReleaseOwn, Drop
    <2>b. \A c \in Actors : blk'[c] = blk[c]
      BY <2>0, <1>0, <1>12 DEF ReleaseOwn, Drop, TypeOK
    <2>2. \A d : d # b => InFlight(d)' = InFlight(d)
      BY <2>0, <1>0, <1>12, <2>a, <2>b, InFlightLeave DEF ReleaseOwn, Holding
    <2>3. \A c \in Actors : pc[c] = "store" => blk[c] # b
      BY <2>0, <1>0, <1>12, <2>1 DEF ReleaseOwn, Entered
    <2>4. \A d \in Addrs : heap'[d] = "live" => heap[d] = "live"
      BY <2>0, <1>0, <1>12 DEF ReleaseOwn, Drop, TypeOK
    <2> QED BY <2>0, <1>0, <1>12, <2>a, <2>b, <2>2, <2>3, <2>4 DEF ReleaseOwn, Entered, TypeOK
  <1>13. ASSUME NEW a \in Actors, NEW b \in Addrs, Copy(a, b) PROVE Entered'
    <2>1. \A d : InFlight(d)' = InFlight(d)
      BY <1>13 DEF Copy, InFlight
    <2>2. \A c \in Actors : pc[c] = "store" => blk[c] # b
      BY <1>0, <1>13 DEF Copy, Entered
    <2> QED BY <1>0, <1>13, <2>1, <2>2 DEF Copy, Entered, TypeOK
  <1>14. ASSUME NEW a \in Actors, NEW b \in Addrs, Release(a, b) PROVE Entered'
    <2>a. PICK l \in {"idle", "dispose"} : Goto(a, l)
      BY <1>14 DEF Release, Drop
    <2>b. \A c \in Actors \ {a} : blk'[c] = blk[c]
      BY <1>0, <1>14 DEF Release, Drop, TypeOK
    <2>1. \A d : InFlight(d)' = InFlight(d)
      BY <1>0, <1>14, <2>a, <2>b, InFlightSame DEF Release, Holding
    <2>2. \A c \in Actors : pc[c] = "store" => blk[c] # b
      BY <1>0, <1>14 DEF Release, Entered
    <2>3. \A d \in Addrs : heap'[d] = "live" => heap[d] = "live"
      BY <1>0, <1>14 DEF Release, Drop, TypeOK
    <2> QED BY <1>0, <1>14, <2>a, <2>b, <2>1, <2>2, <2>3 DEF Release, Entered, TypeOK
  <1>15. ASSUME NEW a \in Actors, NEW b \in Addrs, Invoke(a, b) PROVE Entered'
    <2>0. \A c \in Actors \ {a} : blk'[c] = blk[c]
      BY <1>0, <1>15 DEF Invoke, TypeOK
    <2>a. Goto(a, "running") /\ pc[a] = "idle"
      BY <1>15 DEF Invoke
    <2>1. \A d : InFlight(d)' = InFlight(d)
      BY <1>0, <2>0, <2>a, InFlightSame DEF Holding
    <2> QED BY <1>0, <1>15, <2>1 DEF Invoke, Entered, TypeOK
  <1>16. ASSUME NEW a \in Actors, NEW b \in Addrs, InvokeBlock(a, b) PROVE Entered'
    <2>1. \A d : d # b => InFlight(d)' = InFlight(d)
      BY <1>0, <1>16, InFlightEnter DEF InvokeBlock, Holding
    <2>2. \A c \in Actors : pc[c] = "store" => blk[c] # b
      BY <1>0, <1>16 DEF InvokeBlock, Entered
    <2> QED BY <1>0, <1>16, <2>1, <2>2 DEF InvokeBlock, Entered, TypeOK
  <1>17. CASE UNCHANGED vars
    <2>1. \A d : InFlight(d)' = InFlight(d)
      BY <1>17 DEF vars, InFlight
    <2> QED BY <1>0, <1>17, <2>1 DEF vars, Entered
  <1> QED BY <1>1, <1>2, <1>3, <1>4, <1>5, <1>6, <1>7, <1>8, <1>9, <1>10,
     <1>11, <1>12, <1>13, <1>14, <1>15, <1>16, <1>17 DEF Next, Body

(* Every step (objc_block_darwin.go:146-154) keeps the disposal of a block   *)
(* to one actor.                                                             *)
LEMMA NextDisposals == IndInv /\ [Next]_vars => Disposals'
  <1> SUFFICES ASSUME IndInv, [Next]_vars PROVE Disposals'
    OBVIOUS
  <1> USE DEF Goto, actorVars, cacheVars, blockVars
  <1>0. TypeOK /\ RefsCounted /\ Entered /\ Disposals /\ FunctionsOfLive
    BY DEF IndInv
  <1>f. Fresh
    BY FreshTokens
  <1>1. ASSUME NEW a \in Actors, NewBlock(a) PROVE Disposals'
    BY <1>0, <1>f, <1>1 DEF NewBlock, Disposals, TypeOK, Holding
  <1>2. ASSUME NEW a \in Actors, GetLayout(a) PROVE Disposals'
    BY <1>0, <1>f, <1>2 DEF GetLayout, Disposals, TypeOK, Holding
  <1>3. ASSUME NEW a \in Actors, Encode(a) PROVE Disposals'
    BY <1>0, <1>f, <1>3 DEF Encode, Disposals, TypeOK, Holding
  <1>4. ASSUME NEW a \in Actors, NewCallback(a) PROVE Disposals'
    BY <1>0, <1>f, <1>4 DEF NewCallback, Disposals, TypeOK, Holding
  <1>5. ASSUME NEW a \in Actors, BlockCopy(a) PROVE Disposals'
    <2>1. PICK d \in Addrs :
            /\ heap[d] = "free"
            /\ heap' = [heap EXCEPT ![d] = "live"]
            /\ blk' = [blk EXCEPT ![a] = d]
      BY <1>5 DEF BlockCopy
    <2>2. \A c \in Actors : pc[c] \in {"dispose", "free"} => blk[c] # d
      BY <1>0, <2>1 DEF Disposals
    <2> QED BY <1>0, <1>5, <2>1, <2>2 DEF BlockCopy, Disposals, TypeOK, Holding
  <1>6. ASSUME NEW a \in Actors, FinishNewBlock(a) PROVE Disposals'
    <2>1. blk[a] \in Addrs /\ heap[blk[a]] = "live"
      BY <1>0, <1>6, HeldLive DEF FinishNewBlock, Holding
    <2>2. \A c \in Actors : pc[c] \in {"dispose", "free"} => blk[c] # blk[a]
      BY <1>0, <2>1 DEF Disposals
    <2> QED BY <1>0, <1>6, <2>1, <2>2
          DEF FinishNewBlock, Store, Disposals, TypeOK, Holding
  <1>7. ASSUME NEW a \in Actors, Dispose(a) PROVE Disposals'
    BY <1>0, <1>f, <1>7 DEF Dispose, Delete, Disposals, TypeOK, Holding
  <1>8. ASSUME NEW a \in Actors, Free(a) PROVE Disposals'
    BY <1>0, <1>f, <1>8 DEF Free, Disposals, TypeOK, Holding
  <1>9. ASSUME NEW a \in Actors, Finish(a) PROVE Disposals'
    BY <1>0, <1>f, <1>9 DEF Finish, Disposals, TypeOK, Holding
  <1>10. ASSUME NEW a \in Actors, Load(a) PROVE Disposals'
    BY <1>0, <1>f, <1>10 DEF Load, Disposals, TypeOK, Holding
  <1>11. ASSUME NEW a \in Actors, Called(a) PROVE Disposals'
    BY <1>0, <1>f, <1>11 DEF Called, Disposals, TypeOK, Holding
  <1>12. ASSUME NEW a \in Actors, ReleaseOwn(a) PROVE Disposals'
    <2>1. PICK d \in Addrs : d = blk[a] /\ heap[d] = "live" /\ Drop(a, d)
      BY <1>0, <1>12, HeldLive DEF ReleaseOwn, Holding
    <2>2. \A c \in Actors : pc[c] \in {"dispose", "free"} => blk[c] # d
      BY <1>0, <2>1 DEF Disposals
    <2> QED BY <1>0, <1>12, <2>1, <2>2 DEF ReleaseOwn, Drop, Disposals, TypeOK, Holding
  <1>13. ASSUME NEW a \in Actors, NEW b \in Addrs, Copy(a, b) PROVE Disposals'
    BY <1>0, <1>f, <1>13 DEF Copy, Disposals, TypeOK, Holding
  <1>14. ASSUME NEW a \in Actors, NEW b \in Addrs, Release(a, b) PROVE Disposals'
    <2>1. heap[b] = "live"
      BY <1>0, <1>14, OwnedLive DEF Release
    <2>2. \A c \in Actors : pc[c] \in {"dispose", "free"} => blk[c] # b
      BY <1>0, <2>1 DEF Disposals
    <2> QED BY <1>0, <1>14, <2>1, <2>2 DEF Release, Drop, Disposals, TypeOK, Holding
  <1>15. ASSUME NEW a \in Actors, NEW b \in Addrs, Invoke(a, b) PROVE Disposals'
    BY <1>0, <1>f, <1>15 DEF Invoke, Disposals, TypeOK, Holding
  <1>16. ASSUME NEW a \in Actors, NEW b \in Addrs, InvokeBlock(a, b) PROVE Disposals'
    BY <1>0, <1>f, <1>16 DEF InvokeBlock, Disposals, TypeOK, Holding
  <1>17. CASE UNCHANGED vars
    BY <1>0, <1>17 DEF vars, Disposals, TypeOK, Holding
  <1> QED BY <1>1, <1>2, <1>3, <1>4, <1>5, <1>6, <1>7, <1>8, <1>9, <1>10,
     <1>11, <1>12, <1>13, <1>14, <1>15, <1>16, <1>17 DEF Next, Body

(* Every step (objc_block_darwin.go:60-64, 154) keeps functions under the    *)
(* addresses of blocks that exist only.                                      *)
LEMMA NextFunctions == IndInv /\ [Next]_vars => FunctionsOfLive'
  <1> SUFFICES ASSUME IndInv, [Next]_vars PROVE FunctionsOfLive'
    OBVIOUS
  <1> USE DEF Goto, actorVars, cacheVars, blockVars
  <1>0. TypeOK /\ MutexHeld /\ RefsCounted /\ Entered /\ Disposals /\ FunctionsOfLive
    BY DEF IndInv
  <1>f. Fresh
    BY FreshTokens
  <1>1. ASSUME NEW a \in Actors, NewBlock(a) PROVE FunctionsOfLive'
    BY <1>0, <1>f, <1>1 DEF NewBlock, FunctionsOfLive, TypeOK
  <1>2. ASSUME NEW a \in Actors, GetLayout(a) PROVE FunctionsOfLive'
    BY <1>0, <1>f, <1>2 DEF GetLayout, FunctionsOfLive, TypeOK
  <1>3. ASSUME NEW a \in Actors, Encode(a) PROVE FunctionsOfLive'
    BY <1>0, <1>f, <1>3 DEF Encode, FunctionsOfLive, TypeOK
  <1>4. ASSUME NEW a \in Actors, NewCallback(a) PROVE FunctionsOfLive'
    BY <1>0, <1>f, <1>4 DEF NewCallback, FunctionsOfLive, TypeOK
  <1>5. ASSUME NEW a \in Actors, BlockCopy(a) PROVE FunctionsOfLive'
    BY <1>0, <1>f, <1>5 DEF BlockCopy, FunctionsOfLive, TypeOK
  <1>6. ASSUME NEW a \in Actors, FinishNewBlock(a) PROVE FunctionsOfLive'
    <2>1. blk[a] \in Addrs /\ heap[blk[a]] = "live"
      BY <1>0, <1>6, HeldLive DEF FinishNewBlock, Holding
    <2> QED BY <1>0, <1>6, <2>1 DEF FinishNewBlock, Store, FunctionsOfLive, TypeOK
  <1>7. ASSUME NEW a \in Actors, Dispose(a) PROVE FunctionsOfLive'
    BY <1>0, <1>f, <1>7 DEF Dispose, Delete, FunctionsOfLive, TypeOK
  <1>8. ASSUME NEW a \in Actors, Free(a) PROVE FunctionsOfLive'
    <2>1. blk[a] \in Addrs /\ functions[blk[a]] = NoFn
      BY <1>0, <1>8 DEF Free, Disposals
    <2> QED BY <1>0, <1>8, <2>1 DEF Free, FunctionsOfLive, TypeOK
  <1>9. ASSUME NEW a \in Actors, Finish(a) PROVE FunctionsOfLive'
    BY <1>0, <1>f, <1>9 DEF Finish, FunctionsOfLive, TypeOK
  <1>10. ASSUME NEW a \in Actors, Load(a) PROVE FunctionsOfLive'
    BY <1>0, <1>f, <1>10 DEF Load, FunctionsOfLive, TypeOK
  <1>11. ASSUME NEW a \in Actors, Called(a) PROVE FunctionsOfLive'
    BY <1>0, <1>f, <1>11 DEF Called, FunctionsOfLive, TypeOK
  <1>12. ASSUME NEW a \in Actors, ReleaseOwn(a) PROVE FunctionsOfLive'
    BY <1>0, <1>f, <1>12 DEF ReleaseOwn, Drop, FunctionsOfLive, TypeOK
  <1>13. ASSUME NEW a \in Actors, NEW b \in Addrs, Copy(a, b) PROVE FunctionsOfLive'
    BY <1>0, <1>f, <1>13 DEF Copy, FunctionsOfLive, TypeOK
  <1>14. ASSUME NEW a \in Actors, NEW b \in Addrs, Release(a, b) PROVE FunctionsOfLive'
    BY <1>0, <1>f, <1>14 DEF Release, Drop, FunctionsOfLive, TypeOK
  <1>15. ASSUME NEW a \in Actors, NEW b \in Addrs, Invoke(a, b) PROVE FunctionsOfLive'
    BY <1>0, <1>f, <1>15 DEF Invoke, FunctionsOfLive, TypeOK
  <1>16. ASSUME NEW a \in Actors, NEW b \in Addrs, InvokeBlock(a, b) PROVE FunctionsOfLive'
    BY <1>0, <1>f, <1>16 DEF InvokeBlock, FunctionsOfLive, TypeOK
  <1>17. CASE UNCHANGED vars
    BY <1>0, <1>17 DEF vars, FunctionsOfLive, TypeOK
  <1> QED BY <1>1, <1>2, <1>3, <1>4, <1>5, <1>6, <1>7, <1>8, <1>9, <1>10,
     <1>11, <1>12, <1>13, <1>14, <1>15, <1>16, <1>17 DEF Next, Body

(* Every step (objc_block_darwin.go:189-191) keeps that InvokeBlock calls    *)
(* the function its block was made of.                                       *)
LEMMA NextCalledOwn == IndInv /\ [Next]_vars => CalledOwn'
  <1> SUFFICES ASSUME IndInv, [Next]_vars PROVE CalledOwn'
    OBVIOUS
  <1> USE DEF Goto, actorVars, cacheVars, blockVars
  <1>0. TypeOK /\ RefsCounted /\ Entered /\ Disposals /\ CalledOwn
    BY DEF IndInv
  <1>f. Fresh
    BY FreshTokens
  <1>1. ASSUME NEW a \in Actors, NewBlock(a) PROVE CalledOwn'
    BY <1>0, <1>f, <1>1 DEF NewBlock, CalledOwn, TypeOK
  <1>2. ASSUME NEW a \in Actors, GetLayout(a) PROVE CalledOwn'
    BY <1>0, <1>f, <1>2 DEF GetLayout, CalledOwn, TypeOK
  <1>3. ASSUME NEW a \in Actors, Encode(a) PROVE CalledOwn'
    BY <1>0, <1>f, <1>3 DEF Encode, CalledOwn, TypeOK
  <1>4. ASSUME NEW a \in Actors, NewCallback(a) PROVE CalledOwn'
    BY <1>0, <1>f, <1>4 DEF NewCallback, CalledOwn, TypeOK
  <1>5. ASSUME NEW a \in Actors, BlockCopy(a) PROVE CalledOwn'
    <2>1. \A c \in Actors : pc[c] = "calling" => heap[blk[c]] = "live"
      BY <1>0, HeldLive DEF Holding
    <2> QED BY <1>0, <1>5, <2>1 DEF BlockCopy, CalledOwn, TypeOK
  <1>6. ASSUME NEW a \in Actors, FinishNewBlock(a) PROVE CalledOwn'
    BY <1>0, <1>f, <1>6 DEF FinishNewBlock, Store, CalledOwn, TypeOK
  <1>7. ASSUME NEW a \in Actors, Dispose(a) PROVE CalledOwn'
    BY <1>0, <1>f, <1>7 DEF Dispose, Delete, CalledOwn, TypeOK
  <1>8. ASSUME NEW a \in Actors, Free(a) PROVE CalledOwn'
    BY <1>0, <1>f, <1>8 DEF Free, CalledOwn, TypeOK
  <1>9. ASSUME NEW a \in Actors, Finish(a) PROVE CalledOwn'
    BY <1>0, <1>f, <1>9 DEF Finish, CalledOwn, TypeOK
  <1>10. ASSUME NEW a \in Actors, Load(a) PROVE CalledOwn'
    <2> DEFINE b == blk[a]
    <2>1. b \in Addrs /\ heap[b] = "live" /\ a \in InFlight(b)
      BY <1>0, <1>10, HeldLive DEF Load, Holding, InFlight
    <2>2. \A c \in Actors : ~ (pc[c] = "store" /\ blk[c] = b)
      BY <1>0, <1>10, <2>1 DEF Load, Entered
    <2>3. functions[b] = madeOf[b]
      BY <1>0, <2>1, <2>2 DEF Entered
    <2> QED BY <1>0, <1>10, <2>1, <2>3 DEF Load, CalledOwn, TypeOK
  <1>11. ASSUME NEW a \in Actors, Called(a) PROVE CalledOwn'
    BY <1>0, <1>f, <1>11 DEF Called, CalledOwn, TypeOK
  <1>12. ASSUME NEW a \in Actors, ReleaseOwn(a) PROVE CalledOwn'
    BY <1>0, <1>f, <1>12 DEF ReleaseOwn, Drop, CalledOwn, TypeOK
  <1>13. ASSUME NEW a \in Actors, NEW b \in Addrs, Copy(a, b) PROVE CalledOwn'
    BY <1>0, <1>f, <1>13 DEF Copy, CalledOwn, TypeOK
  <1>14. ASSUME NEW a \in Actors, NEW b \in Addrs, Release(a, b) PROVE CalledOwn'
    BY <1>0, <1>f, <1>14 DEF Release, Drop, CalledOwn, TypeOK
  <1>15. ASSUME NEW a \in Actors, NEW b \in Addrs, Invoke(a, b) PROVE CalledOwn'
    BY <1>0, <1>f, <1>15 DEF Invoke, CalledOwn, TypeOK
  <1>16. ASSUME NEW a \in Actors, NEW b \in Addrs, InvokeBlock(a, b) PROVE CalledOwn'
    BY <1>0, <1>f, <1>16 DEF InvokeBlock, CalledOwn, TypeOK
  <1>17. CASE UNCHANGED vars
    BY <1>0, <1>17 DEF vars, CalledOwn, TypeOK
  <1> QED BY <1>1, <1>2, <1>3, <1>4, <1>5, <1>6, <1>7, <1>8, <1>9, <1>10,
     <1>11, <1>12, <1>13, <1>14, <1>15, <1>16, <1>17 DEF Next, Body

(* Blocks keeps IndInv, whatever its actors do (objc_block_darwin.go:38-204).*)
THEOREM Induction == Spec => []IndInv
  <1>1. IndInv /\ [Next]_vars => IndInv'
    BY NextTypes, NextMutex, NextCallbacks, NextRefs, NextEntered, NextDisposals,
       NextFunctions, NextCalledOwn DEF IndInv
  <1> QED BY <1>1, InitInv, PTL DEF Spec

(* The cache, the map and the heap of blocks keep their types; counts of     *)
(* references do not fall below zero (objc_block_darwin.go:159-167).         *)
THEOREM TypeCorrect == Spec => []TypeOK
  <1>1. IndInv => TypeOK
    BY DEF IndInv
  <1> QED BY <1>1, Induction, PTL

(* A block somebody owns leads to the function it was made of                *)
(* (objc_block_darwin.go:185, 133), whatever is made, copied, invoked and    *)
(* released meanwhile, and however addresses are used again.                 *)
THEOREM BlockLeadsToFunction == Spec => []FunctionOfBlock
  <1>1. IndInv => FunctionOfBlock
    BY OwnedLive DEF IndInv, FunctionOfBlock
  <1> QED BY <1>1, Induction, PTL

(* No function stays in the map under an address that is free                *)
(* (objc_block_darwin.go:154, 60-64).                                        *)
THEOREM MapOfExistingBlocks == Spec => []FunctionsOfLive
  <1>1. IndInv => FunctionsOfLive
    BY DEF IndInv
  <1> QED BY <1>1, Induction, PTL

(* While InvokeBlock runs a function, its block exists, and the function is  *)
(* the block's (objc_block_darwin.go:189-191).                               *)
THEOREM CalledWhileLive == Spec => []CalledLive
  <1>1. IndInv => CalledLive
    BY HeldLive DEF IndInv, CalledLive, CalledOwn, Holding
  <1> QED BY <1>1, Induction, PTL

(* A function type costs one callback (objc_block_darwin.go:111-138),        *)
(* however many actors make their first block of it at once.                 *)
THEOREM CallbackPerType == Spec => []OneCallbackPerType
  <1>1. IndInv => OneCallbackPerType
    BY DEF IndInv
  <1> QED BY <1>1, Induction, PTL
=============================================================================
