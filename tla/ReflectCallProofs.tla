------------------------- MODULE ReflectCallProofs -------------------------
(***************************************************************************)
(* Proofs, for every set of calls, goroutines, threads and contexts, that  *)
(* the reflect path keeps its contexts, arguments, errors and thread locks *)
(* apart.                                                                  *)
(***************************************************************************)
EXTENDS ReflectCall, SequenceTheorems, TLAPS

LEMMA ShapeTyping == Shapes \cup {NoShape} \subseteq ShapeType
  <1>1. NoShape \in ShapeType
    <2>1. 0 \in 0..MaxArgs
      BY ConstantsAssumption
    <2>2. FALSE \in BOOLEAN
      BY Zenon
    <2> QED
      BY <2>1, <2>2, Zenon DEF NoShape, ShapeType
  <1> QED
    BY <1>1, ConstantsAssumption

LEMMA FunctionIsSeq ==
  ASSUME NEW n \in Nat, NEW S, NEW f \in [1..n -> S]
  PROVE  f \in Seq(S)
  BY SeqDef, Zenon

LEMMA InitInd == Init => IndInv
  <1> SUFFICES ASSUME Init PROVE IndInv
    OBVIOUS
  <1> USE ConstantsAssumption DEF Init
  <1>1. TypeOK
    BY DEF TypeOK, Holding, PCs, Empty, Tokens, Slots, NoShape
  <1>2. FreshFrames /\ Stacked /\ CtxExclusive /\ Packed
    BY DEF FreshFrames, Stacked, Active, CtxExclusive, Packed, Holding
  <1>3. CleanPool /\ LockSteps /\ LockBalanced /\ ErrnoTracked /\ ErrnoOwn
        /\ OutcomeTracked
    BY DEF CleanPool, LockSteps, LockBalanced, ErrnoTracked, Locked, Holding, ErrnoOwn,
           OutcomeTracked, OutcomeOf
  <1> QED
    BY <1>1, <1>2, <1>3 DEF IndInv

\* A closure that panics is on its way through its deferred functions, with
\* the context it had.
LEMMA PanicTypes ==
  ASSUME TypeOK, NEW k \in Holding, Panic(k)
  PROVE  /\ pc' \in [Calls -> PCs]
         /\ panicking' \in [Calls -> BOOLEAN]
         /\ Holding' = Holding
  BY DEF TypeOK, Panic, Deferred, Goto, PCs, Holding

\* The step that ends a call takes it off those holding a context, and no
\* other call with it: an outer call it unwinds was in C.
LEMMA PutHolding ==
  ASSUME TypeOK, Stacked, NEW k \in Calls, Put(k)
  PROVE  Holding' = Holding \ {k}
  <1> USE DEF TypeOK, Holding
  <1>1. pc[k] = "put" /\ k \in Active
    BY DEF Put, Active
  <1>2. CASE Goto(k, "done")
    BY <1>1, <1>2 DEF Goto
  <1>3. CASE parent[k] # NoCall
             /\ pc' = [pc EXCEPT ![k] = "done", ![parent[k]] = Deferred(parent[k])]
    <2>1. parent[k] \in Calls /\ pc[parent[k]] = "inC"
      BY <1>1, <1>3 DEF Stacked
    <2>2. Deferred(parent[k]) \in {"unlock", "put"}
      BY DEF Deferred
    <2> QED
      BY <1>1, <1>3, <2>1, <2>2
  <1> QED
    BY <1>2, <1>3 DEF Put

LEMMA NextTypes == TypeOK /\ FreshFrames /\ Stacked /\ [Next]_vars => TypeOK'
  <1> SUFFICES ASSUME TypeOK, FreshFrames, Stacked, [Next]_vars
               PROVE  TypeOK'
    OBVIOUS
  <1> USE ConstantsAssumption DEF TypeOK
  <1>1. ASSUME NEW k \in Calls, Invoke(k) PROVE TypeOK'
    <2>1. PICK s \in Shapes : shape' = [shape EXCEPT ![k] = s]
      BY <1>1 DEF Invoke
    <2>2. s.argc \in Nat
      BY ShapeTyping DEF ShapeType
    <2> QED
      BY <1>1, <2>1, <2>2 DEF Invoke, Goto, FreshFrames, Holding, PCs, localVars, poolVars,
                              runtimeVars, memVars, ghostVars
  <1>2. ASSUME NEW k \in Calls, Get(k) PROVE TypeOK'
    BY <1>2 DEF Get, Take, Goto, Holding, PCs, stackVars, runtimeVars, memVars, ghostVars
  <1>3. ASSUME NEW k \in Calls, LockOSThread(k) PROVE TypeOK'
    BY <1>3 DEF LockOSThread, Goto, Holding, PCs, localVars, stackVars, poolVars, memVars,
                ghostVars
  <1>4. ASSUME NEW k \in Calls, ClearErrno(k) PROVE TypeOK'
    <2>1. errno' \in [Threads -> Errnos \cup {0}]
      BY <1>4 DEF ClearErrno, WriteErrno, Thread
    <2>2. left' \in [Calls -> Errnos \cup {0}]
      BY <1>4 DEF ClearErrno, WriteErrno
    <2>3. errnoPtr' \in [Calls -> Threads \cup {NoThread}]
      <3>1. Thread(k) \in Threads
        BY DEF Thread
      <3> QED
        BY <1>4, <3>1, ZenonT(60) DEF ClearErrno
    <2>4. pc' \in [Calls -> PCs] /\ Holding' = Holding
      BY <1>4 DEF ClearErrno, Goto, Holding, PCs
    <2> QED
      BY <1>4, <2>1, <2>2, <2>3, <2>4 DEF ClearErrno, stackVars, poolVars, memVars
  <1>5. ASSUME NEW k \in Calls, PackArg(k) PROVE TypeOK'
    <2>0. k \in Holding
      BY <1>5 DEF PackArg, Holding
    <2>1. CASE Panic(k) /\ UNCHANGED <<ffiArgs, keepAlive, ffiArgsCount, keepAliveCount>>
      BY <1>5, <2>0, <2>1, PanicTypes
      DEF PackArg, stackVars, runtimeVars, poolVars, ghostVars
    <2>2. CASE /\ ffiArgsCount[k] < Cap
               /\ StoreArg(k, ffiArgsCount[k] + 1) /\ UNCHANGED <<pc, panicking>>
      <3>1. shape[k].argc \in 0..MaxArgs
        BY ShapeTyping DEF ShapeType
      <3>2. <<k, ffiArgsCount[k] + 1>> \in Tokens
        BY <1>5, <3>1 DEF PackArg, Tokens
      <3>3. ffiArgs' \in [Ctxs -> [Slots -> Tokens \cup {Nil}]]
        BY <2>2, <3>2 DEF StoreArg
      <3>4. keepAlive' \in [Ctxs -> [Slots -> Tokens \cup {Nil}]]
        BY <2>2, <3>2 DEF StoreArg
      <3>5. ffiArgsCount' \in [Calls -> 0..Cap]
        BY <2>2 DEF StoreArg
      <3>6. keepAliveCount' \in [Calls -> 0..Cap]
        BY <2>2 DEF StoreArg
      <3>7. \A j \in Calls : keepAliveCount'[j] <= ffiArgsCount'[j]
        BY <1>5, <2>2 DEF StoreArg, PackArg
      <3>8. \A j \in Calls : ffiArgsCount'[j] <= shape[j].argc
        BY <1>5, <2>2, <3>1 DEF StoreArg, PackArg
      <3> QED
        BY <1>5, <2>2, <3>3, <3>4, <3>5, <3>6, <3>7, <3>8
        DEF PackArg, Holding, stackVars, runtimeVars, poolVars, ghostVars
    <2> QED
      BY <1>5, <2>1, <2>2 DEF PackArg
  <1>6. ASSUME NEW k \in Calls, Prepare(k) PROVE TypeOK'
    <2>0. k \in Holding
      BY <1>6 DEF Prepare, Holding
    <2>1. pc' \in [Calls -> PCs] /\ panicking' \in [Calls -> BOOLEAN] /\ Holding' = Holding
      <3>1. CASE Panic(k)
        BY <2>0, <3>1, PanicTypes
      <3>2. CASE Goto(k, "call") /\ UNCHANGED panicking
        BY <2>0, <3>2 DEF Goto, Holding, PCs
      <3> QED
        BY <1>6, <3>1, <3>2 DEF Prepare
    <2> QED
      BY <1>6, <2>1 DEF Prepare, localVars, stackVars, runtimeVars, poolVars, memVars, ghostVars
  <1>7. ASSUME NEW k \in Calls, CallFunction(k) PROVE TypeOK'
    <2>0. k \in Holding
      BY <1>7 DEF CallFunction, Holding
    <2>1. pc' \in [Calls -> PCs] /\ panicking' \in [Calls -> BOOLEAN] /\ Holding' = Holding
      <3>1. CASE Panic(k)
        BY <2>0, <3>1, PanicTypes
      <3>2. CASE Goto(k, "inC") /\ UNCHANGED panicking
        BY <2>0, <3>2 DEF Goto, Holding, PCs
      <3> QED
        BY <1>7, <3>1, <3>2 DEF CallFunction
    <2>2. sees' \in [Calls -> Seq(Tokens \cup {Nil})]
      <3>1. ffiArgsCount[k] \in Nat /\ ctx[k] \in Ctxs
        BY <2>0 DEF Holding
      <3>2. \A i \in 1..ffiArgsCount[k] : ffiArgs[ctx[k]][i] \in Tokens \cup {Nil}
        BY <3>1 DEF Slots
      <3>3. [i \in 1..ffiArgsCount[k] |-> ffiArgs[ctx[k]][i]] \in Seq(Tokens \cup {Nil})
        <4> DEFINE seen == [i \in 1..ffiArgsCount[k] |-> ffiArgs[ctx[k]][i]]
        <4>1. seen \in [1..ffiArgsCount[k] -> Tokens \cup {Nil}]
          BY <3>2
        <4> QED
          BY <3>1, <4>1, FunctionIsSeq
      <3> QED
        BY <1>7, <3>3, ZenonT(60) DEF CallFunction
    <2> QED
      BY <1>7, <2>1, <2>2 DEF CallFunction, localVars, stackVars, runtimeVars, poolVars, memVars
  <1>8. ASSUME NEW k \in Calls, CSetErrno(k) PROVE TypeOK'
    BY <1>8 DEF CSetErrno, WriteErrno, Thread, Holding, localVars, stackVars, poolVars, memVars
  <1>9. ASSUME NEW k \in Calls, CReturn(k) PROVE TypeOK'
    BY <1>9 DEF CReturn, Goto, Holding, PCs, localVars, stackVars, runtimeVars, poolVars,
                ghostVars
  <1>10. ASSUME NEW k \in Calls, GetErr(k) PROVE TypeOK'
    BY <1>10 DEF GetErr, Goto, Holding, PCs, stackVars, runtimeVars, poolVars, memVars, ghostVars
  <1>11. ASSUME NEW k \in Calls, Unpack(k) PROVE TypeOK'
    <2>0. k \in Holding
      BY <1>11 DEF Unpack, Holding
    <2>1. pc' \in [Calls -> PCs] /\ panicking' \in [Calls -> BOOLEAN] /\ Holding' = Holding
      <3>1. CASE Panic(k)
        BY <2>0, <3>1, PanicTypes
      <3>2. CASE Goto(k, Deferred(k)) /\ UNCHANGED panicking
        BY <2>0, <3>2 DEF Goto, Deferred, Holding, PCs
      <3> QED
        BY <1>11, <3>1, <3>2 DEF Unpack
    <2>2. retVal' \in [Calls -> Calls \cup {Nil}]
      BY <1>11, <2>0, ZenonT(60) DEF Unpack
    <2> QED
      BY <1>11, <2>1, <2>2 DEF Unpack, stackVars, runtimeVars, poolVars, memVars, ghostVars
  <1>12. ASSUME NEW k \in Calls, UnlockOSThread(k) PROVE TypeOK'
    BY <1>12 DEF UnlockOSThread, Goto, Holding, PCs, localVars, stackVars, poolVars, memVars,
                 ghostVars
  <1>13. ASSUME NEW k \in Calls, Put(k) PROVE TypeOK'
    <2>0. ctx[k] \in Ctxs
      BY <1>13 DEF Put, Holding
    <2>1. ClearKeepAlive(k) \in [Slots -> Tokens \cup {Nil}]
      BY <2>0 DEF ClearKeepAlive
    <2>2. keepAlive' \in [Ctxs -> [Slots -> Tokens \cup {Nil}]]
      BY <1>13, <2>1 DEF Put
    <2>3. pc' \in [Calls -> PCs]
      <3>1. Deferred(parent[k]) \in PCs /\ "done" \in PCs
        BY DEF Deferred, PCs
      <3> QED
        BY <1>13, <3>1, ZenonT(60) DEF Put, Goto
    <2>4. panicking' \in [Calls -> BOOLEAN]
      BY <1>13 DEF Put
    <2>5. \A j \in Holding' : ctx'[j] \in Ctxs
      <3>1. Holding' = Holding \ {k} /\ Holding \subseteq Calls
        BY <1>13, PutHolding DEF Holding
      <3> QED
        BY <1>13, <3>1 DEF Put
    <2> QED
      BY <1>13, <2>0, <2>2, <2>3, <2>4, <2>5 DEF Put, runtimeVars, ghostVars
  <1>14. ASSUME NEW g \in Goroutines, Migrate(g) PROVE TypeOK'
    BY <1>14 DEF Migrate, Holding, localVars, stackVars, poolVars, memVars, ghostVars
  <1>15. ASSUME NEW c \in Ctxs, DropPooled(c) PROVE TypeOK'
    BY <1>15 DEF DropPooled, Empty, Holding, localVars, stackVars, runtimeVars, ghostVars
  <1>16. CASE UNCHANGED vars
    BY <1>16 DEF vars, Holding, localVars, stackVars, runtimeVars, poolVars, memVars, ghostVars
  <1> QED
    BY <1>1, <1>2, <1>3, <1>4, <1>5, <1>6, <1>7, <1>8, <1>9, <1>10, <1>11, <1>12,
       <1>13, <1>14, <1>15, <1>16 DEF Next, Closure

-----------------------------------------------------------------------------
\* The steps of a closure that holds its context before and after.
Middle(k) ==
    \/ LockOSThread(k) \/ ClearErrno(k) \/ PackArg(k) \/ Prepare(k)
    \/ CallFunction(k) \/ CReturn(k) \/ GetErr(k) \/ Unpack(k) \/ UnlockOSThread(k)

MidPCs == PCs \ {"idle", "get", "done"}

LEMMA MiddleStep ==
  ASSUME TypeOK, NEW k \in Calls, Middle(k)
  PROVE  /\ pc[k] \in MidPCs
         /\ \E l \in MidPCs : pc' = [pc EXCEPT ![k] = l]
         /\ UNCHANGED <<shape, gor, parent, top, pool, fresh, ctx, thread>>
         /\ \A j \in Calls \ {k} : /\ ffiArgsCount'[j] = ffiArgsCount[j]
                                   /\ keepAliveCount'[j] = keepAliveCount[j]
  <1> USE DEF TypeOK, MidPCs, PCs, Goto, localVars, stackVars, poolVars, runtimeVars
  <1>1. Deferred(k) \in MidPCs
    BY DEF Deferred
  <1>2. CASE LockOSThread(k)
    BY <1>2 DEF LockOSThread
  <1>3. CASE ClearErrno(k)
    BY <1>3 DEF ClearErrno
  <1>4. CASE PackArg(k)
    <2>1. CASE Panic(k) /\ UNCHANGED <<ffiArgs, keepAlive, ffiArgsCount, keepAliveCount>>
      BY <1>1, <1>4, <2>1 DEF PackArg, Panic
    <2>2. CASE StoreArg(k, ffiArgsCount[k] + 1) /\ UNCHANGED <<pc, panicking>>
      <3>1. pc' = [pc EXCEPT ![k] = "pack"] /\ pc[k] = "pack"
        BY <1>4, <2>2 DEF PackArg
      <3> QED
        BY <1>4, <2>2, <3>1 DEF PackArg, StoreArg
    <2> QED
      BY <1>4, <2>1, <2>2 DEF PackArg
  <1>5. CASE Prepare(k)
    BY <1>1, <1>5 DEF Prepare, Panic
  <1>6. CASE CallFunction(k)
    BY <1>1, <1>6 DEF CallFunction, Panic
  <1>7. CASE CReturn(k)
    BY <1>7 DEF CReturn
  <1>8. CASE GetErr(k)
    BY <1>8 DEF GetErr
  <1>9. CASE Unpack(k)
    BY <1>1, <1>9 DEF Unpack, Panic
  <1>10. CASE UnlockOSThread(k)
    BY <1>10 DEF UnlockOSThread
  <1> QED
    BY <1>2, <1>3, <1>4, <1>5, <1>6, <1>7, <1>8, <1>9, <1>10 DEF Middle

\* Only the innermost call of a goroutine moves.
LEMMA MiddleRuns ==
  ASSUME TypeOK, Stacked, NEW k \in Calls, Middle(k)
  PROVE  Runs(k)
  <1>1. k \in Active
    BY MiddleStep DEF MidPCs, PCs, Active
  <1>2. pc[k] # "inC" \/ Runs(k)
    BY DEF Middle, LockOSThread, ClearErrno, PackArg, Prepare, CallFunction, CReturn, GetErr,
           Unpack, UnlockOSThread
  <1> QED
    BY <1>1, <1>2 DEF Stacked

LEMMA NextStacked == TypeOK /\ FreshFrames /\ Stacked /\ [Next]_vars => FreshFrames' /\ Stacked'
  <1> SUFFICES ASSUME TypeOK, FreshFrames, Stacked, [Next]_vars
               PROVE  FreshFrames' /\ Stacked'
    OBVIOUS
  <1>1. ASSUME NEW k \in Calls, Invoke(k) PROVE FreshFrames' /\ Stacked'
    <2> DEFINE t == top[gor[k]]
    <2>1. /\ pc[k] = "idle" /\ pc' = [pc EXCEPT ![k] = "get"]
          /\ parent' = [parent EXCEPT ![k] = t] /\ top' = [top EXCEPT ![gor[k]] = k]
          /\ UNCHANGED <<gor, ffiArgsCount, keepAliveCount>>
          /\ t = NoCall \/ (t \in Calls /\ pc[t] = "inC" /\ gor[t] = gor[k])
      BY <1>1 DEF Invoke, Goto, localVars, InC
    <2>2. FreshFrames'
      BY <2>1 DEF FreshFrames, TypeOK
    <2>3. Active' = Active \cup {k} /\ k \notin Active
      BY <2>1 DEF Active, TypeOK
    <2>4. \A j \in Active : parent'[j] = parent[j] /\ parent[j] # k
      BY <2>1, <2>3, ConstantsAssumption DEF Stacked, TypeOK, Active
    <2>5. \A j \in Active' : pc'[j] # "inC" => Runs(j)'
      BY <2>1, <2>3, ConstantsAssumption DEF Stacked, TypeOK, Active, Runs
    <2>6. \A j \in Active' : parent'[j] # NoCall =>
            pc'[parent'[j]] = "inC" /\ gor'[parent'[j]] = gor'[j] /\ ~Runs(parent[j])'
      BY <2>1, <2>3, <2>4 DEF Stacked, TypeOK, Active, Runs
    <2>7. \A i, j \in Active' : parent'[i] = parent'[j] /\ parent'[j] # NoCall => i = j
      BY <2>1, <2>3, <2>4, SMTT(60) DEF Stacked, TypeOK, Active, Runs
    <2> QED
      BY <2>2, <2>5, <2>6, <2>7 DEF Stacked
  <1>2. ASSUME NEW k \in Calls, Get(k) PROVE FreshFrames' /\ Stacked'
    BY <1>2 DEF Get, Take, Goto, FreshFrames, Stacked, Active, TypeOK, Runs, stackVars
  <1>3. ASSUME NEW k \in Calls, Middle(k) PROVE FreshFrames' /\ Stacked'
    <2>1. FreshFrames'
      BY <1>3, MiddleStep DEF FreshFrames, TypeOK, MidPCs
    <2>2. Runs(k) /\ Active' = Active
      BY <1>3, MiddleStep, MiddleRuns, SMTT(60) DEF Active, TypeOK, MidPCs, PCs
    <2>3. \A j \in Active : parent[j] # k \/ k = NoCall
      BY <2>2 DEF Stacked
    <2>4. Stacked'
      BY <1>3, <2>2, <2>3, MiddleStep, ConstantsAssumption, SMTT(60) DEF Stacked, Active, TypeOK, Runs
    <2> QED
      BY <2>1, <2>4
  <1>4. ASSUME NEW k \in Calls, Put(k) PROVE FreshFrames' /\ Stacked'
    <2> DEFINE p == parent[k]
    <2>1. /\ pc[k] = "put" /\ top' = [top EXCEPT ![gor[k]] = p]
          /\ UNCHANGED <<gor, parent, ffiArgsCount, keepAliveCount>>
      BY <1>4 DEF Put
    <2>2. k \in Active /\ Runs(k)
      BY <2>1 DEF Active, Stacked
    <2>3. Deferred(p) \in {"unlock", "put"}
      BY DEF Deferred
    <2>4. p # NoCall => p \in Calls /\ pc[p] = "inC" /\ gor[p] = gor[k] /\ p # k
      BY <2>1, <2>2 DEF Stacked, TypeOK
    <2>5. /\ pc'[k] = "done"
          /\ \A j \in Calls \ {k, p} : pc'[j] = pc[j]
          /\ p # NoCall => pc'[p] \in {"inC", "unlock", "put"}
      BY <1>4, <2>1, <2>3, <2>4 DEF Put, Goto, TypeOK
    <2>6. Active' = Active \ {k}
      BY <2>1, <2>4, <2>5, ConstantsAssumption DEF Active
    <2>7. FreshFrames'
      BY <2>1, <2>4, <2>5, ConstantsAssumption, ZenonT(60) DEF FreshFrames, TypeOK
    <2>8. \A j \in Active' : parent[j] # k /\ (p # NoCall => parent[j] # p)
      BY <2>2, <2>6, ConstantsAssumption DEF Stacked
    <2>9. \A j \in Active' : pc'[j] # "inC" => Runs(j)'
      BY <2>1, <2>2, <2>4, <2>5, <2>6, ConstantsAssumption DEF Stacked, TypeOK, Active, Runs
    <2>10. \A j \in Active' : parent[j] # NoCall =>
             pc'[parent[j]] = "inC" /\ gor[parent[j]] = gor[j] /\ ~Runs(parent[j])'
      BY <2>1, <2>2, <2>4, <2>5, <2>6, <2>8 DEF Stacked, TypeOK, Active, Runs
    <2> QED
      BY <2>1, <2>6, <2>7, <2>9, <2>10 DEF Stacked
  <1>5. ASSUME NEW k \in Calls, CSetErrno(k) PROVE FreshFrames' /\ Stacked'
    BY <1>5 DEF CSetErrno, localVars, stackVars, FreshFrames, Stacked, Active, Runs
  <1>6. ASSUME NEW g \in Goroutines, Migrate(g) PROVE FreshFrames' /\ Stacked'
    BY <1>6 DEF Migrate, localVars, stackVars, FreshFrames, Stacked, Active, Runs
  <1>7. ASSUME NEW c \in Ctxs, DropPooled(c) PROVE FreshFrames' /\ Stacked'
    BY <1>7 DEF DropPooled, localVars, stackVars, FreshFrames, Stacked, Active, Runs
  <1>8. CASE UNCHANGED vars
    BY <1>8 DEF vars, localVars, stackVars, FreshFrames, Stacked, Active, Runs
  <1> QED
    BY <1>1, <1>2, <1>3, <1>4, <1>5, <1>6, <1>7, <1>8 DEF Next, Closure, Middle

-----------------------------------------------------------------------------
LEMMA NextExclusive ==
  TypeOK /\ Stacked /\ CtxExclusive /\ [Next]_vars => CtxExclusive'
  <1> SUFFICES ASSUME TypeOK, Stacked, CtxExclusive, [Next]_vars
               PROVE  CtxExclusive'
    OBVIOUS
  <1>1. ASSUME NEW k \in Calls, Invoke(k) PROVE CtxExclusive'
    BY <1>1 DEF Invoke, Goto, localVars, poolVars, CtxExclusive, Holding, TypeOK
  <1>2. ASSUME NEW k \in Calls, Get(k) PROVE CtxExclusive'
    <2>1. PICK c \in pool \cup fresh : Take(k, c)
      BY <1>2 DEF Get
    <2>2. Holding' = Holding \cup {k} /\ k \notin Holding
      BY <1>2 DEF Get, Goto, Holding, TypeOK
    <2>3. \A j \in Holding : ctx'[j] = ctx[j] /\ ctx[j] # c
      BY <2>1, <2>2 DEF Take, CtxExclusive, TypeOK, Holding
    <2>4. ctx'[k] = c
      BY <2>1 DEF Take, TypeOK
    <2> QED
      BY <2>1, <2>2, <2>3, <2>4 DEF Take, CtxExclusive
  <1>3. ASSUME NEW k \in Calls, Middle(k) PROVE CtxExclusive'
    <2>1. Holding' = Holding
      BY <1>3, MiddleStep DEF Holding, MidPCs, PCs, TypeOK
    <2> QED
      BY <1>3, <2>1, MiddleStep DEF CtxExclusive
  <1>4. ASSUME NEW k \in Calls, Put(k) PROVE CtxExclusive'
    <2>1. Holding' = Holding \ {k} /\ k \in Holding /\ Holding \subseteq Calls
      BY <1>4, PutHolding DEF Put, Holding
    <2>2. \A j \in Holding' : ctx'[j] = ctx[j]
      BY <1>4, <2>1 DEF Put, TypeOK
    <2> QED
      BY <1>4, <2>1, <2>2 DEF Put, CtxExclusive
  <1>5. ASSUME NEW k \in Calls, CSetErrno(k) PROVE CtxExclusive'
    BY <1>5 DEF CSetErrno, localVars, poolVars, CtxExclusive, Holding
  <1>6. ASSUME NEW g \in Goroutines, Migrate(g) PROVE CtxExclusive'
    BY <1>6 DEF Migrate, localVars, poolVars, CtxExclusive, Holding
  <1>7. ASSUME NEW c \in Ctxs, DropPooled(c) PROVE CtxExclusive'
    BY <1>7 DEF DropPooled, localVars, CtxExclusive, Holding
  <1>8. CASE UNCHANGED vars
    BY <1>8 DEF vars, localVars, poolVars, CtxExclusive, Holding
  <1> QED
    BY <1>1, <1>2, <1>3, <1>4, <1>5, <1>6, <1>7, <1>8 DEF Next, Closure, Middle

\* A call nothing of whose own changes stays packed.
LEMMA PackedAtKept ==
  ASSUME NEW j \in Calls, PackedAt(j),
         pc'[j] = pc[j] \/ pc'[j] \in {"unlock", "put"},
         ctx'[j] = ctx[j], shape'[j] = shape[j], sees'[j] = sees[j],
         ffiArgsCount'[j] = ffiArgsCount[j], keepAliveCount'[j] = keepAliveCount[j],
         ffiArgs'[ctx[j]] = ffiArgs[ctx[j]], keepAlive'[ctx[j]] = keepAlive[ctx[j]]
  PROVE  PackedAt(j)'
  BY DEF PackedAt

\* The steps that leave the contexts' memory and what C saw alone.
LEMMA QuietPacked ==
  ASSUME TypeOK, Packed, CleanPool, NEW k \in Calls, pc[k] \in MidPCs,
         NEW l \in MidPCs, pc' = [pc EXCEPT ![k] = l],
         UNCHANGED <<ctx, shape, pool, fresh, ffiArgs, keepAlive, ffiArgsCount,
                     keepAliveCount, sees>>,
         l \in {"call", "inC", "geterr", "unpack"} => ffiArgsCount[k] = shape[k].argc,
         l \in {"inC", "geterr", "unpack"} => pc[k] \in {"inC", "geterr", "unpack"}
  PROVE  Packed' /\ CleanPool'
  <1>1. Holding' = Holding
    BY DEF Holding, MidPCs, PCs, TypeOK
  <1>2. CleanPool'
    BY DEF CleanPool, Empty
  <1> QED
    BY <1>1, <1>2 DEF Packed, PackedAt, TypeOK, Holding

LEMMA NextPacked ==
  TypeOK /\ FreshFrames /\ Stacked /\ CtxExclusive /\ Packed /\ CleanPool /\ [Next]_vars
      => Packed' /\ CleanPool'
  <1> SUFFICES ASSUME TypeOK, FreshFrames, Stacked, CtxExclusive, Packed, CleanPool,
                      [Next]_vars
               PROVE  Packed' /\ CleanPool'
    OBVIOUS
  <1>1. ASSUME NEW k \in Calls, Invoke(k) PROVE Packed' /\ CleanPool'
    <2>1. Holding' = Holding /\ k \notin Holding
      BY <1>1 DEF Invoke, Goto, Holding, TypeOK
    <2>2. \A j \in Holding : shape'[j] = shape[j] /\ pc'[j] = pc[j]
      BY <1>1, <2>1 DEF Invoke, Goto, Holding, TypeOK
    <2> QED
      BY <1>1, <2>1, <2>2, SMTT(60)
      DEF Invoke, localVars, poolVars, memVars, ghostVars, Packed, PackedAt, CleanPool
  <1>2. ASSUME NEW k \in Calls, Get(k) PROVE Packed' /\ CleanPool'
    <2>1. PICK c \in pool \cup fresh : Take(k, c)
      BY <1>2 DEF Get
    <2>2. Holding' = Holding \cup {k} /\ k \notin Holding
      BY <1>2 DEF Get, Goto, Holding, TypeOK
    <2>3. \A j \in Holding : ctx'[j] = ctx[j] /\ pc'[j] = pc[j]
      BY <1>2, <2>1, <2>2 DEF Get, Goto, Take, TypeOK, Holding
    <2>4. ctx'[k] = c /\ pc'[k] \in {"lock", "pack"} /\ keepAlive[c] = Empty
      BY <1>2, <2>1 DEF Get, Goto, Take, TypeOK, CleanPool
    <2>5. ffiArgsCount[k] = 0 /\ keepAliveCount[k] = 0
      BY <1>2 DEF Get, FreshFrames
    <2>6. UNCHANGED <<ffiArgs, keepAlive, ffiArgsCount, keepAliveCount, shape, sees>>
      BY <1>2 DEF Get, memVars, stackVars, ghostVars
    <2>7. Packed'
      <3>1. \A j \in Holding : PackedAt(j)'
        BY <2>3, <2>6, PackedAtKept DEF Packed, Holding
      <3>2. \A i \in Slots : ~(i <= 0) /\ keepAlive[c][i] = Nil
        BY <2>4, ConstantsAssumption DEF Empty, Slots
      <3>3. PackedAt(k)'
        BY <2>4, <2>5, <2>6, <3>2 DEF PackedAt
      <3> QED
        BY <2>2, <3>1, <3>3 DEF Packed
    <2>8. CleanPool'
      BY <2>1, <2>6 DEF Take, CleanPool, Empty
    <2> QED
      BY <2>7, <2>8
  <1>3. ASSUME NEW k \in Calls, PackArg(k) PROVE Packed' /\ CleanPool'
    <2>0. k \in Holding /\ pc[k] = "pack" /\ Deferred(k) \in {"unlock", "put"}
      BY <1>3 DEF PackArg, Holding, Deferred
    <2>1. CASE Panic(k) /\ UNCHANGED <<ffiArgs, keepAlive, ffiArgsCount, keepAliveCount>>
      BY <1>3, <2>0, <2>1, QuietPacked
      DEF PackArg, Panic, Goto, MidPCs, PCs, stackVars, poolVars, ghostVars
    <2>2. CASE /\ ffiArgsCount[k] < Cap
               /\ StoreArg(k, ffiArgsCount[k] + 1) /\ UNCHANGED <<pc, panicking>>
      <3> DEFINE n == ffiArgsCount[k] + 1
      <3>1. n \in Slots /\ keepAliveCount[k] + 1 = n
        <4>1. ffiArgsCount[k] \in 0..Cap /\ keepAliveCount[k] = ffiArgsCount[k]
          BY <2>0, ZenonT(60) DEF TypeOK, Packed, PackedAt
        <4> QED
          BY <2>2, <4>1, ConstantsAssumption DEF Slots
      <3>2. UNCHANGED <<pc, ctx, shape, pool, fresh, sees>> /\ Holding' = Holding
        BY <1>3, <2>2 DEF PackArg, stackVars, poolVars, ghostVars, Holding
      <3>3. ctx[k] \in Ctxs /\ ctx[k] \notin pool \cup fresh
        BY <2>0 DEF TypeOK, CtxExclusive
      <3>4. \A c \in Ctxs \ {ctx[k]} : ffiArgs'[c] = ffiArgs[c] /\ keepAlive'[c] = keepAlive[c]
        BY <2>2 DEF StoreArg, TypeOK
      <3>5. /\ ffiArgs'[ctx[k]] = [ffiArgs[ctx[k]] EXCEPT ![n] = <<k, n>>]
            /\ keepAlive'[ctx[k]] = [keepAlive[ctx[k]] EXCEPT ![n] = <<k, n>>]
        BY <2>2, <3>1, <3>3 DEF StoreArg, TypeOK
      <3>6. /\ ffiArgsCount'[k] = n /\ keepAliveCount'[k] = n
            /\ \A j \in Calls \ {k} : /\ ffiArgsCount'[j] = ffiArgsCount[j]
                                      /\ keepAliveCount'[j] = keepAliveCount[j]
        BY <2>2, <3>1 DEF StoreArg, TypeOK
      <3>7. CleanPool'
        BY <3>2, <3>3, <3>4 DEF CleanPool, Empty, TypeOK
      <3>8. ASSUME NEW i \in Slots
            PROVE  IF i <= n
                   THEN ffiArgs'[ctx[k]][i] = <<k, i>> /\ keepAlive'[ctx[k]][i] = <<k, i>>
                   ELSE keepAlive'[ctx[k]][i] = Nil
        <4>1. ffiArgs[ctx[k]] \in [Slots -> Tokens \cup {Nil}]
              /\ keepAlive[ctx[k]] \in [Slots -> Tokens \cup {Nil}]
          BY <3>3 DEF TypeOK
        <4>2. CASE i = n
          BY <3>1, <3>5, <4>1, <4>2, ConstantsAssumption DEF Slots
        <4>3. CASE i # n
          <5>1. i <= n <=> i <= ffiArgsCount[k]
            BY <4>3 DEF Slots, TypeOK
          <5> QED
            BY <2>0, <3>5, <4>1, <4>3, <5>1, ZenonT(60) DEF Packed, PackedAt
        <4> QED
          BY <4>2, <4>3
      <3>9. ASSUME NEW j \in Holding \ {k}
            PROVE  /\ ctx[j] \in Ctxs \ {ctx[k]} /\ j \in Calls \ {k}
          BY <2>0 DEF TypeOK, CtxExclusive, Holding
      <3>10. Packed'
        <4>1. \A j \in Holding \ {k} : PackedAt(j)'
          BY <3>2, <3>4, <3>6, <3>9, PackedAtKept DEF Packed
        <4>2. PackedAt(k)'
          BY <2>0, <3>2, <3>6, <3>8 DEF PackedAt
        <4> QED
          BY <3>2, <4>1, <4>2 DEF Packed
      <3> QED
        BY <3>7, <3>10
    <2> QED
      BY <1>3, <2>1, <2>2 DEF PackArg
  <1>4. ASSUME NEW k \in Calls, CallFunction(k) PROVE Packed' /\ CleanPool'
    <2>0. k \in Holding /\ pc[k] = "call" /\ Deferred(k) \in {"unlock", "put"}
      BY <1>4 DEF CallFunction, Holding, Deferred
    <2>1. CASE Panic(k) /\ UNCHANGED sees
      BY <1>4, <2>0, <2>1, QuietPacked
      DEF CallFunction, Panic, Goto, MidPCs, PCs, localVars, stackVars, poolVars, memVars
    <2>2. CASE /\ sees' = [sees EXCEPT ![k] = [i \in 1..ffiArgsCount[k] |-> ffiArgs[ctx[k]][i]]]
               /\ Goto(k, "inC")
      <3>1. UNCHANGED <<ctx, ffiArgsCount, keepAliveCount, shape, pool, fresh, keepAlive, ffiArgs>>
        BY <1>4 DEF CallFunction, localVars, stackVars, poolVars, memVars
      <3>2. Holding' = Holding
        BY <2>0, <2>2 DEF Goto, Holding, TypeOK
      <3>3. ffiArgsCount[k] = shape[k].argc /\ ffiArgsCount[k] \in 0..Cap
        BY <2>0 DEF Packed, PackedAt, TypeOK, Holding
      <3>4. \A i \in 1..ffiArgsCount[k] : ffiArgs[ctx[k]][i] = <<k, i>>
        <4>1. \A i \in 1..ffiArgsCount[k] : i \in Slots /\ i <= ffiArgsCount[k]
          BY <3>3, ConstantsAssumption DEF Slots
        <4> QED
          BY <2>0, <4>1 DEF Packed, PackedAt
      <3>5. [i \in 1..ffiArgsCount[k] |-> ffiArgs[ctx[k]][i]]
              = [i \in 1..shape[k].argc |-> <<k, i>>]
        BY <3>3, <3>4
      <3>6. \A j \in Holding \ {k} : sees'[j] = sees[j] /\ pc'[j] = pc[j]
        BY <2>2 DEF Goto, TypeOK, Holding
      <3>7. sees'[k] = [i \in 1..shape[k].argc |-> <<k, i>>] /\ pc'[k] = "inC"
        BY <2>0, <2>2, <3>5 DEF Goto, TypeOK, Holding
      <3>8. \A j \in Holding \ {k} : PackedAt(j)'
        BY <3>1, <3>6 DEF Packed, PackedAt
      <3>9. PackedAt(k)'
        BY <2>0, <3>1, <3>3, <3>7 DEF Packed, PackedAt
      <3>10. CleanPool'
        BY <3>1 DEF CleanPool
      <3> QED
        BY <3>2, <3>8, <3>9, <3>10 DEF Packed
    <2> QED
      BY <1>4, <2>1, <2>2 DEF CallFunction
  <1>5. ASSUME NEW k \in Calls,
               \/ LockOSThread(k) \/ ClearErrno(k) \/ Prepare(k) \/ CReturn(k)
               \/ GetErr(k) \/ Unpack(k) \/ UnlockOSThread(k)
        PROVE  Packed' /\ CleanPool'
    <2> USE DEF Goto, localVars, stackVars, poolVars, memVars, ghostVars
    <2>1. /\ pc[k] \in MidPCs
          /\ UNCHANGED <<ctx, shape, pool, fresh, ffiArgs, keepAlive, ffiArgsCount,
                         keepAliveCount, sees>>
      BY <1>5 DEF LockOSThread, ClearErrno, Prepare, CReturn, GetErr, Unpack, UnlockOSThread,
                  MidPCs, PCs
    <2>2. PICK l \in MidPCs :
            /\ pc' = [pc EXCEPT ![k] = l]
            /\ l \in {"call", "inC", "geterr", "unpack"} =>
                  \/ ffiArgsCount[k] = shape[k].argc
                  \/ pc[k] \in {"inC", "geterr", "unpack"}
            /\ l \in {"inC", "geterr", "unpack"} => pc[k] \in {"inC", "geterr", "unpack"}
      <3>1. Deferred(k) \in {"unlock", "put"}
        BY DEF Deferred
      <3> QED
        BY <1>5, <3>1 DEF LockOSThread, ClearErrno, Prepare, CReturn, GetErr, Unpack,
                          UnlockOSThread, Panic, MidPCs, PCs
    <2>3. k \in Holding
      BY <2>1 DEF Holding, MidPCs
    <2>4. l \in {"call", "inC", "geterr", "unpack"} => ffiArgsCount[k] = shape[k].argc
      BY <2>2, <2>3 DEF Packed, PackedAt
    <2> QED
      BY <2>1, <2>2, <2>4, QuietPacked
  <1>6. ASSUME NEW k \in Calls, Put(k) PROVE Packed' /\ CleanPool'
    <2>1. Holding' = Holding \ {k} /\ k \in Holding /\ Holding \subseteq Calls
      BY <1>6, PutHolding DEF Put, Holding
    <2>2. ctx[k] \in Ctxs /\ \A j \in Holding' : ctx[j] \in Ctxs \ {ctx[k]}
      BY <2>1 DEF TypeOK, CtxExclusive
    <2>3. UNCHANGED <<ffiArgsCount, keepAliveCount, shape, ffiArgs, sees, fresh>>
      BY <1>6 DEF Put, ghostVars
    <2>4. \A j \in Holding' : /\ ctx'[j] = ctx[j] /\ keepAlive'[ctx[j]] = keepAlive[ctx[j]]
                              /\ pc'[j] = pc[j] \/ pc'[j] \in {"unlock", "put"}
      <3>1. Deferred(parent[k]) \in {"unlock", "put"}
        BY DEF Deferred
      <3> QED
        BY <1>6, <2>1, <2>2, <3>1 DEF Put, Goto, TypeOK
    <2>5. Packed'
      BY <2>1, <2>3, <2>4, PackedAtKept DEF Packed
    <2>6. ClearKeepAlive(k) = Empty
      BY <2>1 DEF ClearKeepAlive, Empty, Packed, PackedAt
    <2>7. CleanPool'
      BY <1>6, <2>2, <2>3, <2>6 DEF Put, CleanPool, TypeOK, Empty
    <2> QED
      BY <2>5, <2>7
  <1>7. ASSUME NEW k \in Calls, CSetErrno(k) PROVE Packed' /\ CleanPool'
    BY <1>7 DEF CSetErrno, localVars, stackVars, poolVars, memVars, Holding, Packed, PackedAt,
                CleanPool
  <1>8. ASSUME NEW g \in Goroutines, Migrate(g) PROVE Packed' /\ CleanPool'
    BY <1>8 DEF Migrate, localVars, stackVars, poolVars, memVars, ghostVars, Holding, Packed,
                PackedAt, CleanPool
  <1>9. ASSUME NEW c \in Ctxs, DropPooled(c) PROVE Packed' /\ CleanPool'
    <2>1. UNCHANGED <<pc, ctx, ffiArgsCount, keepAliveCount, shape, sees>> /\ Holding' = Holding
      BY <1>9 DEF DropPooled, localVars, stackVars, ghostVars, Holding
    <2>2. \A j \in Holding : ctx[j] \in Ctxs \ {c}
      BY <1>9 DEF DropPooled, TypeOK, CtxExclusive
    <2>3. \A d \in Ctxs \ {c} : ffiArgs'[d] = ffiArgs[d] /\ keepAlive'[d] = keepAlive[d]
      BY <1>9 DEF DropPooled, TypeOK
    <2>4. Packed'
      BY <2>1, <2>2, <2>3, PackedAtKept DEF Packed, Holding
    <2>5. CleanPool'
      BY <1>9, <2>3 DEF DropPooled, CleanPool, TypeOK, Empty
    <2> QED
      BY <2>4, <2>5
  <1>10. CASE UNCHANGED vars
    BY <1>10 DEF vars, localVars, stackVars, poolVars, memVars, ghostVars, Holding, Packed,
                 PackedAt, CleanPool
  <1> QED
    BY <1>1, <1>2, <1>3, <1>4, <1>5, <1>6, <1>7, <1>8, <1>9, <1>10 DEF Next, Closure

-----------------------------------------------------------------------------
\* Which steps change who holds LockOSThread.
LEMMA LockedStep ==
  ASSUME TypeOK, Stacked, NEW k \in Calls
  PROVE  /\ Invoke(k) => Locked' = Locked
         /\ Get(k) => Locked' = Locked
         /\ LockOSThread(k) /\ shape[k].hasErr => Locked' = Locked \cup {k}
         /\ Middle(k) /\ ~LockOSThread(k) /\ ~UnlockOSThread(k) => Locked' = Locked
         /\ UnlockOSThread(k) => Locked' = Locked \ {k}
         /\ Put(k) => Locked' = Locked
  <1> USE DEF TypeOK, Locked, Holding
  <1>1. ASSUME Invoke(k) PROVE Locked' = Locked
    BY <1>1 DEF Invoke, Goto
  <1>2. ASSUME Get(k) PROVE Locked' = Locked
    BY <1>2 DEF Get, Goto, stackVars
  <1>3. ASSUME LockOSThread(k), shape[k].hasErr PROVE Locked' = Locked \cup {k}
    BY <1>3 DEF LockOSThread, Goto, stackVars
  <1>4. ASSUME Middle(k), ~LockOSThread(k), ~UnlockOSThread(k) PROVE Locked' = Locked
    <2>1. pc[k] \in MidPCs \ {"lock", "put", "unlock"} /\ UNCHANGED shape
      BY <1>4 DEF Middle, ClearErrno, PackArg, Prepare, CallFunction, CReturn, GetErr, Unpack,
                  MidPCs, PCs, stackVars
    <2>2. PICK l \in MidPCs \ {"lock"} :
            pc' = [pc EXCEPT ![k] = l] /\ (l = "put" => ~shape[k].hasErr)
      <3>1. Deferred(k) \in MidPCs \ {"lock"} /\ (Deferred(k) = "put" => ~shape[k].hasErr)
        BY DEF Deferred, MidPCs, PCs
      <3>2. CASE PackArg(k) /\ UNCHANGED <<pc, panicking>>
        BY <2>1, <3>2 DEF PackArg
      <3>3. CASE PackArg(k) /\ Panic(k)
        BY <3>1, <3>3 DEF Panic, Goto
      <3>4. CASE Prepare(k) \/ CallFunction(k) \/ Unpack(k)
        BY <3>1, <3>4 DEF Prepare, CallFunction, Unpack, Panic, Goto, MidPCs, PCs
      <3>5. CASE ClearErrno(k) \/ CReturn(k) \/ GetErr(k)
        BY <3>5 DEF ClearErrno, CReturn, GetErr, Goto, MidPCs, PCs
      <3> QED
        BY <1>4, <3>2, <3>3, <3>4, <3>5 DEF Middle, PackArg
    <2> QED
      BY <2>1, <2>2 DEF MidPCs, PCs
  <1>5. ASSUME UnlockOSThread(k) PROVE Locked' = Locked \ {k}
    BY <1>5 DEF UnlockOSThread, Goto, stackVars
  <1>6. ASSUME Put(k) PROVE Locked' = Locked
    <2>1. pc[k] = "put" /\ k \in Active /\ UNCHANGED shape
      BY <1>6 DEF Put, Active
    <2>2. CASE Goto(k, "done")
      BY <2>1, <2>2 DEF Goto
    <2>3. CASE parent[k] # NoCall
               /\ pc' = [pc EXCEPT ![k] = "done", ![parent[k]] = Deferred(parent[k])]
      <3>1. parent[k] \in Calls /\ pc[parent[k]] = "inC"
        BY <2>1, <2>3 DEF Stacked
      <3>2. Deferred(parent[k]) \in {"unlock", "put"}
            /\ (Deferred(parent[k]) = "put" <=> ~shape[parent[k]].hasErr)
        BY DEF Deferred
      <3> QED
        BY <2>1, <2>3, <3>1, <3>2
    <2> QED
      BY <1>6, <2>2, <2>3 DEF Put
  <1> QED
    BY <1>1, <1>2, <1>3, <1>4, <1>5, <1>6

LEMMA NextLocks ==
  TypeOK /\ Stacked /\ LockSteps /\ LockBalanced /\ [Next]_vars => LockSteps' /\ LockBalanced'
  <1> SUFFICES ASSUME TypeOK, Stacked, LockSteps, LockBalanced, [Next]_vars
               PROVE  LockSteps' /\ LockBalanced'
    OBVIOUS
  <1>1. ASSUME NEW k \in Calls, Invoke(k) PROVE LockSteps' /\ LockBalanced'
    <2>1. LockSteps'
      BY <1>1 DEF Invoke, Goto, LockSteps, TypeOK
    <2>2. Locked' = Locked
      BY <1>1, LockedStep
    <2> QED
      BY <1>1, <2>1, <2>2 DEF Invoke, runtimeVars, LockBalanced
  <1>2. ASSUME NEW k \in Calls, Get(k) PROVE LockSteps' /\ LockBalanced'
    <2>1. LockSteps'
      BY <1>2 DEF Get, Goto, LockSteps, TypeOK, stackVars
    <2>2. Locked' = Locked
      BY <1>2, LockedStep
    <2> QED
      BY <1>2, <2>1, <2>2 DEF Get, stackVars, runtimeVars, LockBalanced
  <1>3. ASSUME NEW k \in Calls, LockOSThread(k) PROVE LockSteps' /\ LockBalanced'
    <2>1. shape[k].hasErr /\ pc[k] = "lock"
      BY <1>3 DEF LockOSThread, LockSteps
    <2>2. LockSteps'
      BY <1>3, <2>1 DEF LockOSThread, Goto, LockSteps, TypeOK, stackVars
    <2>3. Locked' = Locked \cup {k}
      BY <1>3, <2>1, LockedStep
    <2> QED
      BY <1>3, <2>2, <2>3 DEF LockOSThread, stackVars, LockBalanced, TypeOK
  <1>4. ASSUME NEW k \in Calls, Middle(k), ~LockOSThread(k), ~UnlockOSThread(k)
        PROVE  LockSteps' /\ LockBalanced'
    <2>1. Locked' = Locked
      BY <1>4, LockedStep
    <2>2. UNCHANGED <<lockers, gor, shape>>
      BY <1>4 DEF Middle, ClearErrno, PackArg, Prepare, CallFunction, CReturn, GetErr, Unpack,
                  stackVars, runtimeVars
    <2>3. pc'[k] \in {"lock", "clear", "unlock"} => shape[k].hasErr
      <3>1. Deferred(k) = "put" \/ shape[k].hasErr
        BY DEF Deferred
      <3> QED
        BY <1>4, <3>1 DEF Middle, ClearErrno, PackArg, Prepare, CallFunction, CReturn, GetErr,
                          Unpack, Panic, Goto, TypeOK
    <2>4. LockSteps'
      BY <1>4, <2>2, <2>3, MiddleStep DEF LockSteps, TypeOK
    <2> QED
      BY <2>1, <2>2, <2>4 DEF LockBalanced
  <1>5. ASSUME NEW k \in Calls, UnlockOSThread(k) PROVE LockSteps' /\ LockBalanced'
    <2>1. Locked' = Locked \ {k}
      BY <1>5, LockedStep
    <2>2. LockSteps'
      BY <1>5 DEF UnlockOSThread, Goto, LockSteps, TypeOK, stackVars
    <2> QED
      BY <1>5, <2>1, <2>2 DEF UnlockOSThread, stackVars, LockBalanced, TypeOK
  <1>6. ASSUME NEW k \in Calls, Put(k) PROVE LockSteps' /\ LockBalanced'
    <2>1. Locked' = Locked
      BY <1>6, LockedStep
    <2>2. LockSteps'
      <3>1. Deferred(parent[k]) = "put" \/ shape[parent[k]].hasErr
        BY DEF Deferred
      <3> QED
        BY <1>6, <3>1 DEF Put, Goto, LockSteps, TypeOK
    <2> QED
      BY <1>6, <2>1, <2>2 DEF Put, runtimeVars, LockBalanced
  <1>7. ASSUME NEW k \in Calls, CSetErrno(k) PROVE LockSteps' /\ LockBalanced'
    BY <1>7 DEF CSetErrno, stackVars, LockSteps, LockBalanced, Locked, Holding
  <1>8. ASSUME NEW g \in Goroutines, Migrate(g) PROVE LockSteps' /\ LockBalanced'
    BY <1>8 DEF Migrate, stackVars, LockSteps, LockBalanced, Locked, Holding
  <1>9. ASSUME NEW c \in Ctxs, DropPooled(c) PROVE LockSteps' /\ LockBalanced'
    BY <1>9 DEF DropPooled, stackVars, runtimeVars, LockSteps, LockBalanced, Locked, Holding
  <1>10. CASE UNCHANGED vars
    BY <1>10 DEF vars, stackVars, runtimeVars, LockSteps, LockBalanced, Locked, Holding
  <1> QED
    BY <1>1, <1>2, <1>3, <1>4, <1>5, <1>6, <1>7, <1>8, <1>9, <1>10 DEF Next, Closure, Middle

-----------------------------------------------------------------------------
\* While nobody writes errno and nobody changes threads, a call keeps track
\* of it as long as it keeps its lock.
LEMMA TrackedKept ==
  ASSUME ErrnoTracked, UNCHANGED <<thread, gor, errno, left, errnoPtr>>,
         HasErrnoFn => \A k \in Locked' :
             pc'[k] \in {"pack", "call", "inC", "geterr"} =>
                 k \in Locked /\ pc[k] \in {"pack", "call", "inC", "geterr"}
  PROVE  ErrnoTracked'
  BY DEF ErrnoTracked, Thread

\* A call of another goroutine, or of the same one further out, sees what an
\* errno write of a running call k does to it.
LEMMA TrackedWrite ==
  ASSUME TypeOK, Stacked, ErrnoTracked, HasErrnoFn, NEW k \in Calls, Runs(k),
         NEW e, WriteErrno(k, e, InC(gor[k]) \cup {k}) \/ WriteErrno(k, e, InC(gor[k])),
         NEW j \in Locked, j # k,
         pc[j] \in {"pack", "call", "inC", "geterr"}
  PROVE  left'[j] = errno'[Thread(j)]
  <1>1. j \in Calls /\ j \in Active /\ gor[j] \in Goroutines /\ gor[k] \in Goroutines
    BY DEF Locked, Holding, Active, TypeOK
  <1>2. Thread(j) \in Threads /\ Thread(k) \in Threads
    BY <1>1 DEF Thread, TypeOK
  <1>3. CASE gor[j] = gor[k]
    <2>1. ~Runs(j)
      BY <1>3 DEF Runs
    <2>2. j \in InC(gor[k])
      BY <1>1, <1>3, <2>1 DEF Stacked, InC
    <2> QED
      BY <1>1, <1>2, <1>3, <2>2 DEF WriteErrno, Thread, TypeOK
  <1>4. CASE gor[j] # gor[k]
    <2>1. Thread(j) # Thread(k)
      BY <1>1, <1>4 DEF ErrnoTracked, Thread
    <2>2. j \notin InC(gor[k]) \cup {k}
      BY <1>4 DEF InC
    <2>3. left[j] = errno[Thread(j)]
      BY DEF ErrnoTracked
    <2> QED
      BY <1>1, <1>2, <2>1, <2>2, <2>3 DEF WriteErrno, TypeOK
  <1> QED
    BY <1>3, <1>4

LEMMA NextTracked ==
  TypeOK /\ Stacked /\ LockSteps /\ LockBalanced /\ ErrnoTracked /\ [Next]_vars
      => ErrnoTracked'
  <1> SUFFICES ASSUME TypeOK, Stacked, LockSteps, LockBalanced, ErrnoTracked, [Next]_vars
               PROVE  ErrnoTracked'
    OBVIOUS
  <1> USE DEF stackVars, runtimeVars, localVars, ghostVars
  <1>1. ASSUME NEW k \in Calls, Invoke(k) PROVE ErrnoTracked'
    <2>1. Locked' = Locked /\ k \notin Locked
      BY <1>1, LockedStep DEF Invoke, Locked, Holding
    <2>2. \A j \in Locked : pc'[j] = pc[j]
      BY <1>1, <2>1 DEF Invoke, Goto, Locked, Holding, TypeOK
    <2> QED
      BY <1>1, <2>1, <2>2, TrackedKept DEF Invoke
  <1>2. ASSUME NEW k \in Calls, Get(k) PROVE ErrnoTracked'
    <2>1. Locked' = Locked /\ k \notin Locked
      BY <1>2, LockedStep DEF Get, Locked, Holding
    <2>2. \A j \in Locked : pc'[j] = pc[j]
      BY <1>2, <2>1 DEF Get, Goto, Locked, Holding, TypeOK
    <2> QED
      BY <1>2, <2>1, <2>2, TrackedKept DEF Get
  <1>3. ASSUME NEW k \in Calls, ClearErrno(k) PROVE ErrnoTracked'
    <2>1. UNCHANGED <<thread, gor>> /\ pc[k] = "clear"
      BY <1>3 DEF ClearErrno
    <2>2. Locked' = Locked
      BY <1>3, LockedStep DEF Middle, ClearErrno, LockOSThread, UnlockOSThread
    <2>3. Runs(k)
      BY <1>3, MiddleRuns DEF Middle
    <2>4. ASSUME HasErrnoFn, NEW j \in Locked, pc'[j] \in {"pack", "call", "inC", "geterr"}
          PROVE  errnoPtr'[j] = Thread(j) /\ left'[j] = errno'[Thread(j)]
      <3>1. Thread(k) \in Threads /\ j \in Calls
        BY DEF Thread, TypeOK, Locked, Holding
      <3>2. WriteErrno(k, 0, InC(gor[k]) \cup {k}) /\ errnoPtr' = [errnoPtr EXCEPT ![k] = Thread(k)]
        BY <1>3, <2>4 DEF ClearErrno
      <3>3. CASE j = k
        BY <3>1, <3>2, <3>3 DEF WriteErrno, TypeOK
      <3>4. CASE j # k
        <4>1. pc[j] \in {"pack", "call", "inC", "geterr"} /\ errnoPtr'[j] = errnoPtr[j]
          BY <1>3, <2>4, <3>1, <3>2, <3>4 DEF ClearErrno, Goto, TypeOK
        <4>2. errnoPtr[j] = Thread(j)
          BY <2>4, <4>1 DEF ErrnoTracked
        <4>3. left'[j] = errno'[Thread(j)]
          BY <2>3, <2>4, <3>2, <3>4, <4>1, TrackedWrite
        <4> QED
          BY <4>1, <4>2, <4>3
      <3> QED
        BY <3>3, <3>4
    <2> QED
      BY <2>1, <2>2, <2>4 DEF ErrnoTracked, Thread
  <1>4. ASSUME NEW k \in Calls, CSetErrno(k) PROVE ErrnoTracked'
    <2>1. UNCHANGED <<thread, gor, pc, shape, errnoPtr>> /\ pc[k] = "inC" /\ Runs(k)
      BY <1>4 DEF CSetErrno
    <2>2. Locked' = Locked
      BY <2>1 DEF Locked, Holding
    <2>3. PICK e \in Errnos : WriteErrno(k, e, InC(gor[k]))
      BY <1>4 DEF CSetErrno
    <2>4. ASSUME HasErrnoFn, NEW j \in Locked, pc[j] \in {"pack", "call", "inC", "geterr"}
          PROVE  left'[j] = errno'[Thread(j)]
      <3>1. Thread(k) \in Threads /\ k \in InC(gor[k])
        BY <2>1 DEF Thread, TypeOK, InC
      <3>2. CASE j = k
        BY <2>3, <3>1, <3>2 DEF WriteErrno, TypeOK
      <3>3. CASE j # k
        BY <2>1, <2>3, <2>4, <3>3, TrackedWrite
      <3> QED
        BY <3>2, <3>3
    <2> QED
      BY <2>1, <2>2, <2>4 DEF ErrnoTracked, Thread
  <1>5. ASSUME NEW k \in Calls,
               \/ LockOSThread(k) \/ PackArg(k) \/ Prepare(k) \/ CallFunction(k) \/ CReturn(k)
               \/ GetErr(k) \/ Unpack(k) \/ UnlockOSThread(k)
        PROVE  ErrnoTracked'
    <2>1. UNCHANGED <<thread, gor, errno, left, errnoPtr>>
      BY <1>5 DEF LockOSThread, PackArg, Prepare, CallFunction, CReturn, GetErr, Unpack,
                  UnlockOSThread
    <2>2. Locked' \subseteq Locked \cup {k} /\ Locked \subseteq Calls
      BY <1>5, LockedStep DEF Middle, LockOSThread, LockSteps, Locked, Holding
    <2>3. \A j \in Calls \ {k} : pc'[j] = pc[j]
      BY <1>5, MiddleStep DEF Middle, TypeOK
    <2>4. Deferred(k) \in {"unlock", "put"}
      BY DEF Deferred
    <2>5. pc'[k] \in {"pack", "call", "inC", "geterr"}
             => pc[k] \in {"pack", "call", "inC", "geterr"}
      BY <1>5, <2>4 DEF LockOSThread, PackArg, Prepare, CallFunction, CReturn, GetErr, Unpack,
                        UnlockOSThread, Panic, Goto, TypeOK
    <2>6. k \in Locked' /\ pc[k] \in {"pack", "call", "inC", "geterr"} => k \in Locked
      BY <1>5, MiddleStep DEF Middle, Locked, Holding
    <2> QED
      BY <2>1, <2>2, <2>3, <2>5, <2>6, TrackedKept
  <1>6. ASSUME NEW k \in Calls, Put(k) PROVE ErrnoTracked'
    <2>1. Locked' = Locked /\ Locked \subseteq Calls
      BY <1>6, LockedStep DEF Locked, Holding
    <2>2. Deferred(parent[k]) \in {"unlock", "put"}
      BY DEF Deferred
    <2>3. \A j \in Calls : pc'[j] = pc[j] \/ pc'[j] \in {"done", "unlock", "put"}
      BY <1>6, <2>2 DEF Put, Goto, TypeOK
    <2> QED
      BY <1>6, <2>1, <2>3, TrackedKept DEF Put
  <1>7. ASSUME NEW g \in Goroutines, Migrate(g) PROVE ErrnoTracked'
    <2>1. PICK t \in Threads : /\ \A h \in Goroutines : thread[h] # t
                               /\ thread' = [thread EXCEPT ![g] = t]
      BY <1>7 DEF Migrate
    <2>2. \A k \in Locked : gor[k] # g /\ gor[k] \in Goroutines
      BY <1>7 DEF Migrate, Pinned, LockBalanced, Locked, Holding, TypeOK
    <2>3. Locked' = Locked /\ UNCHANGED <<pc, gor, errno, left, errnoPtr>>
      BY <1>7 DEF Migrate, Locked, Holding
    <2>4. \A h, i \in Goroutines : thread'[h] = thread'[i] => h = i
      BY <2>1 DEF ErrnoTracked, TypeOK
    <2>5. \A k \in Locked : Thread(k)' = Thread(k)
      BY <2>1, <2>2, <2>3 DEF Thread, TypeOK
    <2> QED
      BY <2>3, <2>4, <2>5 DEF ErrnoTracked
  <1>8. ASSUME NEW c \in Ctxs, DropPooled(c) PROVE ErrnoTracked'
    BY <1>8 DEF DropPooled, ErrnoTracked, Thread, Locked, Holding
  <1>9. CASE UNCHANGED vars
    BY <1>9 DEF vars, ErrnoTracked, Thread, Locked, Holding
  <1> QED
    BY <1>1, <1>2, <1>3, <1>4, <1>5, <1>6, <1>7, <1>8, <1>9 DEF Next, Closure

\* Call j is past getErr and has not panicked: the calls ErrnoOwn is about.
Reported(j) == pc[j] \in {"unpack", "unlock", "put", "done"} /\ ~panicking[j]

LEMMA OwnKept ==
  ASSUME ErrnoOwn,
         \A j \in Calls : Reported(j)' =>
             /\ Reported(j) /\ errVal'[j] = errVal[j]
             /\ left'[j] = left[j] /\ shape'[j] = shape[j]
  PROVE  ErrnoOwn'
  BY DEF ErrnoOwn, Reported

LEMMA NextOwn ==
  TypeOK /\ Stacked /\ LockSteps /\ ErrnoTracked /\ ErrnoOwn /\ [Next]_vars => ErrnoOwn'
  <1> SUFFICES ASSUME TypeOK, Stacked, LockSteps, ErrnoTracked, ErrnoOwn, [Next]_vars
               PROVE  ErrnoOwn'
    OBVIOUS
  <1> USE DEF stackVars, runtimeVars, localVars, ghostVars
  <1>1. ASSUME NEW k \in Calls, Invoke(k) PROVE ErrnoOwn'
    BY <1>1, OwnKept DEF Invoke, Goto, Reported, TypeOK
  <1>2. ASSUME NEW k \in Calls, Get(k) \/ LockOSThread(k) PROVE ErrnoOwn'
    BY <1>2, OwnKept DEF Get, LockOSThread, Goto, Reported, TypeOK
  <1>3. ASSUME NEW k \in Calls, ClearErrno(k) PROVE ErrnoOwn'
    BY <1>3, OwnKept DEF ClearErrno, WriteErrno, InC, Goto, Reported, TypeOK
  <1>4. ASSUME NEW k \in Calls, PackArg(k) PROVE ErrnoOwn'
    BY <1>4, OwnKept DEF PackArg, Panic, Goto, Reported, TypeOK
  <1>5. ASSUME NEW k \in Calls, Prepare(k) PROVE ErrnoOwn'
    BY <1>5, OwnKept DEF Prepare, Panic, Goto, Reported, TypeOK
  <1>6. ASSUME NEW k \in Calls, CallFunction(k) PROVE ErrnoOwn'
    BY <1>6, OwnKept DEF CallFunction, Panic, Goto, Reported, TypeOK
  <1>7. ASSUME NEW k \in Calls, CSetErrno(k) PROVE ErrnoOwn'
    BY <1>7, OwnKept DEF CSetErrno, WriteErrno, InC, Reported, TypeOK
  <1>8. ASSUME NEW k \in Calls, CReturn(k) PROVE ErrnoOwn'
    BY <1>8, OwnKept DEF CReturn, Goto, Reported, TypeOK
  <1>9. ASSUME NEW k \in Calls, GetErr(k) PROVE ErrnoOwn'
    <2>1. UNCHANGED <<left, shape, panicking>> /\ pc[k] = "geterr"
          /\ \A j \in Calls \ {k} : pc'[j] = pc[j] /\ errVal'[j] = errVal[j]
      BY <1>9 DEF GetErr, Goto, TypeOK
    <2>2. errVal'[k] = IF shape[k].hasErr /\ errnoPtr[k] # NoThread
                       THEN errno[errnoPtr[k]] ELSE 0
      BY <1>9 DEF GetErr, TypeOK
    <2>3. ASSUME HasErrnoFn, shape[k].hasErr
          PROVE  errnoPtr[k] # NoThread /\ errno[errnoPtr[k]] = left[k]
      <3>1. k \in Locked
        BY <2>1, <2>3 DEF Locked, Holding
      <3>2. Thread(k) \in Threads
        BY DEF Thread, TypeOK
      <3> QED
        BY <2>1, <2>3, <3>1, <3>2, ConstantsAssumption DEF ErrnoTracked
    <2>4. HasErrnoFn => errVal'[k] = IF shape[k].hasErr THEN left[k] ELSE 0
      BY <2>2, <2>3
    <2> QED
      BY <2>1, <2>4 DEF ErrnoOwn
  <1>10. ASSUME NEW k \in Calls, Unpack(k) PROVE ErrnoOwn'
    BY <1>10, OwnKept DEF Unpack, Panic, Goto, Reported, TypeOK
  <1>11. ASSUME NEW k \in Calls, UnlockOSThread(k) PROVE ErrnoOwn'
    BY <1>11, OwnKept DEF UnlockOSThread, Goto, Reported, TypeOK
  <1>12. ASSUME NEW k \in Calls, Put(k) PROVE ErrnoOwn'
    <2>1. UNCHANGED <<left, shape, errVal>> /\ pc[k] = "put"
      BY <1>12 DEF Put
    <2>2. \A j \in Calls : Reported(j)' => Reported(j)
      BY <1>12 DEF Put, Goto, Reported, TypeOK
    <2> QED
      BY <2>1, <2>2, OwnKept
  <1>13. ASSUME NEW g \in Goroutines, Migrate(g) PROVE ErrnoOwn'
    BY <1>13 DEF Migrate, ErrnoOwn
  <1>14. ASSUME NEW c \in Ctxs, DropPooled(c) PROVE ErrnoOwn'
    BY <1>14 DEF DropPooled, ErrnoOwn
  <1>15. CASE UNCHANGED vars
    BY <1>15 DEF vars, ErrnoOwn
  <1> QED
    BY <1>1, <1>2, <1>3, <1>4, <1>5, <1>6, <1>7, <1>8, <1>9, <1>10, <1>11, <1>12, <1>13,
       <1>14, <1>15 DEF Next, Closure

\* A call whose own variables and result a step leaves alone, or that it
\* makes unwind out of C, keeps its outcome.
LEMMA OutcomeOfKept ==
  ASSUME NEW j \in Calls, OutcomeOf(j),
         \/ pc'[j] = pc[j] /\ panicking'[j] = panicking[j]
         \/ pc'[j] \in {"unlock", "put"} /\ panicking'[j] = TRUE,
         shape'[j] = shape[j], ctx'[j] = ctx[j], retBuf'[ctx[j]] = retBuf[ctx[j]],
         retVal'[j] = retVal[j], errnoPtr'[j] = errnoPtr[j], errVal'[j] = errVal[j],
         left'[j] = left[j] \/ pc'[j] \notin {"idle", "get", "lock", "clear"}
  PROVE  OutcomeOf(j)'
  BY DEF OutcomeOf

\* A step writes no other call's result, and its own where the C function of
\* the call put it (purego.go:232-267).
LEMMA NextOutcome ==
  TypeOK /\ Stacked /\ CtxExclusive /\ OutcomeTracked /\ [Next]_vars => OutcomeTracked'
  <1> SUFFICES ASSUME TypeOK, Stacked, CtxExclusive, OutcomeTracked, [Next]_vars,
                      NEW j \in Calls
               PROVE  OutcomeOf(j)'
    BY DEF OutcomeTracked
  <1> USE DEF Goto, localVars, stackVars, runtimeVars, poolVars, memVars, ghostVars
  <1>0. OutcomeOf(j) /\ \A k \in Calls : Deferred(k) \in {"unlock", "put"}
    BY DEF OutcomeTracked, Deferred
  <1>1. ASSUME NEW k \in Calls, Invoke(k) PROVE OutcomeOf(j)'
    <2>1. CASE j = k
      BY <1>0, <1>1, <2>1 DEF Invoke, OutcomeOf, TypeOK
    <2>2. CASE j # k
      BY <1>0, <1>1, <2>2 DEF Invoke, OutcomeOf, TypeOK
    <2> QED BY <2>1, <2>2
  <1>2. ASSUME NEW k \in Calls, Get(k) PROVE OutcomeOf(j)'
    <2>1. CASE j = k
      BY <1>0, <1>2, <2>1 DEF Get, Take, OutcomeOf, TypeOK
    <2>2. CASE j # k
      BY <1>0, <1>2, <2>2 DEF Get, Take, OutcomeOf, TypeOK
    <2> QED BY <2>1, <2>2
  <1>3. ASSUME NEW k \in Calls, LockOSThread(k) PROVE OutcomeOf(j)'
    <2>1. CASE j = k
      BY <1>0, <1>3, <2>1 DEF LockOSThread, OutcomeOf, TypeOK
    <2>2. CASE j # k
      BY <1>0, <1>3, <2>2 DEF LockOSThread, OutcomeOf, TypeOK
    <2> QED BY <2>1, <2>2
  <1>4. ASSUME NEW k \in Calls, ClearErrno(k) PROVE OutcomeOf(j)'
    <2>1. CASE j = k
      BY <1>0, <1>4, <2>1 DEF ClearErrno, WriteErrno, InC, Thread, OutcomeOf,
         TypeOK
    <2>2. CASE j # k
      BY <1>0, <1>4, <2>2 DEF ClearErrno, WriteErrno, InC, Thread, OutcomeOf,
         TypeOK
    <2> QED BY <2>1, <2>2
  <1>5. ASSUME NEW k \in Calls, PackArg(k) PROVE OutcomeOf(j)'
    <2>1. CASE j = k
      BY <1>0, <1>5, <2>1 DEF PackArg, Panic, StoreArg, OutcomeOf, TypeOK
    <2>2. CASE j # k
      BY <1>0, <1>5, <2>2 DEF PackArg, Panic, StoreArg, OutcomeOf, TypeOK
    <2> QED BY <2>1, <2>2
  <1>6. ASSUME NEW k \in Calls, Prepare(k) PROVE OutcomeOf(j)'
    <2>1. CASE j = k
      BY <1>0, <1>6, <2>1 DEF Prepare, Panic, OutcomeOf, TypeOK
    <2>2. CASE j # k
      BY <1>0, <1>6, <2>2 DEF Prepare, Panic, OutcomeOf, TypeOK
    <2> QED BY <2>1, <2>2
  <1>7. ASSUME NEW k \in Calls, CallFunction(k) PROVE OutcomeOf(j)'
    <2>1. CASE j = k
      BY <1>0, <1>7, <2>1, ZenonT(60) DEF CallFunction, Panic, OutcomeOf, TypeOK
    <2>2. CASE j # k
      BY <1>0, <1>7, <2>2 DEF CallFunction, Panic, OutcomeOf, TypeOK
    <2> QED BY <2>1, <2>2
  <1>8. ASSUME NEW k \in Calls, CSetErrno(k) PROVE OutcomeOf(j)'
    <2>1. CASE j = k
      BY <1>0, <1>8, <2>1 DEF CSetErrno, WriteErrno, InC, Thread, OutcomeOf,
         TypeOK
    <2>2. CASE j # k
      BY <1>0, <1>8, <2>2 DEF CSetErrno, WriteErrno, InC, Thread, OutcomeOf,
         TypeOK
    <2> QED BY <2>1, <2>2
  <1>9. ASSUME NEW k \in Calls, CReturn(k) PROVE OutcomeOf(j)'
    <2>1. CASE j = k
      <3>1. ctx[k] \in Ctxs
        BY <1>9 DEF CReturn, TypeOK, Holding
      <3> QED BY <1>0, <1>9, <2>1, <3>1 DEF CReturn, OutcomeOf, TypeOK
    <2>2. CASE j # k
      <3>1. pc[j] \in {"geterr", "unpack"} => ctx[j] # ctx[k]
        BY <1>9, <2>2 DEF CReturn, CtxExclusive, Holding
      <3> QED BY <1>0, <1>9, <2>2, <3>1 DEF CReturn, OutcomeOf, TypeOK, Holding
    <2> QED BY <2>1, <2>2
  <1>10. ASSUME NEW k \in Calls, GetErr(k) PROVE OutcomeOf(j)'
    <2>1. CASE j = k
      BY <1>0, <1>10, <2>1 DEF GetErr, OutcomeOf, TypeOK
    <2>2. CASE j # k
      BY <1>0, <1>10, <2>2 DEF GetErr, OutcomeOf, TypeOK
    <2> QED BY <2>1, <2>2
  <1>11. ASSUME NEW k \in Calls, Unpack(k) PROVE OutcomeOf(j)'
    <2>1. CASE j = k
      BY <1>0, <1>11, <2>1, ZenonT(60) DEF Unpack, Panic, OutcomeOf, TypeOK
    <2>2. CASE j # k
      BY <1>0, <1>11, <2>2 DEF Unpack, Panic, OutcomeOf, TypeOK
    <2> QED BY <2>1, <2>2
  <1>12. ASSUME NEW k \in Calls, UnlockOSThread(k) PROVE OutcomeOf(j)'
    <2>1. CASE j = k
      BY <1>0, <1>12, <2>1 DEF UnlockOSThread, OutcomeOf, TypeOK
    <2>2. CASE j # k
      BY <1>0, <1>12, <2>2 DEF UnlockOSThread, OutcomeOf, TypeOK
    <2> QED BY <2>1, <2>2
  <1>13. ASSUME NEW k \in Calls, Put(k) PROVE OutcomeOf(j)'
    <2>1. /\ pc[k] = "put"
          /\ UNCHANGED <<shape, retBuf, retVal, errnoPtr, errVal, left>>
          /\ ctx' = [ctx EXCEPT ![k] = NoCtx]
      BY <1>13 DEF Put
    <2>2. CASE Goto(k, "done") /\ UNCHANGED panicking
      BY <1>0, <2>1, <2>2 DEF OutcomeOf, TypeOK
    <2>3. CASE /\ parent[k] # NoCall
               /\ pc' = [pc EXCEPT ![k] = "done", ![parent[k]] = Deferred(parent[k])]
               /\ panicking[k] /\ panicking' = [panicking EXCEPT ![parent[k]] = TRUE]
      <3>0. k \in Active
        BY <2>1 DEF Active
      <3>1. parent[k] \in Calls /\ pc[parent[k]] = "inC"
        BY <2>3, <3>0 DEF Stacked, TypeOK
      <3>2. CASE j = parent[k]
        <4>1. pc'[j] \in {"unlock", "put"} /\ panicking'[j] = TRUE /\ ctx'[j] = ctx[j]
          BY <1>0, <2>1, <2>3, <3>1, <3>2 DEF TypeOK
        <4> QED BY <1>0, <2>1, <4>1, OutcomeOfKept
      <3>3. CASE j # parent[k]
        <4>1. /\ pc'[j] = IF j = k THEN "done" ELSE pc[j]
              /\ panicking'[j] = panicking[j]
          BY <2>1, <2>3, <3>1, <3>3 DEF TypeOK
        <4> QED BY <1>0, <2>1, <2>3, <4>1 DEF OutcomeOf, TypeOK
      <3> QED BY <3>2, <3>3
    <2> QED BY <1>13, <2>2, <2>3 DEF Put
  <1>14. ASSUME NEW g \in Goroutines, Migrate(g) PROVE OutcomeOf(j)'
    BY <1>0, <1>14 DEF Migrate, OutcomeOf
  <1>15. ASSUME NEW c \in Ctxs, DropPooled(c) PROVE OutcomeOf(j)'
    <2>1. pc[j] \in {"geterr", "unpack"} => ctx[j] # c
      BY <1>15 DEF DropPooled, CtxExclusive, Holding
    <2> QED BY <1>0, <1>15, <2>1 DEF DropPooled, OutcomeOf, TypeOK, Holding
  <1>16. CASE UNCHANGED vars
    BY <1>0, <1>16 DEF vars, OutcomeOf
  <1> QED
    BY <1>1, <1>2, <1>3, <1>4, <1>5, <1>6, <1>7, <1>8, <1>9, <1>10, <1>11, <1>12, <1>13,
       <1>14, <1>15, <1>16 DEF Next, Closure

-----------------------------------------------------------------------------
\* The conjunction is inductive: every step of every call, of the scheduler
\* and of the collector preserves it.
THEOREM Induction == Spec => []IndInv
  <1>1. IndInv /\ [Next]_vars => IndInv'
    BY NextTypes, NextStacked, NextExclusive, NextPacked, NextLocks, NextTracked, NextOwn,
       NextOutcome DEF IndInv
  <1> QED
    BY <1>1, InitInd, PTL DEF Spec

\* The reflect path is type correct (purego.go:130-269): a running closure
\* has a context, and its counters stay within the 32 slots whatever the
\* number of arguments.
THEOREM TypeCorrect == Spec => []TypeOK
  <1>1. IndInv => TypeOK
    BY DEF IndInv
  <1> QED
    BY <1>1, Induction, PTL

\* Contexts taken from slowCallPool are never shared (purego.go:131, 140).
THEOREM ContextsSafe == Spec => []CtxExclusive
  <1>1. IndInv => CtxExclusive
    BY DEF IndInv
  <1> QED
    BY <1>1, Induction, PTL

\* Contexts return to slowCallPool without anything kept alive, on every path
\* (purego.go:135-142).
THEOREM PoolSafe == Spec => []CleanPool
  <1>1. IndInv => CleanPool
    BY DEF IndInv
  <1> QED
    BY <1>1, Induction, PTL

\* A C function sees the arguments of its own call, in order, and they stay
\* in memory until it is over (purego.go:154-235).
THEOREM ArgumentsSafe == Spec => []ArgsIntact
  <1>1. IndInv => ArgsIntact
    <2> SUFFICES ASSUME IndInv, NEW k \in Calls, pc[k] \in {"inC", "geterr", "unpack"}
                 PROVE  /\ sees[k] = [i \in 1..shape[k].argc |-> <<k, i>>]
                        /\ \A i \in 1..shape[k].argc :
                              /\ ffiArgs[ctx[k]][i] = <<k, i>>
                              /\ keepAlive[ctx[k]][i] = <<k, i>>
      BY DEF ArgsIntact
    <2>1. k \in Holding /\ PackedAt(k)
      BY DEF IndInv, Packed, Holding
    <2>2. ffiArgsCount[k] = shape[k].argc /\ ffiArgsCount[k] \in 0..Cap
      BY <2>1 DEF PackedAt, IndInv, TypeOK
    <2>3. \A i \in 1..shape[k].argc : i \in Slots /\ i <= ffiArgsCount[k]
      BY <2>2, ConstantsAssumption DEF Slots
    <2> QED
      BY <2>1, <2>3 DEF PackedAt
  <1> QED
    BY <1>1, Induction, PTL

\* The error a call reports is the errno its own C function left
\* (purego.go:144-152, 240-243; syscall_unix.go:50-64).
THEOREM ErrorsSafe == Spec => []ErrnoOwn
  <1>1. IndInv => ErrnoOwn
    BY DEF IndInv
  <1> QED
    BY <1>1, Induction, PTL

\* A goroutine is wired to its thread exactly while one of its calls needs it
\* (purego.go:144-147).
THEOREM LocksSafe == Spec => []LockBalanced
  <1>1. IndInv => LockBalanced
    BY DEF IndInv
  <1> QED
    BY <1>1, Induction, PTL

\* A call nobody has made has no result and no phase but the first
\* (purego.go:130).
LEMMA InitRefines == Init => Abstract!Init
  BY DEF Init, Abstract!Init, Phase, Outcome, NoShape

\* A step that moves call k's phase to p and leaves the other calls where
\* they are moves the abstract phases so.
LEMMA PhaseMoves ==
  ASSUME NEW k \in Calls, NEW p, Phase(k)' = p,
         \A j \in Calls \ {k} : Phase(j)' = Phase(j)
  PROVE  [j \in Calls |-> Phase(j)]' = [[j \in Calls |-> Phase(j)] EXCEPT ![k] = p]
  OBVIOUS

\* A call that has not returned before nor after a step has no outcome, and
\* one whose results a step leaves alone keeps it.
LEMMA OutcomeSame ==
  ASSUME NEW j \in Calls,
         \/ Phase(j) # "returned" /\ Phase(j)' # "returned"
         \/ Phase(j)' = Phase(j) /\ retVal'[j] = retVal[j] /\ errVal'[j] = errVal[j]
  PROVE  Outcome(j)' = Outcome(j)
  BY DEF Outcome

\* Where a call stands, by its program counter and whether it unwinds.
LEMMA PhaseOf ==
  ASSUME TypeOK, NEW j \in Calls
  PROVE  /\ panicking[j] => Phase(j) = "panicked"
         /\ ~panicking[j] /\ pc[j] = "idle" => Phase(j) = "idle"
         /\ ~panicking[j] /\ pc[j] = "done" => Phase(j) = "returned"
         /\ ~panicking[j] /\ pc[j] \in {"get", "lock", "clear", "pack", "call"}
               => Phase(j) = "called"
         /\ ~panicking[j] /\ pc[j] \in {"inC", "geterr", "unpack", "unlock", "put"}
               => Phase(j) = "inC"
  BY DEF Phase, TypeOK, PCs

\* Every step of the reflect path (purego.go:130-269), of the scheduler and of
\* the collector is a step of a foreign call, or none.
LEMMA NextRefines == IndInv /\ IndInv' /\ [Next]_vars => [Abstract!Next]_(Abstract!vars)
  <1> SUFFICES ASSUME IndInv, IndInv', [Next]_vars
               PROVE  [Abstract!Next]_(Abstract!vars)
    OBVIOUS
  <1> USE DEF Goto, localVars, stackVars, runtimeVars, poolVars, memVars, ghostVars
  <1>0. TypeOK /\ TypeOK' /\ Stacked /\ OutcomeTracked /\ OutcomeTracked'
    BY DEF IndInv
  <1>d. \A k \in Calls : Deferred(k) \in {"unlock", "put"}
    BY DEF Deferred
  <1>q. \A j \in Calls : (Phase(j)' = "returned") <=> (pc'[j] = "done" /\ ~panicking'[j])
    BY <1>0 DEF Phase, TypeOK, PCs
  <1>s. ASSUME \A j \in Calls : Phase(j)' = Phase(j) /\ Outcome(j)' = Outcome(j),
               UNCHANGED <<shape, sees, left>>
        PROVE  UNCHANGED Abstract!vars
    BY <1>s DEF Abstract!vars
  <1>p. ASSUME NEW k \in Calls, Phase(k) \in {"called", "inC"}, Phase(k)' = "panicked",
               \A j \in Calls \ {k} : Phase(j)' = Phase(j),
               \A j \in Calls : Outcome(j)' = Outcome(j),
               UNCHANGED <<shape, sees, left>>
        PROVE  [Abstract!Next]_(Abstract!vars)
    <2>1. Abstract!Panic(k)
      BY <1>p, PhaseMoves DEF Abstract!Panic
    <2> QED BY <2>1 DEF Abstract!Next
  <1>e. ASSUME NEW S \in SUBSET Calls, NEW e \in Errnos \cup {0},
               \A k \in S : Phase(k) = "inC",
               left' = [j \in Calls |-> IF j \in S THEN e ELSE left[j]],
               \A j \in Calls : Phase(j)' = Phase(j) /\ Outcome(j)' = Outcome(j),
               UNCHANGED <<shape, sees>>
        PROVE  [Abstract!Next]_(Abstract!vars)
    <2>1. S \in SUBSET Abstract!InC
      BY <1>e DEF Abstract!InC
    <2>2. Abstract!LeaveErrno
      BY <1>e, <2>1 DEF Abstract!LeaveErrno
    <2> QED BY <2>2 DEF Abstract!Next
  <1>1. ASSUME NEW k \in Calls, Invoke(k) PROVE [Abstract!Next]_(Abstract!vars)
    <2>1. PICK s \in Shapes : shape' = [shape EXCEPT ![k] = s]
      BY <1>1 DEF Invoke
    <2>2. s.argc \in 0..MaxArgs
      BY ShapeTyping DEF ShapeType
    <2>3. [j \in Calls |-> shape[j].argc]'
            = [[j \in Calls |-> shape[j].argc] EXCEPT ![k] = s.argc]
      BY <1>0, <2>1 DEF TypeOK
    <2>a. ~panicking[k]
      BY <1>0, <1>1 DEF Invoke, OutcomeTracked, OutcomeOf
    <2>4. Phase(k) = "idle" /\ Phase(k)' = "called"
          /\ \A j \in Calls \ {k} : Phase(j)' = Phase(j)
      BY <1>0, <1>1, <2>a DEF Invoke, Phase, TypeOK
    <2>5. \A j \in Calls : Outcome(j)' = Outcome(j)
      BY <1>0, <1>1, <2>4, OutcomeSame DEF Invoke, TypeOK
    <2>6. Abstract!Invoke(k)
      BY <1>1, <2>2, <2>3, <2>4, <2>5, PhaseMoves DEF Invoke, Abstract!Invoke
    <2> QED BY <2>6 DEF Abstract!Next
  <1>2. ASSUME NEW k \in Calls, Get(k) PROVE [Abstract!Next]_(Abstract!vars)
    <2>1. \A j \in Calls : Phase(j)' = Phase(j)
      BY <1>0, <1>d, <1>2 DEF Get, Take, Phase, TypeOK
    <2>2. \A j \in Calls : Outcome(j)' = Outcome(j)
      BY <1>0, <1>q, <1>2, <2>1, OutcomeSame DEF Get, Take, TypeOK
    <2> QED BY <1>2, <1>s, <2>1, <2>2 DEF Get
  <1>3. ASSUME NEW k \in Calls, LockOSThread(k) PROVE [Abstract!Next]_(Abstract!vars)
    <2>1. \A j \in Calls : Phase(j)' = Phase(j)
      BY <1>0, <1>d, <1>3 DEF LockOSThread, Phase, TypeOK
    <2>2. \A j \in Calls : Outcome(j)' = Outcome(j)
      BY <1>0, <1>q, <1>3, <2>1, OutcomeSame DEF LockOSThread, TypeOK
    <2> QED BY <1>3, <1>s, <2>1, <2>2 DEF LockOSThread
  <1>4. ASSUME NEW k \in Calls, ClearErrno(k) PROVE [Abstract!Next]_(Abstract!vars)
    <2>1. \A j \in Calls : Phase(j)' = Phase(j)
      BY <1>0, <1>4 DEF ClearErrno, Phase, TypeOK
    <2>2. \A j \in Calls : Outcome(j)' = Outcome(j)
      BY <1>4, <2>1, OutcomeSame DEF ClearErrno
    <2>3. CASE HasErrnoFn
      <3>1. left[k] = 0
        BY <1>0, <1>4 DEF ClearErrno, OutcomeTracked, OutcomeOf
      <3>2. left' = [j \in Calls |-> IF j \in InC(gor[k]) \cup {k} THEN 0 ELSE left[j]]
        BY <1>4, <2>3 DEF ClearErrno, WriteErrno
      <3>3. left' = [j \in Calls |-> IF j \in InC(gor[k]) THEN 0 ELSE left[j]]
        BY <3>1, <3>2
      <3>4. InC(gor[k]) \in SUBSET Calls /\ \A j \in InC(gor[k]) : Phase(j) = "inC"
        BY <1>0, PhaseOf DEF InC, OutcomeTracked, OutcomeOf
      <3> QED BY <1>4, <1>e, <2>1, <2>2, <3>3, <3>4 DEF ClearErrno
    <2>4. CASE ~HasErrnoFn
      BY <1>4, <1>s, <2>1, <2>2, <2>4 DEF ClearErrno
    <2> QED BY <2>3, <2>4
  <1>5. ASSUME NEW k \in Calls, PackArg(k) PROVE [Abstract!Next]_(Abstract!vars)
    <2>0. UNCHANGED <<shape, left, errVal>> /\ ~panicking[k] /\ pc[k] = "pack"
      BY <1>0, <1>5 DEF PackArg, OutcomeTracked, OutcomeOf
    <2>1. CASE Panic(k) /\ UNCHANGED <<sees, retVal>>
      <3>1. Phase(k) = "called" /\ Phase(k)' = "panicked"
            /\ \A j \in Calls \ {k} : Phase(j)' = Phase(j)
        BY <1>0, <2>0, <2>1 DEF Panic, Phase, TypeOK
      <3>2. \A j \in Calls : Outcome(j)' = Outcome(j)
        BY <1>5, <2>1, <3>1, OutcomeSame DEF PackArg
      <3> QED BY <1>p, <2>0, <2>1, <3>1, <3>2
    <2>2. CASE UNCHANGED <<pc, panicking>> /\ UNCHANGED retVal
      <3>1. \A j \in Calls : Phase(j)' = Phase(j)
        BY <1>0, <1>d, <2>0, <2>2 DEF Phase, TypeOK
      <3>2. \A j \in Calls : Outcome(j)' = Outcome(j)
        BY <1>0, <1>q, <1>5, <2>0, <2>2, <3>1, OutcomeSame DEF PackArg, TypeOK
      <3> QED BY <1>5, <1>s, <2>0, <2>2, <3>1, <3>2 DEF PackArg
    <2> QED BY <1>5, <2>1, <2>2 DEF PackArg
  <1>6. ASSUME NEW k \in Calls, Prepare(k) PROVE [Abstract!Next]_(Abstract!vars)
    <2>0. UNCHANGED <<shape, left, errVal>> /\ ~panicking[k] /\ pc[k] = "pack"
      BY <1>0, <1>6 DEF Prepare, OutcomeTracked, OutcomeOf
    <2>1. CASE Panic(k) /\ UNCHANGED <<sees, retVal>>
      <3>1. Phase(k) = "called" /\ Phase(k)' = "panicked"
            /\ \A j \in Calls \ {k} : Phase(j)' = Phase(j)
        BY <1>0, <2>0, <2>1 DEF Panic, Phase, TypeOK
      <3>2. \A j \in Calls : Outcome(j)' = Outcome(j)
        BY <1>6, <2>1, <3>1, OutcomeSame DEF Prepare
      <3> QED BY <1>p, <2>0, <2>1, <3>1, <3>2
    <2>2. CASE Goto(k, "call") /\ UNCHANGED panicking
      <3>1. \A j \in Calls : Phase(j)' = Phase(j)
        BY <1>0, <1>d, <2>0, <2>2 DEF Phase, TypeOK
      <3>2. \A j \in Calls : Outcome(j)' = Outcome(j)
        BY <1>0, <1>q, <1>6, <2>0, <2>2, <3>1, OutcomeSame DEF Prepare, TypeOK
      <3> QED BY <1>6, <1>s, <2>0, <2>2, <3>1, <3>2 DEF Prepare
    <2> QED BY <1>6, <2>1, <2>2 DEF Prepare
  <1>7. ASSUME NEW k \in Calls, CallFunction(k) PROVE [Abstract!Next]_(Abstract!vars)
    <2>0. UNCHANGED <<shape, left, errVal>> /\ ~panicking[k] /\ pc[k] = "call"
      BY <1>0, <1>7 DEF CallFunction, OutcomeTracked, OutcomeOf
    <2>1. CASE Panic(k) /\ UNCHANGED <<sees, retVal>>
      <3>1. Phase(k) = "called" /\ Phase(k)' = "panicked"
            /\ \A j \in Calls \ {k} : Phase(j)' = Phase(j)
        BY <1>0, <2>0, <2>1 DEF Panic, Phase, TypeOK
      <3>2. \A j \in Calls : Outcome(j)' = Outcome(j)
        BY <1>7, <2>1, <3>1, OutcomeSame DEF CallFunction
      <3> QED BY <1>p, <2>0, <2>1, <3>1, <3>2
    <2>2. CASE /\ Goto(k, "inC") /\ UNCHANGED panicking
               /\ sees' = [sees EXCEPT ![k] =
                             [i \in 1..ffiArgsCount[k] |-> ffiArgs[ctx[k]][i]]]
      <3>1. Phase(k) = "called" /\ Phase(k)' = "inC"
            /\ \A j \in Calls \ {k} : Phase(j)' = Phase(j)
        BY <1>0, <2>0, <2>2 DEF Phase, TypeOK
      <3>2. \A j \in Calls : Outcome(j)' = Outcome(j)
        BY <1>7, <2>2, <3>1, OutcomeSame DEF CallFunction
      <3>3. PackedAt(k) /\ ffiArgsCount[k] = shape[k].argc /\ ffiArgsCount[k] \in 0..Cap
        BY <1>0, <2>0 DEF IndInv, Packed, PackedAt, Holding, TypeOK
      <3>4. \A i \in 1..ffiArgsCount[k] : i \in Slots /\ i <= ffiArgsCount[k]
        BY <3>3, ConstantsAssumption DEF Slots
      <3>5. [i \in 1..ffiArgsCount[k] |-> ffiArgs[ctx[k]][i]]
              = Abstract!Args(k, [j \in Calls |-> shape[j].argc][k])
        BY <3>3, <3>4 DEF PackedAt, Abstract!Args
      <3>6. Abstract!Enter(k)
        BY <1>7, <2>0, <2>2, <3>1, <3>2, <3>5, PhaseMoves DEF CallFunction, Abstract!Enter
      <3> QED BY <3>6 DEF Abstract!Next
    <2> QED BY <1>7, <2>1, <2>2 DEF CallFunction
  <1>8. ASSUME NEW k \in Calls, CSetErrno(k) PROVE [Abstract!Next]_(Abstract!vars)
    <2>1. \A j \in Calls : Phase(j)' = Phase(j)
      BY <1>8 DEF CSetErrno, Phase
    <2>2. \A j \in Calls : Outcome(j)' = Outcome(j)
      BY <1>8, <2>1, OutcomeSame DEF CSetErrno
    <2>3. PICK e \in Errnos : left' = [j \in Calls |-> IF j \in InC(gor[k]) THEN e ELSE left[j]]
      BY <1>8 DEF CSetErrno, WriteErrno
    <2>4. InC(gor[k]) \in SUBSET Calls /\ \A j \in InC(gor[k]) : Phase(j) = "inC"
      BY <1>0, PhaseOf DEF InC, OutcomeTracked, OutcomeOf
    <2> QED BY <1>8, <1>e, <2>1, <2>2, <2>3, <2>4 DEF CSetErrno
  <1>9. ASSUME NEW k \in Calls, CReturn(k) PROVE [Abstract!Next]_(Abstract!vars)
    <2>1. \A j \in Calls : Phase(j)' = Phase(j)
      BY <1>0, <1>d, <1>9 DEF CReturn, Phase, TypeOK
    <2>2. \A j \in Calls : Outcome(j)' = Outcome(j)
      BY <1>0, <1>q, <1>9, <2>1, OutcomeSame DEF CReturn, TypeOK
    <2> QED BY <1>9, <1>s, <2>1, <2>2 DEF CReturn
  <1>10. ASSUME NEW k \in Calls, GetErr(k) PROVE [Abstract!Next]_(Abstract!vars)
    <2>1. \A j \in Calls : Phase(j)' = Phase(j)
      BY <1>0, <1>d, <1>10 DEF GetErr, Phase, TypeOK
    <2>2. \A j \in Calls : Outcome(j)' = Outcome(j)
      BY <1>0, <1>q, <1>10, <2>1, OutcomeSame DEF GetErr, TypeOK
    <2> QED BY <1>10, <1>s, <2>1, <2>2 DEF GetErr
  <1>11. ASSUME NEW k \in Calls, Unpack(k) PROVE [Abstract!Next]_(Abstract!vars)
    <2>0. UNCHANGED <<shape, left, errVal>> /\ ~panicking[k] /\ pc[k] = "unpack"
      BY <1>0, <1>11 DEF Unpack, OutcomeTracked, OutcomeOf
    <2>1. CASE Panic(k) /\ UNCHANGED <<sees, retVal>>
      <3>1. Phase(k) = "inC" /\ Phase(k)' = "panicked"
            /\ \A j \in Calls \ {k} : Phase(j)' = Phase(j)
        BY <1>0, <2>0, <2>1 DEF Panic, Phase, TypeOK
      <3>2. \A j \in Calls : Outcome(j)' = Outcome(j)
        BY <1>11, <2>1, <3>1, OutcomeSame DEF Unpack
      <3> QED BY <1>p, <2>0, <2>1, <3>1, <3>2
    <2>2. CASE /\ Goto(k, Deferred(k)) /\ UNCHANGED <<panicking, sees>>
               /\ \A j \in Calls \ {k} : retVal'[j] = retVal[j]
      <3>1. \A j \in Calls : Phase(j)' = Phase(j)
        BY <1>0, <1>d, <2>0, <2>2 DEF Phase, TypeOK
      <3>2. Phase(k) = "inC"
        BY <1>0, <2>0, PhaseOf
      <3>3. \A j \in Calls : Outcome(j)' = Outcome(j)
        BY <2>0, <2>2, <3>1, <3>2, OutcomeSame
      <3> QED BY <1>s, <2>0, <2>2, <3>1, <3>3
    <2> QED BY <1>0, <1>11, <2>1, <2>2 DEF Unpack, TypeOK
  <1>12. ASSUME NEW k \in Calls, UnlockOSThread(k) PROVE [Abstract!Next]_(Abstract!vars)
    <2>1. \A j \in Calls : Phase(j)' = Phase(j)
      BY <1>0, <1>d, <1>12 DEF UnlockOSThread, Phase, TypeOK
    <2>2. \A j \in Calls : Outcome(j)' = Outcome(j)
      BY <1>0, <1>q, <1>12, <2>1, OutcomeSame DEF UnlockOSThread, TypeOK
    <2> QED BY <1>12, <1>s, <2>1, <2>2 DEF UnlockOSThread
  <1>13. ASSUME NEW k \in Calls, Put(k) PROVE [Abstract!Next]_(Abstract!vars)
    <2>0. UNCHANGED <<shape, sees, left, errVal, retVal>> /\ pc[k] = "put"
      BY <1>13 DEF Put
    <2>1. CASE Goto(k, "done") /\ UNCHANGED panicking /\ panicking[k]
      <3>1. \A j \in Calls : Phase(j)' = Phase(j)
        BY <1>0, <2>0, <2>1 DEF Phase, TypeOK
      <3>2. \A j \in Calls : Outcome(j)' = Outcome(j)
        BY <2>0, <3>1, OutcomeSame
      <3> QED BY <1>s, <2>0, <3>1, <3>2
    <2>2. CASE Goto(k, "done") /\ UNCHANGED panicking /\ ~panicking[k]
      <3>1. Phase(k) = "inC" /\ Phase(k)' = "returned"
            /\ \A j \in Calls \ {k} : Phase(j)' = Phase(j)
        BY <1>0, <2>0, <2>2 DEF Phase, TypeOK
      <3>2. \A j \in Calls \ {k} : Outcome(j)' = Outcome(j)
        BY <2>0, <3>1, OutcomeSame
      <3>3. retVal[k] = k
        BY <1>0, <2>0, <2>2 DEF OutcomeTracked, OutcomeOf
      <3>4. Outcome(k)' = [val |-> k, err |-> errVal[k]]
        BY <2>0, <3>1, <3>3 DEF Outcome
      <3>5. errVal[k] \in {0, left[k]}
        BY <1>0, <2>0, <2>2 DEF IndInv, ErrnoOwn, OutcomeTracked, OutcomeOf
      <3>6. Abstract!Return(k)
        BY <2>0, <3>1, <3>2, <3>4, <3>5, PhaseMoves DEF Abstract!Return
      <3> QED BY <3>6 DEF Abstract!Next
    <2>3. CASE /\ panicking[k] /\ parent[k] # NoCall
               /\ pc' = [pc EXCEPT ![k] = "done", ![parent[k]] = Deferred(parent[k])]
               /\ panicking' = [panicking EXCEPT ![parent[k]] = TRUE]
      <3>0. k \in Active
        BY <2>0 DEF Active
      <3>a. parent[k] \in Calls /\ pc[parent[k]] = "inC"
        BY <1>0, <2>3, <3>0 DEF Stacked, TypeOK
      <3>1. parent[k] \in Calls /\ pc[parent[k]] = "inC" /\ ~panicking[parent[k]]
        BY <1>0, <3>a DEF OutcomeTracked, OutcomeOf
      <3>p. PICK q \in Calls : q = parent[k]
        BY <3>1
      <3>2. Phase(q) = "inC" /\ Phase(q)' = "panicked"
        BY <1>0, <2>3, <3>1, <3>p DEF Phase, TypeOK
      <3>3. \A j \in Calls \ {q} : Phase(j)' = Phase(j)
        BY <1>0, <2>0, <2>3, <3>1, <3>p, ZenonT(60) DEF Phase, TypeOK
      <3>4. \A j \in Calls : Outcome(j)' = Outcome(j)
        BY <2>0, <3>2, <3>3, OutcomeSame
      <3> QED BY <1>p, <2>0, <3>2, <3>3, <3>4
    <2> QED BY <1>13, <2>1, <2>2, <2>3 DEF Put
  <1>14. ASSUME NEW g \in Goroutines, Migrate(g) PROVE [Abstract!Next]_(Abstract!vars)
    <2>1. \A j \in Calls : Phase(j)' = Phase(j)
      BY <1>0, <1>d, <1>14 DEF Migrate, Phase, TypeOK
    <2>2. \A j \in Calls : Outcome(j)' = Outcome(j)
      BY <1>0, <1>q, <1>14, <2>1, OutcomeSame DEF Migrate, TypeOK
    <2> QED BY <1>14, <1>s, <2>1, <2>2 DEF Migrate
  <1>15. ASSUME NEW c \in Ctxs, DropPooled(c) PROVE [Abstract!Next]_(Abstract!vars)
    <2>1. \A j \in Calls : Phase(j)' = Phase(j)
      BY <1>0, <1>d, <1>15 DEF DropPooled, Phase, TypeOK
    <2>2. \A j \in Calls : Outcome(j)' = Outcome(j)
      BY <1>0, <1>q, <1>15, <2>1, OutcomeSame DEF DropPooled, TypeOK
    <2> QED BY <1>15, <1>s, <2>1, <2>2 DEF DropPooled
  <1>16. CASE UNCHANGED vars
    <2>1. \A j \in Calls : Phase(j)' = Phase(j)
      BY <1>0, <1>d, <1>16 DEF vars, Phase, TypeOK
    <2>2. \A j \in Calls : Outcome(j)' = Outcome(j)
      BY <1>0, <1>q, <1>16, <2>1, OutcomeSame DEF vars, TypeOK
    <2> QED BY <1>16, <1>s, <2>1, <2>2 DEF vars
  <1> QED
    BY <1>1, <1>2, <1>3, <1>4, <1>5, <1>6, <1>7, <1>8, <1>9, <1>10, <1>11, <1>12, <1>13,
       <1>14, <1>15, <1>16 DEF Next, Closure

\* The reflect path implements a foreign call (purego.go:130-269, ForeignCall):
\* for any number of calls, goroutines, threads and contexts, and however calls
\* nest and panic, the C function sees the arguments of its own call, and the
\* call returns what that execution produced, with the errno it left or none.
THEOREM Refinement == Spec => ImplementsForeignCall
  <1> QED
    BY Induction, InitRefines, NextRefines, PTL
    DEF Spec, ImplementsForeignCall, Abstract!Spec
=============================================================================
