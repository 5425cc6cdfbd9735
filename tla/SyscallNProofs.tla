--------------------------- MODULE SyscallNProofs ---------------------------
(***************************************************************************)
(* Proofs about SyscallN, for any number of calls and contexts, any        *)
(* capacity and any width of words: the table of call interfaces is        *)
(* complete before anyone uses it, contexts belong to one call at a time,  *)
(* and every call returns the result of its own C function.                *)
(***************************************************************************)
EXTENDS SyscallN, Integers, TLAPS

(* The bounds are numbers, zero is a word, and what stands for nothing is    *)
(* none of the things it stands beside.                                      *)
LEMMA Bounds ==
  /\ Cap \in Nat /\ MaxArgs \in Nat /\ 0 \in Words /\ NoOut \notin Words
  /\ NoCtx \notin Ctxs /\ "new" \notin Calls /\ "done" \notin Calls
  BY SyscallAssumption DEF Words

(* Every step of SyscallN (syscall_unix.go:118-165) and of its surroundings  *)
(* keeps the types, and no call with too many arguments gets a context.      *)
LEMMA NextTypes == IndInv /\ [Next]_vars => TypeOK'
  <1> SUFFICES ASSUME IndInv, [Next]_vars PROVE TypeOK'
    OBVIOUS
  <1> USE DEF Goto, onceVars, poolVars, memVars, ghostVars
  <1>1. ASSUME NEW k \in Calls, Invoke(k) PROVE TypeOK'
    BY <1>1, Bounds DEF Invoke, IndInv, TypeOK, Holding, PCs
  <1>2. ASSUME NEW k \in Calls, CheckFn(k) PROVE TypeOK'
    BY <1>2, Bounds DEF CheckFn, IndInv, TypeOK, Holding, PCs
  <1>3. ASSUME NEW k \in Calls, EnterOnce(k) PROVE TypeOK'
    BY <1>3, Bounds DEF EnterOnce, IndInv, TypeOK, Holding, PCs
  <1>4. ASSUME NEW k \in Calls, PrepareNext(k) PROVE TypeOK'
    BY <1>4, Bounds DEF PrepareNext, IndInv, TypeOK, Holding, PCs
  <1>5. ASSUME NEW k \in Calls, Check(k) PROVE TypeOK'
    <2>1. pc' \in [Calls -> PCs]
      BY <1>5 DEF Check, IndInv, TypeOK, PCs
    <2> QED BY <1>5, <2>1 DEF Check, IndInv, TypeOK, Holding
  <1>6. ASSUME NEW k \in Calls, Get(k) PROVE TypeOK'
    <2>1. PICK c \in pool \cup fresh : Take(k, c)
      BY <1>6 DEF Get
    <2>2. c \in Ctxs /\ nArgs[k] <= Cap
      BY <1>6, <2>1 DEF Get, IndInv, TypeOK, OnceFirst
    <2> QED BY <1>6, <2>1, <2>2 DEF Get, Take, IndInv, TypeOK, Holding, PCs
  <1>7. ASSUME NEW k \in Calls, Copy(k) PROVE TypeOK'
    <2>1. ctx[k] \in Ctxs /\ nArgs[k] \in 0..MaxArgs
      BY <1>7 DEF Copy, IndInv, TypeOK, Holding
    <2>2. ASSUME NEW i \in Slots, i <= nArgs[k] PROVE <<k, i>> \in Calls \X (1..MaxArgs)
      BY <2>1, <2>2, Bounds DEF Slots
    <2>3. Copied(k) \in [Slots -> (Calls \X (1..MaxArgs)) \cup {Nil}]
      BY <2>1, <2>2 DEF Copied, IndInv, TypeOK
    <2> QED BY <1>7, <2>1, <2>3, Bounds DEF Copy, IndInv, TypeOK, Holding, PCs
  <1>8. ASSUME NEW k \in Calls, CallFunction(k) PROVE TypeOK'
    BY <1>8, Bounds DEF CallFunction, IndInv, TypeOK, Holding, PCs
  <1>9. ASSUME NEW k \in Calls, CReturn(k) PROVE TypeOK'
    BY <1>9, Bounds DEF CReturn, IndInv, TypeOK, Holding, PCs
  <1>10. ASSUME NEW k \in Calls, CPanic(k) PROVE TypeOK'
    BY <1>10, Bounds DEF CPanic, IndInv, TypeOK, Holding, PCs
  <1>11. ASSUME NEW k \in Calls, Collect(k) PROVE TypeOK'
    <2>1. ctx[k] \in Ctxs
      BY <1>11 DEF Collect, IndInv, TypeOK, Holding
    <2>2. (IF IsMinusOne(result[ctx[k]]) THEN callErrno[k] ELSE 0) \in Errnos \cup {0}
      BY DEF IndInv, TypeOK
    <2> QED BY <1>11, <2>1, <2>2 DEF Collect, IndInv, TypeOK, Holding, PCs
  <1>12. ASSUME NEW k \in Calls, Put(k) PROVE TypeOK'
    BY <1>12, Bounds DEF Put, IndInv, TypeOK, Holding, PCs
  <1>13. ASSUME NEW c \in Ctxs, DropPooled(c) PROVE TypeOK'
    BY <1>13, Bounds DEF DropPooled, IndInv, TypeOK, Holding, PCs
  <1>14. CASE UNCHANGED vars
    BY <1>14, Bounds DEF vars, IndInv, TypeOK, Holding, PCs
  <1> QED BY <1>1, <1>2, <1>3, <1>4, <1>5, <1>6, <1>7,
             <1>8, <1>9, <1>10, <1>11, <1>12, <1>13, <1>14
      DEF Next, Body, Quiescent

(* Every step gives a context to one call at most                            *)
(* (syscall_unix.go:135, 157).                                               *)
LEMMA NextContexts == IndInv /\ [Next]_vars => CtxExclusive'
  <1> SUFFICES ASSUME IndInv, [Next]_vars PROVE CtxExclusive'
    OBVIOUS
  <1> USE DEF Goto, onceVars, poolVars, memVars, ghostVars
  <1>1. ASSUME NEW k \in Calls, Invoke(k) PROVE CtxExclusive'
    BY <1>1 DEF Invoke, IndInv, TypeOK, CtxExclusive, Holding, PCs
  <1>2. ASSUME NEW k \in Calls, CheckFn(k) PROVE CtxExclusive'
    BY <1>2 DEF CheckFn, IndInv, TypeOK, CtxExclusive, Holding, PCs
  <1>3. ASSUME NEW k \in Calls, EnterOnce(k) PROVE CtxExclusive'
    BY <1>3 DEF EnterOnce, IndInv, TypeOK, CtxExclusive, Holding, PCs
  <1>4. ASSUME NEW k \in Calls, PrepareNext(k) PROVE CtxExclusive'
    BY <1>4 DEF PrepareNext, IndInv, TypeOK, CtxExclusive, Holding, PCs
  <1>5. ASSUME NEW k \in Calls, Check(k) PROVE CtxExclusive'
    BY <1>5 DEF Check, IndInv, TypeOK, CtxExclusive, Holding, PCs
  <1>6. ASSUME NEW k \in Calls, Get(k) PROVE CtxExclusive'
    BY <1>6 DEF Get, IndInv, TypeOK, CtxExclusive, Holding, PCs, Take
  <1>7. ASSUME NEW k \in Calls, Copy(k) PROVE CtxExclusive'
    BY <1>7 DEF Copy, IndInv, TypeOK, CtxExclusive, Holding, PCs
  <1>8. ASSUME NEW k \in Calls, CallFunction(k) PROVE CtxExclusive'
    BY <1>8 DEF CallFunction, IndInv, TypeOK, CtxExclusive, Holding, PCs
  <1>9. ASSUME NEW k \in Calls, CReturn(k) PROVE CtxExclusive'
    BY <1>9 DEF CReturn, IndInv, TypeOK, CtxExclusive, Holding, PCs
  <1>10. ASSUME NEW k \in Calls, CPanic(k) PROVE CtxExclusive'
    BY <1>10 DEF CPanic, IndInv, TypeOK, CtxExclusive, Holding, PCs
  <1>11. ASSUME NEW k \in Calls, Collect(k) PROVE CtxExclusive'
    BY <1>11 DEF Collect, IndInv, TypeOK, CtxExclusive, Holding, PCs
  <1>12. ASSUME NEW k \in Calls, Put(k) PROVE CtxExclusive'
    BY <1>12 DEF Put, IndInv, TypeOK, CtxExclusive, Holding, PCs
  <1>13. ASSUME NEW c \in Ctxs, DropPooled(c) PROVE CtxExclusive'
    BY <1>13 DEF DropPooled, IndInv, TypeOK, CtxExclusive, Holding, PCs
  <1>14. CASE UNCHANGED vars
    BY <1>14 DEF vars, IndInv, TypeOK, CtxExclusive, Holding, PCs
  <1> QED BY <1>1, <1>2, <1>3, <1>4, <1>5, <1>6, <1>7,
             <1>8, <1>9, <1>10, <1>11, <1>12, <1>13, <1>14
      DEF Next, Body, Quiescent

(* Nobody gets past syscallOnce before the table is complete                 *)
(* (syscall_unix.go:96-110, 124).                                            *)
LEMMA NextOnce == IndInv /\ [Next]_vars => OnceFirst'
  <1> SUFFICES ASSUME IndInv, [Next]_vars PROVE OnceFirst'
    OBVIOUS
  <1> USE DEF Goto, onceVars, poolVars, memVars, ghostVars
  <1>1. ASSUME NEW k \in Calls, Invoke(k) PROVE OnceFirst'
    BY <1>1, Bounds DEF Invoke, IndInv, TypeOK, OnceFirst, PCs
  <1>2. ASSUME NEW k \in Calls, CheckFn(k) PROVE OnceFirst'
    BY <1>2, Bounds DEF CheckFn, IndInv, TypeOK, OnceFirst, PCs
  <1>3. ASSUME NEW k \in Calls, EnterOnce(k) PROVE OnceFirst'
    BY <1>3, Bounds DEF EnterOnce, IndInv, TypeOK, OnceFirst, PCs
  <1>4. ASSUME NEW k \in Calls, PrepareNext(k) PROVE OnceFirst'
    BY <1>4, Bounds DEF PrepareNext, IndInv, TypeOK, OnceFirst, PCs
  <1>5. ASSUME NEW k \in Calls, Check(k) PROVE OnceFirst'
    BY <1>5, Bounds DEF Check, IndInv, TypeOK, OnceFirst, PCs
  <1>6. ASSUME NEW k \in Calls, Get(k) PROVE OnceFirst'
    BY <1>6, Bounds DEF Get, IndInv, TypeOK, OnceFirst, PCs, Take
  <1>7. ASSUME NEW k \in Calls, Copy(k) PROVE OnceFirst'
    BY <1>7, Bounds DEF Copy, IndInv, TypeOK, OnceFirst, PCs
  <1>8. ASSUME NEW k \in Calls, CallFunction(k) PROVE OnceFirst'
    BY <1>8, Bounds DEF CallFunction, IndInv, TypeOK, OnceFirst, PCs
  <1>9. ASSUME NEW k \in Calls, CReturn(k) PROVE OnceFirst'
    BY <1>9, Bounds DEF CReturn, IndInv, TypeOK, OnceFirst, PCs
  <1>10. ASSUME NEW k \in Calls, CPanic(k) PROVE OnceFirst'
    BY <1>10, Bounds DEF CPanic, IndInv, TypeOK, OnceFirst, PCs
  <1>11. ASSUME NEW k \in Calls, Collect(k) PROVE OnceFirst'
    BY <1>11, Bounds DEF Collect, IndInv, TypeOK, OnceFirst, PCs
  <1>12. ASSUME NEW k \in Calls, Put(k) PROVE OnceFirst'
    BY <1>12, Bounds DEF Put, IndInv, TypeOK, OnceFirst, PCs
  <1>13. ASSUME NEW c \in Ctxs, DropPooled(c) PROVE OnceFirst'
    BY <1>13, Bounds DEF DropPooled, IndInv, TypeOK, OnceFirst, PCs
  <1>14. CASE UNCHANGED vars
    BY <1>14, Bounds DEF vars, IndInv, TypeOK, OnceFirst, PCs
  <1> QED BY <1>1, <1>2, <1>3, <1>4, <1>5, <1>6, <1>7,
             <1>8, <1>9, <1>10, <1>11, <1>12, <1>13, <1>14
      DEF Next, Body, Quiescent

(* A result is written by the call whose context it is in, and cleared       *)
(* before the call (syscall_unix.go:139-146).                                *)
LEMMA NextResults == IndInv /\ [Next]_vars => ResultTracked'
  <1> SUFFICES ASSUME IndInv, [Next]_vars, NEW j \in Calls PROVE ResultOf(j)'
    BY DEF ResultTracked
  <1> USE DEF Goto, onceVars, poolVars, memVars, ghostVars
  <1>1. ASSUME NEW k \in Calls, Invoke(k) PROVE ResultOf(j)'
    BY <1>1, Bounds
    DEF Invoke, IndInv, TypeOK, CtxExclusive, ResultTracked, ResultOf,
        Returned, Holding, PCs
  <1>2. ASSUME NEW k \in Calls, CheckFn(k) PROVE ResultOf(j)'
    BY <1>2, Bounds
    DEF CheckFn, IndInv, TypeOK, CtxExclusive, ResultTracked, ResultOf,
        Returned, Holding, PCs
  <1>3. ASSUME NEW k \in Calls, EnterOnce(k) PROVE ResultOf(j)'
    BY <1>3, Bounds
    DEF EnterOnce, IndInv, TypeOK, CtxExclusive, ResultTracked, ResultOf,
        Returned, Holding, PCs
  <1>4. ASSUME NEW k \in Calls, PrepareNext(k) PROVE ResultOf(j)'
    BY <1>4, Bounds
    DEF PrepareNext, IndInv, TypeOK, CtxExclusive, ResultTracked, ResultOf,
        Returned, Holding, PCs
  <1>5. ASSUME NEW k \in Calls, Check(k) PROVE ResultOf(j)'
    BY <1>5, Bounds
    DEF Check, IndInv, TypeOK, CtxExclusive, ResultTracked, ResultOf, Returned,
        Holding, PCs
  <1>6. ASSUME NEW k \in Calls, Get(k) PROVE ResultOf(j)'
    BY <1>6, Bounds
    DEF Get, IndInv, TypeOK, CtxExclusive, ResultTracked, ResultOf, Returned,
        Holding, PCs, Take
  <1>7. ASSUME NEW k \in Calls, Copy(k) PROVE ResultOf(j)'
    BY <1>7, Bounds
    DEF Copy, IndInv, TypeOK, CtxExclusive, ResultTracked, ResultOf, Returned,
        Holding, PCs
  <1>8. ASSUME NEW k \in Calls, CallFunction(k) PROVE ResultOf(j)'
    BY <1>8, Bounds
    DEF CallFunction, IndInv, TypeOK, CtxExclusive, ResultTracked, ResultOf,
        Returned, Holding, PCs
  <1>9. ASSUME NEW k \in Calls, CReturn(k) PROVE ResultOf(j)'
    BY <1>9, Bounds
    DEF CReturn, IndInv, TypeOK, CtxExclusive, ResultTracked, ResultOf,
        Returned, Holding, PCs
  <1>10. ASSUME NEW k \in Calls, CPanic(k) PROVE ResultOf(j)'
    BY <1>10, Bounds
    DEF CPanic, IndInv, TypeOK, CtxExclusive, ResultTracked, ResultOf,
        Returned, Holding, PCs
  <1>11. ASSUME NEW k \in Calls, Collect(k) PROVE ResultOf(j)'
    BY <1>11, Bounds
    DEF Collect, IndInv, TypeOK, CtxExclusive, ResultTracked, ResultOf,
        Returned, Holding, PCs
  <1>12. ASSUME NEW k \in Calls, Put(k) PROVE ResultOf(j)'
    BY <1>12, Bounds
    DEF Put, IndInv, TypeOK, CtxExclusive, ResultTracked, ResultOf, Returned,
        Holding, PCs
  <1>13. ASSUME NEW c \in Ctxs, DropPooled(c) PROVE ResultOf(j)'
    BY <1>13, Bounds
    DEF DropPooled, IndInv, TypeOK, CtxExclusive, ResultTracked, ResultOf,
        Returned, Holding, PCs
  <1>14. CASE UNCHANGED vars
    BY <1>14, Bounds
    DEF vars, IndInv, TypeOK, CtxExclusive, ResultTracked, ResultOf, Returned,
        Holding, PCs
  <1> QED BY <1>1, <1>2, <1>3, <1>4, <1>5, <1>6, <1>7,
             <1>8, <1>9, <1>10, <1>11, <1>12, <1>13, <1>14
      DEF Next, Body, Quiescent

(* The arguments goffi reads are the call's own (syscall_unix.go:139), and   *)
(* the errno passed on is the one captured for this call                     *)
(* (syscall_unix.go:144, 148-155).                                           *)
LEMMA NextPassed == IndInv /\ [Next]_vars => Passed'
  <1> SUFFICES ASSUME IndInv, [Next]_vars, NEW j \in Calls PROVE PassedOf(j)'
    BY DEF Passed
  <1> USE DEF Goto, onceVars, poolVars, memVars, ghostVars
  <1>0. TypeOK /\ CtxExclusive /\ OnceFirst /\ ResultTracked /\ PassedOf(j)
    BY DEF IndInv, Passed
  <1>1. ASSUME NEW k \in Calls, Invoke(k) PROVE PassedOf(j)'
    BY <1>0, <1>1, Bounds DEF Invoke, TypeOK, CtxExclusive, ResultTracked,
       ResultOf, PassedOf, Holding
  <1>2. ASSUME NEW k \in Calls, CheckFn(k) PROVE PassedOf(j)'
    BY <1>0, <1>2, Bounds DEF CheckFn, TypeOK, CtxExclusive, ResultTracked,
       ResultOf, PassedOf, Holding
  <1>3. ASSUME NEW k \in Calls, EnterOnce(k) PROVE PassedOf(j)'
    BY <1>0, <1>3, Bounds DEF EnterOnce, TypeOK, CtxExclusive,
       ResultTracked, ResultOf, PassedOf, Holding
  <1>4. ASSUME NEW k \in Calls, PrepareNext(k) PROVE PassedOf(j)'
    BY <1>0, <1>4, Bounds DEF PrepareNext, TypeOK, CtxExclusive,
       ResultTracked, ResultOf, PassedOf, Holding
  <1>5. ASSUME NEW k \in Calls, Check(k) PROVE PassedOf(j)'
    BY <1>0, <1>5, Bounds DEF Check, TypeOK, CtxExclusive, ResultTracked,
       ResultOf, PassedOf, Holding
  <1>6. ASSUME NEW k \in Calls, Get(k) PROVE PassedOf(j)'
    BY <1>0, <1>6, Bounds DEF Get, Take, TypeOK, CtxExclusive,
       ResultTracked, ResultOf, PassedOf, Holding
  <1>7. ASSUME NEW k \in Calls, Copy(k) PROVE PassedOf(j)'
    <2>1. CASE j = k
      <3>1. ctx[k] \in Ctxs /\ nArgs[k] \in 0..MaxArgs /\ nArgs[k] <= Cap
        BY <1>0, <1>7 DEF Copy, TypeOK, Holding
      <3>2. \A i \in 1..nArgs[k] : i \in Slots /\ i <= nArgs[k]
        BY <3>1, Bounds DEF Slots
      <3>3. \A i \in 1..nArgs[k] : Copied(k)[i] = <<k, i>>
        BY <3>2 DEF Copied
      <3>4. args'[ctx[k]] = Copied(k)
        BY <1>0, <1>7, <3>1 DEF Copy, TypeOK
      <3> QED BY <1>0, <1>7, <2>1, <3>3, <3>4 DEF Copy, PassedOf, TypeOK
    <2>2. CASE j # k
      <3>1. pc[j] = "call" => ctx[j] # ctx[k]
        BY <1>0, <1>7, <2>2 DEF Copy, CtxExclusive, Holding
      <3> QED BY <1>0, <1>7, <2>2, <3>1 DEF Copy, PassedOf, TypeOK, Holding
    <2> QED BY <2>1, <2>2
  <1>8. ASSUME NEW k \in Calls, CallFunction(k) PROVE PassedOf(j)'
    BY <1>0, <1>8, Bounds DEF CallFunction, TypeOK, CtxExclusive,
       ResultTracked, ResultOf, PassedOf, Holding
  <1>9. ASSUME NEW k \in Calls, CReturn(k) PROVE PassedOf(j)'
    BY <1>0, <1>9, Bounds DEF CReturn, TypeOK, CtxExclusive, ResultTracked,
       ResultOf, PassedOf, Holding
  <1>10. ASSUME NEW k \in Calls, CPanic(k) PROVE PassedOf(j)'
    BY <1>0, <1>10, Bounds DEF CPanic, TypeOK, CtxExclusive, ResultTracked,
       ResultOf, PassedOf, Holding
  <1>11. ASSUME NEW k \in Calls, Collect(k) PROVE PassedOf(j)'
    BY <1>0, <1>11, Bounds DEF Collect, TypeOK, CtxExclusive, ResultTracked,
       ResultOf, PassedOf, Holding
  <1>12. ASSUME NEW k \in Calls, Put(k) PROVE PassedOf(j)'
    BY <1>0, <1>12, Bounds DEF Put, TypeOK, CtxExclusive, ResultTracked,
       ResultOf, PassedOf, Holding
  <1>13. ASSUME NEW c \in Ctxs, DropPooled(c) PROVE PassedOf(j)'
    <2>1. pc[j] = "call" => ctx[j] # c
      BY <1>0, <1>13 DEF DropPooled, CtxExclusive, Holding
    <2> QED BY <1>0, <1>13, <2>1 DEF DropPooled, PassedOf, TypeOK, Holding
  <1>14. CASE UNCHANGED vars
    BY <1>0, <1>14 DEF vars, PassedOf
  <1> QED BY <1>1, <1>2, <1>3, <1>4, <1>5, <1>6, <1>7,
             <1>8, <1>9, <1>10, <1>11, <1>12, <1>13, <1>14
      DEF Next, Body, Quiescent

(* An errno is passed on by whoever returns an int -1                        *)
(* (syscall_unix.go:148-155).                                                *)
LEMMA NextReported == IndInv /\ [Next]_vars => Reported'
  <1> SUFFICES ASSUME IndInv, [Next]_vars, NEW j \in Calls PROVE ReportedOf(j)'
    BY DEF Reported
  <1> USE DEF Goto, onceVars, poolVars, memVars, ghostVars
  <1>0. TypeOK /\ ReportedOf(j)
    BY DEF IndInv, Reported
  <1>s. ASSUME UNCHANGED <<r1, err, callErrno>>, pc'[j] \in {"put", "done"} => pc[j] \in {"put", "done"}
        PROVE  ReportedOf(j)'
    BY <1>0, <1>s DEF ReportedOf, IsMinusOne
  <1>1. ASSUME NEW k \in Calls, Invoke(k) PROVE ReportedOf(j)'
    BY <1>0, <1>1, <1>s DEF Invoke, TypeOK
  <1>2. ASSUME NEW k \in Calls, CheckFn(k) PROVE ReportedOf(j)'
    BY <1>0, <1>2, <1>s DEF CheckFn, TypeOK
  <1>3. ASSUME NEW k \in Calls, EnterOnce(k) PROVE ReportedOf(j)'
    BY <1>0, <1>3, <1>s DEF EnterOnce, TypeOK
  <1>4. ASSUME NEW k \in Calls, PrepareNext(k) PROVE ReportedOf(j)'
    BY <1>0, <1>4, <1>s DEF PrepareNext, TypeOK
  <1>5. ASSUME NEW k \in Calls, Check(k) PROVE ReportedOf(j)'
    BY <1>0, <1>5, <1>s DEF Check, TypeOK
  <1>6. ASSUME NEW k \in Calls, Get(k) PROVE ReportedOf(j)'
    BY <1>0, <1>6, <1>s DEF Get, TypeOK
  <1>7. ASSUME NEW k \in Calls, Copy(k) PROVE ReportedOf(j)'
    BY <1>0, <1>7, <1>s DEF Copy, TypeOK
  <1>8. ASSUME NEW k \in Calls, CallFunction(k) PROVE ReportedOf(j)'
    BY <1>0, <1>8, <1>s DEF CallFunction, TypeOK
  <1>9. ASSUME NEW k \in Calls, CReturn(k) PROVE ReportedOf(j)'
    BY <1>0, <1>9 DEF CReturn, ReportedOf, IsMinusOne, TypeOK
  <1>10. ASSUME NEW k \in Calls, CPanic(k) PROVE ReportedOf(j)'
    BY <1>0, <1>10, <1>s DEF CPanic, TypeOK
  <1>11. ASSUME NEW k \in Calls, Collect(k) PROVE ReportedOf(j)'
    <2>1. CASE j = k
      <3>1. PICK w : w = result[ctx[k]]
        OBVIOUS
      <3>2. r1'[k] = w /\ callErrno'[k] = callErrno[k]
            /\ err'[k] = IF IsMinusOne(w) THEN callErrno[k] ELSE 0
        BY <1>0, <1>11, <3>1 DEF Collect, TypeOK
      <3> QED BY <2>1, <3>2 DEF ReportedOf, IsMinusOne
    <2>2. CASE j # k
      <3>1. pc'[j] = pc[j] /\ r1'[j] = r1[j] /\ err'[j] = err[j] /\ callErrno'[j] = callErrno[j]
        BY <1>0, <1>11, <2>2 DEF Collect, TypeOK
      <3> QED BY <1>0, <3>1 DEF ReportedOf, IsMinusOne
    <2> QED BY <2>1, <2>2
  <1>12. ASSUME NEW k \in Calls, Put(k) PROVE ReportedOf(j)'
    BY <1>0, <1>12, <1>s DEF Put, TypeOK
  <1>13. ASSUME NEW c \in Ctxs, DropPooled(c) PROVE ReportedOf(j)'
    BY <1>13, <1>s DEF DropPooled
  <1>14. CASE UNCHANGED vars
    BY <1>14, <1>s DEF vars
  <1> QED BY <1>1, <1>2, <1>3, <1>4, <1>5, <1>6, <1>7,
             <1>8, <1>9, <1>10, <1>11, <1>12, <1>13, <1>14
      DEF Next, Body, Quiescent

(* At the beginning no call is made and the table is empty.                  *)
LEMMA InitHolds == Init => IndInv
  <1> SUFFICES ASSUME Init PROVE IndInv
    OBVIOUS
  <1>1. TypeOK
    BY Bounds DEF Init, TypeOK, PCs, Holding
  <1>2. CtxExclusive /\ OnceFirst /\ ResultTracked /\ Passed /\ Reported
    BY DEF Init, CtxExclusive, OnceFirst, ResultTracked, ResultOf, Holding,
           Passed, PassedOf, Reported, ReportedOf
  <1> QED BY <1>1, <1>2 DEF IndInv

(* The invariant of all calls of SyscallN (syscall_unix.go:118-165) is       *)
(* inductive.                                                                *)
THEOREM Induction == Spec => []IndInv
  <1>1. IndInv /\ [Next]_vars => IndInv'
    BY NextTypes, NextContexts, NextOnce, NextResults, NextPassed, NextReported
    DEF IndInv
  <1> QED BY InitHolds, <1>1, PTL DEF Spec

(* The locals of SyscallN and the contexts keep their types, and a call that *)
(* has a context has no more arguments than fit it (syscall_unix.go:126-129). *)
THEOREM TypeCorrect == Spec => []TypeOK
  <1>1. IndInv => TypeOK
    BY DEF IndInv
  <1> QED BY Induction, <1>1, PTL

(* A syscallContext belongs to one call at a time, from Get to Put           *)
(* (syscall_unix.go:135, 157), however calls interleave, nest or panic.      *)
THEOREM ContextsSafe == Spec => []CtxExclusive
  <1>1. IndInv => CtxExclusive
    BY DEF IndInv
  <1> QED BY Induction, <1>1, PTL

(* Whoever looks at the table of call interfaces finds all of it             *)
(* (syscall_unix.go:124-132), however many callers come first.               *)
THEOREM TableSafe == Spec => []TableComplete
  <1>1. IndInv => TableComplete
    BY DEF IndInv, OnceFirst, TableComplete
  <1> QED BY Induction, <1>1, PTL

(* What a call returns is what its own C function returned, or zero if goffi *)
(* refused the call (syscall_unix.go:139-146), never a result an earlier     *)
(* call left in the context.                                                 *)
THEOREM ResultsSafe == Spec => []ResultOwn
  <1>1. IndInv => ResultOwn
    BY DEF IndInv, ResultTracked, ResultOf, Returned, ResultOwn
  <1> QED BY Induction, <1>1, PTL

(* One less than a multiple of m leaves m - 1.                               *)
LEMMA Remainder ==
  ASSUME NEW m \in Nat \ {0}, NEW q \in Nat \ {0}
  PROVE  (q * m - 1) % m = m - 1
  <1>1. q * m - 1 = (q - 1) * m + (m - 1)
    OBVIOUS
  <1>2. PICK p : p = q - 1
    OBVIOUS
  <1>3. p \in Nat /\ m - 1 \in 0..(m - 1)
    BY <1>2
  <1>4. (p * m + (m - 1)) % m = m - 1
    BY <1>3
  <1> QED BY <1>1, <1>2, <1>4

(* The test of the low half (syscall_unix.go:151) finds -1 in both forms in  *)
(* which a C int of that value can fill a word.                              *)
LEMMA MinusOneFound ==
  /\ AllOnes(WordBits) \in Words /\ AllOnes(IntBits) \in Words
  /\ IsMinusOne(AllOnes(WordBits)) /\ IsMinusOne(AllOnes(IntBits))
  <1>1. PICK m : m = 2^IntBits
    OBVIOUS
  <1>2. PICK n : n = 2^WordBits
    OBVIOUS
  <1>3. m \in Nat \ {0}
    BY <1>1, PowersAssumption
  <1>4. PICK q \in 1..n : n = q * m
    BY <1>1, <1>2, PowersAssumption
  <1>5. n \in Int
    <2>1. q \in Int
      BY <1>4
    <2> QED BY <1>3, <1>4, <2>1
  <1>6. q \in Nat \ {0} /\ m <= n
    <2>1. q \in Nat \ {0}
      BY <1>4, <1>5
    <2> QED BY <1>3, <1>4, <2>1
  <1>7. m - 1 \in 0..(n - 1) /\ n - 1 \in 0..(n - 1)
    BY <1>3, <1>5, <1>6
  <1>8. (n - 1) % m = m - 1
    BY <1>3, <1>4, <1>6, Remainder
  <1>9. (m - 1) % m = m - 1
    BY <1>3
  <1> QED BY <1>1, <1>2, <1>7, <1>8, <1>9 DEF Words, AllOnes, IsMinusOne

(* A call whose C function returned the int -1, sign- or zero-extended,      *)
(* reports the errno of that function (syscall_unix.go:148-155), whatever    *)
(* the widths and whatever other calls do.                                   *)
THEOREM FailuresSafe == Spec => []FailuresReported
  <1>1. IndInv => FailuresReported
    <2> SUFFICES ASSUME IndInv, NEW k \in Calls, pc[k] = "done",
                        cret[k] \in {AllOnes(WordBits), AllOnes(IntBits)}
                 PROVE  err[k] = callErrno[k]
      BY DEF FailuresReported
    <2>1. cret[k] # NoOut /\ IsMinusOne(cret[k])
      BY MinusOneFound, Bounds
    <2>2. r1[k] = cret[k]
      BY <2>1 DEF IndInv, ResultTracked, ResultOf, Returned
    <2>3. ReportedOf(k)
      BY DEF IndInv, Reported
    <2> QED BY <2>1, <2>2, <2>3 DEF ReportedOf
  <1> QED BY Induction, <1>1, PTL

(* A call nobody has made has no result and no phase but the first           *)
(* (syscall_unix.go:118).                                                    *)
LEMMA InitRefines == Init => Abstract!Init
  BY DEF Init, Abstract!Init, Phase, Outcome

(* A step of call k (syscall_unix.go:118-165) that moves its phase to p and  *)
(* leaves the other calls where they are moves the abstract phases so.       *)
LEMMA PhaseMoves ==
  ASSUME NEW k \in Calls, NEW p, Phase(k)' = p,
         \A j \in Calls \ {k} : Phase(j)' = Phase(j)
  PROVE  [j \in Calls |-> Phase(j)]' = [[j \in Calls |-> Phase(j)] EXCEPT ![k] = p]
  OBVIOUS

(* A call that is not over (syscall_unix.go:165) before nor after a step     *)
(* keeps its outcome, and so does one whose results do not change.           *)
LEMMA OutcomeSame ==
  ASSUME NEW j \in Calls,
         \/ pc[j] # "done" /\ pc'[j] # "done"
         \/ pc'[j] = pc[j] /\ r1'[j] = r1[j] /\ cret'[j] = cret[j] /\ err'[j] = err[j]
  PROVE  Outcome(j)' = Outcome(j)
  BY DEF Outcome

(* Every step of SyscallN (syscall_unix.go:118-165) is a step of a foreign   *)
(* call, or none.                                                            *)
LEMMA NextRefines == IndInv /\ [Next]_vars => [Abstract!Next]_(Abstract!vars)
  <1> SUFFICES ASSUME IndInv, [Next]_vars PROVE [Abstract!Next]_(Abstract!vars)
    OBVIOUS
  <1> USE DEF Goto, onceVars, poolVars, memVars, ghostVars
  <1>0. TypeOK /\ ResultTracked /\ Passed
    BY DEF IndInv
  <1>s. ASSUME \A j \in Calls : Phase(j)' = Phase(j) /\ Outcome(j)' = Outcome(j),
               UNCHANGED <<nArgs, sees, callErrno>>
        PROVE  UNCHANGED Abstract!vars
    BY <1>s DEF Abstract!vars
  <1>p. ASSUME NEW k \in Calls, Phase(k) \in {"called", "inC"}, Phase(k)' = "panicked",
               \A j \in Calls \ {k} : Phase(j)' = Phase(j),
               \A j \in Calls : Outcome(j)' = Outcome(j),
               UNCHANGED <<nArgs, sees, callErrno>>
        PROVE  Abstract!Panic(k)
    BY <1>p, PhaseMoves DEF Abstract!Panic
  <1>1. ASSUME NEW k \in Calls, Invoke(k) PROVE [Abstract!Next]_(Abstract!vars)
    <2>1. Phase(k) = "idle" /\ Phase(k)' = "called"
          /\ \A j \in Calls \ {k} : Phase(j)' = Phase(j)
      BY <1>0, <1>1 DEF Invoke, Phase, TypeOK
    <2>2. \A j \in Calls : Outcome(j)' = Outcome(j)
      BY <1>0, <1>1, OutcomeSame DEF Invoke, TypeOK
    <2>3. Abstract!Invoke(k)
      BY <1>1, <2>1, <2>2, PhaseMoves DEF Invoke, Abstract!Invoke
    <2> QED BY <2>3 DEF Abstract!Next
  <1>2. ASSUME NEW k \in Calls, CheckFn(k) PROVE [Abstract!Next]_(Abstract!vars)
    <2>2. \A j \in Calls : Outcome(j)' = Outcome(j)
      BY <1>0, <1>2, OutcomeSame DEF CheckFn, TypeOK
    <2>3. CASE pc'[k] = "panicked"
      <3>1. Phase(k) \in {"called", "inC"} /\ Phase(k)' = "panicked"
            /\ \A j \in Calls \ {k} : Phase(j)' = Phase(j)
        BY <1>0, <1>2, <2>3 DEF CheckFn, Phase, TypeOK
      <3> QED BY <1>2, <1>p, <2>2, <3>1 DEF CheckFn, Abstract!Next
    <2>4. CASE pc'[k] # "panicked"
      <3>1. \A j \in Calls : Phase(j)' = Phase(j)
        BY <1>0, <1>2, <2>4 DEF CheckFn, Phase, TypeOK
      <3> QED BY <1>2, <1>s, <2>2, <3>1 DEF CheckFn
    <2> QED BY <2>3, <2>4
  <1>3. ASSUME NEW k \in Calls, EnterOnce(k) PROVE [Abstract!Next]_(Abstract!vars)
    <2>1. \A j \in Calls : Phase(j)' = Phase(j)
      BY <1>0, <1>3 DEF EnterOnce, Phase, TypeOK
    <2>2. \A j \in Calls : Outcome(j)' = Outcome(j)
      BY <1>0, <1>3, OutcomeSame DEF EnterOnce, TypeOK
    <2> QED BY <1>3, <1>s, <2>1, <2>2 DEF EnterOnce
  <1>4. ASSUME NEW k \in Calls, PrepareNext(k) PROVE [Abstract!Next]_(Abstract!vars)
    <2>1. \A j \in Calls : Phase(j)' = Phase(j)
      BY <1>0, <1>4 DEF PrepareNext, Phase, TypeOK
    <2>2. \A j \in Calls : Outcome(j)' = Outcome(j)
      BY <1>0, <1>4, OutcomeSame DEF PrepareNext, TypeOK
    <2> QED BY <1>4, <1>s, <2>1, <2>2 DEF PrepareNext
  <1>5. ASSUME NEW k \in Calls, Check(k) PROVE [Abstract!Next]_(Abstract!vars)
    <2>2. \A j \in Calls : Outcome(j)' = Outcome(j)
      BY <1>0, <1>5, OutcomeSame DEF Check, TypeOK
    <2>3. CASE pc'[k] = "panicked"
      <3>1. Phase(k) \in {"called", "inC"} /\ Phase(k)' = "panicked"
            /\ \A j \in Calls \ {k} : Phase(j)' = Phase(j)
        BY <1>0, <1>5, <2>3 DEF Check, Phase, TypeOK
      <3> QED BY <1>5, <1>p, <2>2, <3>1 DEF Check, Abstract!Next
    <2>4. CASE pc'[k] # "panicked"
      <3>1. \A j \in Calls : Phase(j)' = Phase(j)
        BY <1>0, <1>5, <2>4 DEF Check, Phase, TypeOK
      <3> QED BY <1>5, <1>s, <2>2, <3>1 DEF Check
    <2> QED BY <2>3, <2>4
  <1>6. ASSUME NEW k \in Calls, Get(k) PROVE [Abstract!Next]_(Abstract!vars)
    <2>1. \A j \in Calls : Phase(j)' = Phase(j)
      BY <1>0, <1>6 DEF Get, Take, Phase, TypeOK
    <2>2. \A j \in Calls : Outcome(j)' = Outcome(j)
      BY <1>0, <1>6, OutcomeSame DEF Get, Take, TypeOK
    <2> QED BY <1>6, <1>s, <2>1, <2>2 DEF Get
  <1>7. ASSUME NEW k \in Calls, Copy(k) PROVE [Abstract!Next]_(Abstract!vars)
    <2>1. \A j \in Calls : Phase(j)' = Phase(j)
      BY <1>0, <1>7 DEF Copy, Phase, TypeOK
    <2>2. \A j \in Calls : Outcome(j)' = Outcome(j)
      BY <1>0, <1>7, OutcomeSame DEF Copy, TypeOK
    <2> QED BY <1>7, <1>s, <2>1, <2>2 DEF Copy
  <1>8. ASSUME NEW k \in Calls, CallFunction(k) PROVE [Abstract!Next]_(Abstract!vars)
    <2>1. \A j \in Calls : Outcome(j)' = Outcome(j)
      BY <1>0, <1>8, OutcomeSame DEF CallFunction, TypeOK
    <2>2. CASE pc'[k] = "inC"
      <3>1. Phase(k) = "called" /\ Phase(k)' = "inC"
            /\ \A j \in Calls \ {k} : Phase(j)' = Phase(j)
        BY <1>0, <1>8, <2>2 DEF CallFunction, Phase, TypeOK
      <3>2. [i \in 1..nArgs[k] |-> args[ctx[k]][i]] = Abstract!Args(k, nArgs[k])
        BY <1>0, <1>8 DEF CallFunction, Passed, PassedOf, Abstract!Args
      <3>3. sees' = [sees EXCEPT ![k] = [i \in 1..nArgs[k] |-> args[ctx[k]][i]]]
        BY <1>0, <1>8, <2>2 DEF CallFunction, TypeOK
      <3>4. Abstract!Enter(k)
        BY <1>8, <2>1, <3>1, <3>2, <3>3, PhaseMoves DEF CallFunction, Abstract!Enter
      <3> QED BY <3>4 DEF Abstract!Next
    <2>3. CASE pc'[k] # "inC"
      <3>1. cret[k] = NoOut /\ cret' = cret
        BY <1>0, <1>8 DEF CallFunction, ResultTracked, ResultOf
      <3>2. \A j \in Calls : Phase(j)' = Phase(j)
        BY <1>0, <1>8, <2>3, <3>1 DEF CallFunction, Phase, TypeOK
      <3> QED BY <1>0, <1>8, <1>s, <2>1, <2>3, <3>2 DEF CallFunction, TypeOK
    <2> QED BY <2>2, <2>3
  <1>9. ASSUME NEW k \in Calls, CReturn(k) PROVE [Abstract!Next]_(Abstract!vars)
    <2>1. \A j \in Calls : Outcome(j)' = Outcome(j)
      BY <1>0, <1>9, OutcomeSame DEF CReturn, TypeOK
    <2>2. cret'[k] # NoOut
      BY <1>0, <1>9, Bounds DEF CReturn, TypeOK
    <2>3. Phase(k) = "inC" /\ \A j \in Calls : Phase(j)' = Phase(j)
      BY <1>0, <1>9, <2>2 DEF CReturn, Phase, TypeOK
    <2>4. PICK e \in Errnos \cup {0} : callErrno' = [callErrno EXCEPT ![k] = e]
      BY <1>9 DEF CReturn
    <2>5. callErrno' = [j \in Calls |-> IF j \in {k} THEN e ELSE callErrno[j]]
      BY <1>0, <2>4 DEF TypeOK
    <2>6. {k} \in SUBSET Abstract!InC
      BY <2>3 DEF Abstract!InC
    <2>7. Abstract!LeaveErrno
      BY <1>9, <2>1, <2>3, <2>5, <2>6, ZenonT(60) DEF CReturn, Abstract!LeaveErrno
    <2> QED BY <2>7 DEF Abstract!Next
  <1>10. ASSUME NEW k \in Calls, CPanic(k) PROVE [Abstract!Next]_(Abstract!vars)
    <2>2. \A j \in Calls : Outcome(j)' = Outcome(j)
      BY <1>0, <1>10, OutcomeSame DEF CPanic, TypeOK
    <2>3. CASE pc'[k] = "panicked"
      <3>1. Phase(k) \in {"called", "inC"} /\ Phase(k)' = "panicked"
            /\ \A j \in Calls \ {k} : Phase(j)' = Phase(j)
        BY <1>0, <1>10, <2>3 DEF CPanic, Phase, TypeOK
      <3> QED BY <1>10, <1>p, <2>2, <3>1 DEF CPanic, Abstract!Next
    <2>4. CASE pc'[k] # "panicked"
      <3>1. \A j \in Calls : Phase(j)' = Phase(j)
        BY <1>0, <1>10, <2>4 DEF CPanic, Phase, TypeOK
      <3> QED BY <1>10, <1>s, <2>2, <3>1 DEF CPanic
    <2> QED BY <2>3, <2>4
  <1>11. ASSUME NEW k \in Calls, Collect(k) PROVE [Abstract!Next]_(Abstract!vars)
    <2>1. \A j \in Calls : Phase(j)' = Phase(j)
      BY <1>0, <1>11 DEF Collect, Phase, TypeOK
    <2>2. \A j \in Calls : Outcome(j)' = Outcome(j)
      BY <1>0, <1>11, OutcomeSame DEF Collect, TypeOK
    <2> QED BY <1>11, <1>s, <2>1, <2>2 DEF Collect
  <1>12. ASSUME NEW k \in Calls, Put(k) PROVE [Abstract!Next]_(Abstract!vars)
    <2>1. \A j \in Calls \ {k} : Outcome(j)' = Outcome(j)
      BY <1>0, <1>12, OutcomeSame DEF Put, TypeOK
    <2>2. Phase(k)' = "returned" /\ \A j \in Calls \ {k} : Phase(j)' = Phase(j)
      BY <1>0, <1>12 DEF Put, Phase, TypeOK
    <2>3. r1[k] = Returned(k) /\ err[k] \in {0, callErrno[k]}
          /\ (cret[k] = NoOut => callErrno[k] = 0)
      BY <1>0, <1>12 DEF Put, ResultTracked, ResultOf, Passed, PassedOf
    <2>4. Outcome(k)' = [val |-> IF r1[k] = cret[k] THEN k ELSE NoOut, err |-> err[k]]
      BY <1>0, <1>12 DEF Put, Outcome, TypeOK
    <2>5. CASE cret[k] = NoOut
      <3>1. Outcome(k)' = [val |-> NoOut, err |-> 0]
        BY <2>3, <2>4, <2>5, Bounds DEF Returned
      <3>2. Phase(k) = "called"
        BY <1>12, <2>5 DEF Put, Phase
      <3>3. Abstract!Refuse(k)
        BY <1>12, <2>1, <2>2, <3>1, <3>2, PhaseMoves DEF Put, Abstract!Refuse
      <3> QED BY <3>3 DEF Abstract!Next
    <2>6. CASE cret[k] # NoOut
      <3>1. Outcome(k)' = [val |-> k, err |-> err[k]]
        BY <2>3, <2>4, <2>6 DEF Returned
      <3>2. Phase(k) = "inC"
        BY <1>12, <2>6 DEF Put, Phase
      <3>3. Abstract!Return(k)
        BY <1>12, <2>1, <2>2, <2>3, <3>1, <3>2, PhaseMoves DEF Put, Abstract!Return
      <3> QED BY <3>3 DEF Abstract!Next
    <2> QED BY <2>5, <2>6
  <1>13. ASSUME NEW c \in Ctxs, DropPooled(c) PROVE [Abstract!Next]_(Abstract!vars)
    <2>1. \A j \in Calls : Phase(j)' = Phase(j)
      BY <1>0, <1>13 DEF DropPooled, Phase, TypeOK
    <2>2. \A j \in Calls : Outcome(j)' = Outcome(j)
      BY <1>0, <1>13, OutcomeSame DEF DropPooled, TypeOK
    <2> QED BY <1>13, <1>s, <2>1, <2>2 DEF DropPooled
  <1>14. CASE UNCHANGED vars
    <2>1. \A j \in Calls : Phase(j)' = Phase(j)
      BY <1>0, <1>14 DEF vars, Phase, TypeOK
    <2>2. \A j \in Calls : Outcome(j)' = Outcome(j)
      BY <1>0, <1>14, OutcomeSame DEF vars, TypeOK
    <2> QED BY <1>14, <1>s, <2>1, <2>2 DEF vars
  <1> QED BY <1>1, <1>2, <1>3, <1>4, <1>5, <1>6, <1>7,
             <1>8, <1>9, <1>10, <1>11, <1>12, <1>13, <1>14
      DEF Next, Body, Quiescent

(* SyscallN implements a foreign call (syscall_unix.go:118-165, ForeignCall):*)
(* for any number of calls and contexts the C function sees the arguments of *)
(* its own call, and the call returns what that execution produced.          *)
THEOREM Refinement == Spec => ImplementsForeignCall
  <1> QED BY Induction, InitRefines, NextRefines, PTL
      DEF Spec, ImplementsForeignCall, Abstract!Spec
=============================================================================
