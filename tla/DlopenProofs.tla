---------------------------- MODULE DlopenProofs ----------------------------
(***************************************************************************)
(* Proofs about Dlopen, for any number of goroutines, threads and          *)
(* operations: IndInv is an inductive invariant, and with it the message   *)
(* of a failed Dlopen is its own, the functions it calls are set, and the  *)
(* thread is unlocked again.                                               *)
(***************************************************************************)
EXTENDS Dlopen, TLAPS

(* The assumptions on the bound and on the tokens, one by one: the number of *)
(* operations is a number, no message is no message, and the states of       *)
(* dlopenOnce (dlfcn_linux.go:22) are no goroutines.                         *)
LEMMA MaxOpsNat == MaxOps \in Nat
  BY DlopenAssumption
LEMMA NoMsgFresh == NoMsg \notin Messages
  BY DlopenAssumption DEF Messages
LEMMA OnceStates == "new" \notin Goroutines /\ "done" \notin Goroutines
  BY DlopenAssumption

(* What Dlopen returns (dlfcn_linux.go:44-62) is one of the results named.   *)
LEMMA ResultTyped ==
  ASSUME NEW kind \in {"none", "handle", "dlerror", "generic", "init", "panic"},
         NEW of \in Messages \cup {NoMsg}
  PROVE  /\ Result(kind, of) \in Results
         /\ Result(kind, of).kind = kind /\ Result(kind, of).of = of
  BY DEF Result, Results

(* The operation a goroutine is in names its message (dlfcn_linux.go:44).    *)
LEMMA OpTyped ==
  ASSUME ops \in [Goroutines -> 0..MaxOps], NEW g \in Goroutines, ops[g] # 0
  PROVE  Op(g) \in Messages /\ Op(g) # NoMsg
  <1>1. ops[g] \in 1..MaxOps
    BY MaxOpsNat
  <1> QED BY <1>1, NoMsgFresh DEF Op, Messages

(* Beginning one more operation (dlfcn_linux.go:44, 65, 74) stays within the *)
(* bound.                                                                    *)
LEMMA OpsGrow ==
  ASSUME ops \in [Goroutines -> 0..MaxOps], NEW g \in Goroutines, ops[g] < MaxOps,
         ops' = [ops EXCEPT ![g] = @ + 1]
  PROVE  /\ ops' \in [Goroutines -> 0..MaxOps]
         /\ ops'[g] # 0
         /\ \A h \in Goroutines : h # g => ops'[h] = ops[h]
         /\ <<g, ops[g] + 1>> \in Messages
  <1>1. ops[g] + 1 \in 1..MaxOps
    BY MaxOpsNat
  <1>2. ops[g] + 1 \in 0..MaxOps /\ ops[g] + 1 # 0
    BY <1>1, MaxOpsNat
  <1> QED BY <1>1, <1>2 DEF Messages

(* A dl call leaves a message or none on the thread it runs on               *)
(* (dlfcn_linux.go:50).                                                      *)
LEMMA LeavesTyped ==
  ASSUME dlerror \in [Threads -> Messages \cup {NoMsg}],
         thread \in [Goroutines -> Threads],
         NEW g \in Goroutines, NEW op \in Messages,
         NEW m \in Pending(g, op), Leaves(g, m)
  PROVE  dlerror' \in [Threads -> Messages \cup {NoMsg}]
  <1>1. m \in Messages \cup {NoMsg}
    BY DEF Pending
  <1> QED BY <1>1 DEF Leaves

(* Before anything was opened (dlfcn_linux.go:21-26) the invariant holds.    *)
LEMMA InitInv == Init => IndInv
  <1> SUFFICES ASSUME Init PROVE IndInv
    OBVIOUS
  <1>0. NoResult \in Results /\ NoResult.kind = "none"
    BY ResultTyped DEF NoResult
  <1>a. 0 \in 0..MaxOps
    BY MaxOpsNat
  <1>1. ops \in [Goroutines -> 0..MaxOps] /\ locks \in [Goroutines -> {0, 1}]
    BY <1>a DEF Init
  <1>2. TypeOK
    BY <1>0, <1>1 DEF Init, TypeOK, PCs
  <1>3. OnceFirst /\ LockBalanced /\ OnceBeforeUse /\ DlerrorTracked
    BY OnceStates DEF Init, OnceFirst, LockBalanced, OnceBeforeUse,
                      DlerrorTracked
  <1>4. NotYet /\ MessageOwn
    BY <1>0 DEF Init, NotYet, MessageOwn
  <1> QED BY <1>2, <1>3, <1>4 DEF IndInv, Rest

(* Every step of Dlopen (dlfcn_linux.go:44-80) keeps the types.              *)
LEMMA NextTypes == IndInv /\ [Next]_vars => TypeOK'
  <1> SUFFICES ASSUME IndInv, [Next]_vars PROVE TypeOK'
    OBVIOUS
  <1> USE DEF TypeOK, initVars
  <1>0. TypeOK /\ LockBalanced /\ OnceFirst
    BY DEF IndInv, Rest
  <1>a. /\ ops \in [Goroutines -> 0..MaxOps]
        /\ dlerror \in [Threads -> Messages \cup {NoMsg}]
        /\ thread \in [Goroutines -> Threads]
    BY <1>0
  <1>b. ASSUME NEW g \in Goroutines, pc[g] # "idle" PROVE Op(g) \in Messages
    <2>1. ops[g] # 0
      BY <1>0, <1>b
    <2> QED BY <1>a, <2>1, OpTyped
  <1>1. NoResult \in Results
    BY ResultTyped DEF NoResult
  <1>p. Result("panic", NoMsg) \in Results /\ Result("init", NoMsg) \in Results
    BY ResultTyped
  <1>2. ASSUME NEW g \in Goroutines, Call(g) PROVE TypeOK'
    <2>1. /\ ops' \in [Goroutines -> 0..MaxOps]
          /\ ops'[g] # 0
          /\ \A h \in Goroutines : h # g => ops'[h] = ops[h]
      BY <1>a, <1>2, OpsGrow DEF Call
    <2> QED BY <1>0, <1>1, <1>2, <2>1 DEF Call, Goto, PCs
  <1>3. ASSUME NEW g \in Goroutines, EnterOnce(g) PROVE TypeOK'
    BY <1>0, <1>3 DEF EnterOnce, Goto, PCs
  <1>4. ASSUME NEW g \in Goroutines, InitDlopen(g) PROVE TypeOK'
    <2>0. pc[g] = "once"
      BY <1>0, <1>4 DEF InitDlopen, OnceFirst
    <2>1. Op(g) \in Messages
      BY <1>b, <2>0
    <2>2. dlerror' \in [Threads -> Messages \cup {NoMsg}]
      BY <1>a, <1>4, <2>1, LeavesTyped DEF InitDlopen
    <2> QED BY <1>0, <1>p, <1>4, <2>0, <2>2, ZenonT(60) DEF InitDlopen, Returns, Goto, PCs
  <1>5. ASSUME NEW g \in Goroutines, Check(g) PROVE TypeOK'
    BY <1>0, <1>p, <1>5 DEF Check, Goto, Returns, PCs
  <1>6. ASSUME NEW g \in Goroutines, LockOSThread(g) PROVE TypeOK'
    <2>1. locks[g] = 0
      BY <1>0, <1>6 DEF LockOSThread, LockBalanced
    <2>2. locks' = [locks EXCEPT ![g] = 1]
      BY <1>6, <2>1 DEF LockOSThread
    <2> QED BY <1>0, <1>6, <2>2 DEF LockOSThread, Goto, PCs
  <1>7. ASSUME NEW g \in Goroutines, Clear(g) PROVE TypeOK'
    BY <1>0, <1>7 DEF Clear, Leaves, Goto, PCs
  <1>8. ASSUME NEW g \in Goroutines, Open(g) PROVE TypeOK'
    <2>1. Op(g) \in Messages
      BY <1>b, <1>8 DEF Open
    <2>2. Result("handle", Op(g)) \in Results
      BY <2>1, ResultTyped
    <2>3. dlerror' \in [Threads -> Messages \cup {NoMsg}]
      BY <1>a, <1>8, <2>1, LeavesTyped DEF Open
    <2> HIDE DEF Op
    <2> QED BY <1>0, <1>8, <2>2, <2>3, ZenonT(60) DEF Open, Goto, Returns, PCs
  <1>9. ASSUME NEW g \in Goroutines, Read(g) PROVE TypeOK'
    <2> DEFINE m == dlerror[thread[g]]
    <2>1. m \in Messages \cup {NoMsg}
      BY <1>0
    <2>2. Result(IF m = NoMsg THEN "generic" ELSE "dlerror", m) \in Results
      BY <2>1, ResultTyped
    <2> QED BY <1>0, <1>9, <2>2 DEF Read, Leaves, Goto, Returns, PCs
  <1>10. ASSUME NEW g \in Goroutines, Panic(g) PROVE TypeOK'
    BY <1>0, <1>p, <1>10 DEF Panic, Goto, Returns, PCs
  <1>11. ASSUME NEW g \in Goroutines, Unlock(g) PROVE TypeOK'
    <2>1. locks[g] = 1
      BY <1>0, <1>11 DEF Unlock, LockBalanced
    <2>2. locks' = [locks EXCEPT ![g] = 0]
      BY <1>11, <2>1 DEF Unlock
    <2> QED BY <1>0, <1>11, <2>2 DEF Unlock, Goto, PCs
  <1>12. ASSUME NEW g \in Goroutines, Dlsym(g) PROVE TypeOK'
    <2>1. /\ ops' \in [Goroutines -> 0..MaxOps]
          /\ ops'[g] # 0
          /\ \A h \in Goroutines : h # g => ops'[h] = ops[h]
          /\ <<g, ops[g] + 1>> \in Messages
      BY <1>a, <1>12, OpsGrow DEF Dlsym
    <2>2. dlerror' \in [Threads -> Messages \cup {NoMsg}]
      BY <1>a, <1>12, <2>1, LeavesTyped DEF Dlsym
    <2> QED BY <1>0, <1>1, <1>12, <2>1, <2>2 DEF Dlsym
  <1>13. ASSUME NEW g \in Goroutines, Migrate(g) PROVE TypeOK'
    BY <1>0, <1>13 DEF Migrate
  <1>14. ASSUME UNCHANGED vars PROVE TypeOK'
    BY <1>0, <1>14 DEF vars
  <1> QED
    BY <1>2, <1>3, <1>4, <1>5, <1>6, <1>7, <1>8, <1>9, <1>10, <1>11, <1>12, <1>13, <1>14
    DEF Next, Body, Dlclose, Quiescent

(* What the rest of the invariant says is kept by every step of Dlopen, Dlsym *)
(* and Dlclose and by every move to another thread (dlfcn_linux.go:44-80).   *)
LEMMA NextRest == IndInv /\ [Next]_vars => Rest'
  <1> SUFFICES ASSUME IndInv, [Next]_vars PROVE Rest'
    OBVIOUS
  <1> USE DEF Rest
  <1>0. /\ pc \in [Goroutines -> PCs] /\ ret \in [Goroutines -> Results]
        /\ thread \in [Goroutines -> Threads] /\ locks \in [Goroutines -> {0, 1}]
        /\ dlerror \in [Threads -> Messages \cup {NoMsg}]
        /\ opened \in [Goroutines -> {"not yet", "handle", "failed", "silent"}]
        /\ ops \in [Goroutines -> 0..MaxOps]
    BY DEF IndInv, Rest, TypeOK
  <1>i. OnceFirst /\ LockBalanced /\ OnceBeforeUse /\ DlerrorTracked /\ NotYet /\ MessageOwn
    BY DEF IndInv, Rest
  <1>r. NoResult.kind = "none"
    BY ResultTyped DEF NoResult
  <1>p. Result("panic", NoMsg).kind = "panic" /\ Result("init", NoMsg).kind = "init"
    BY ResultTyped
  <1>1. ASSUME NEW g \in Goroutines, Call(g) PROVE Rest'
    <2>1. OnceFirst'
      BY <1>0, <1>i, <1>1 DEF Call, OnceFirst, Goto, initVars
    <2>2. LockBalanced'
      BY <1>0, <1>i, <1>1 DEF Call, LockBalanced, Goto
    <2>3. OnceBeforeUse'
      BY <1>0, <1>i, <1>1 DEF Call, OnceBeforeUse, Goto, initVars
    <2>4. DlerrorTracked'
      BY <1>0, <1>i, <1>1 DEF Call, DlerrorTracked, Goto, Op
    <2>5. NotYet'
      BY <1>0, <1>i, <1>1 DEF Call, NotYet, Goto
    <2>6. MessageOwn'
      BY <1>0, <1>i, <1>r, <1>1 DEF Call, MessageOwn, Op
    <2> QED BY <2>1, <2>2, <2>3, <2>4, <2>5, <2>6
  <1>2. ASSUME NEW g \in Goroutines, EnterOnce(g) PROVE Rest'
    <2>1. OnceFirst'
      <3>1. CASE once = "new" /\ once' = g /\ UNCHANGED pc
        BY <1>i, <1>2, <3>1 DEF EnterOnce, OnceFirst
      <3>2. CASE once = "done" /\ Goto(g, "check") /\ UNCHANGED once
        BY <1>0, <3>2, OnceStates DEF OnceFirst, Goto
      <3> QED BY <1>2, <3>1, <3>2 DEF EnterOnce
    <2>2. LockBalanced'
      BY <1>0, <1>i, <1>2 DEF EnterOnce, LockBalanced, Goto
    <2>3. OnceBeforeUse'
      BY <1>0, <1>i, <1>2 DEF EnterOnce, OnceBeforeUse, Goto
    <2>4. DlerrorTracked'
      BY <1>0, <1>i, <1>2 DEF EnterOnce, DlerrorTracked, Goto, Op
    <2>5. NotYet'
      BY <1>0, <1>i, <1>2 DEF EnterOnce, NotYet, Goto
    <2>6. MessageOwn'
      BY <1>0, <1>i, <1>2 DEF EnterOnce, MessageOwn, Op
    <2> QED BY <2>1, <2>2, <2>3, <2>4, <2>5, <2>6
  <1>3. ASSUME NEW g \in Goroutines, InitDlopen(g) PROVE Rest'
    <2>1. OnceFirst'
      BY <1>0, <1>i, <1>3, OnceStates DEF InitDlopen, OnceFirst, Goto
    <2>2. LockBalanced'
      BY <1>0, <1>i, <1>3 DEF InitDlopen, OnceFirst, LockBalanced, Goto
    <2>3. OnceBeforeUse'
      BY <1>0, <1>i, <1>3, OnceStates DEF InitDlopen, OnceFirst, OnceBeforeUse, Goto
    <2>4. DlerrorTracked'
      BY <1>0, <1>i, <1>3, ZenonT(60) DEF InitDlopen, OnceFirst, DlerrorTracked, Leaves, Pending, Goto, Op
    <2>5. NotYet'
      BY <1>0, <1>i, <1>3 DEF InitDlopen, OnceFirst, NotYet, Returns, Goto
    <2>6. MessageOwn'
      BY <1>0, <1>i, <1>p, <1>3, ZenonT(60) DEF InitDlopen, OnceFirst, MessageOwn, NotYet, Returns, Op
    <2> QED BY <2>1, <2>2, <2>3, <2>4, <2>5, <2>6
  <1>4. ASSUME NEW g \in Goroutines, Check(g) PROVE Rest'
    <2>1. OnceFirst'
      BY <1>0, <1>i, <1>4 DEF Check, OnceFirst, Goto, initVars
    <2>2. LockBalanced'
      BY <1>0, <1>i, <1>4 DEF Check, LockBalanced, Goto
    <2>3. OnceBeforeUse'
      BY <1>0, <1>i, <1>4 DEF Check, OnceFirst, OnceBeforeUse, Goto, initVars
    <2>4. DlerrorTracked'
      BY <1>0, <1>i, <1>4 DEF Check, DlerrorTracked, Goto, Op
    <2>5. NotYet'
      BY <1>0, <1>i, <1>4 DEF Check, NotYet, Returns, Goto
    <2>6. MessageOwn'
      BY <1>0, <1>i, <1>p, <1>4 DEF Check, MessageOwn, Returns, Op
    <2> QED BY <2>1, <2>2, <2>3, <2>4, <2>5, <2>6
  <1>5. ASSUME NEW g \in Goroutines, LockOSThread(g) PROVE Rest'
    <2>1. OnceFirst'
      BY <1>0, <1>i, <1>5 DEF LockOSThread, OnceFirst, Goto, initVars
    <2>2. LockBalanced'
      <3>1. locks[g] = 0
        BY <1>i, <1>5 DEF LockOSThread, LockBalanced
      <3>2. locks' = [locks EXCEPT ![g] = 1]
        BY <1>5, <3>1 DEF LockOSThread
      <3> QED BY <1>0, <1>i, <1>5, <3>2 DEF LockOSThread, LockBalanced, Goto
    <2>3. OnceBeforeUse'
      BY <1>0, <1>i, <1>5 DEF LockOSThread, OnceBeforeUse, Goto, initVars
    <2>4. DlerrorTracked'
      BY <1>0, <1>i, <1>5 DEF LockOSThread, DlerrorTracked, Goto, Op
    <2>5. NotYet'
      BY <1>0, <1>i, <1>5 DEF LockOSThread, NotYet, Goto
    <2>6. MessageOwn'
      BY <1>0, <1>i, <1>5 DEF LockOSThread, MessageOwn, Op
    <2> QED BY <2>1, <2>2, <2>3, <2>4, <2>5, <2>6
  <1>6. ASSUME NEW g \in Goroutines, Clear(g) PROVE Rest'
    <2>1. OnceFirst'
      BY <1>0, <1>i, <1>6 DEF Clear, OnceFirst, Goto, initVars
    <2>2. LockBalanced'
      BY <1>0, <1>i, <1>6 DEF Clear, LockBalanced, Goto
    <2>3. OnceBeforeUse'
      BY <1>0, <1>i, <1>6 DEF Clear, OnceBeforeUse, Goto, initVars
    <2>4. DlerrorTracked'
      BY <1>0, <1>i, <1>6 DEF Clear, DlerrorTracked, Leaves, Goto, Op
    <2>5. NotYet'
      BY <1>0, <1>i, <1>6 DEF Clear, NotYet, Goto
    <2>6. MessageOwn'
      BY <1>0, <1>i, <1>6 DEF Clear, MessageOwn, Op
    <2> QED BY <2>1, <2>2, <2>3, <2>4, <2>5, <2>6
  <1>7. ASSUME NEW g \in Goroutines, Open(g) PROVE Rest'
    <2>1. OnceFirst'
      BY <1>0, <1>i, <1>7 DEF Open, OnceFirst, Goto, initVars
    <2>2. LockBalanced'
      BY <1>0, <1>i, <1>7 DEF Open, LockBalanced, Goto
    <2>3. OnceBeforeUse'
      BY <1>0, <1>i, <1>7 DEF Open, OnceBeforeUse, Goto, initVars
    <2>4. DlerrorTracked'
      <3>1. /\ \A h, k \in Goroutines : thread'[h] = thread'[k] => h = k
            /\ \A h \in Goroutines : h # g => dlerror'[thread'[h]] = dlerror[thread[h]]
        BY <1>0, <1>i, <1>7, ZenonT(60) DEF Open, DlerrorTracked, Leaves
      <3>2. \A h \in Goroutines : h # g => pc'[h] = pc[h] /\ opened'[h] = opened[h] /\ Op(h)' = Op(h)
        BY <1>0, <1>7 DEF Open, Goto, Op
      <3>3. pc'[g] # "open"
        BY <1>0, <1>7 DEF Open, Goto
      <3>4. ASSUME pc'[g] = "read"
            PROVE  \/ opened'[g] = "failed" /\ dlerror'[thread'[g]] = Op(g)'
                   \/ opened'[g] = "silent" /\ dlerror'[thread'[g]] = NoMsg
        <4>1. PICK m \in Pending(g, Op(g)) :
                 /\ Leaves(g, m)
                 /\ opened' = [opened EXCEPT ![g] = IF m = Op(g) THEN "failed" ELSE "silent"]
          BY <1>0, <1>7, <3>4 DEF Open, Goto
        <4>2. m \in {Op(g), NoMsg}
          BY <1>i, <1>7, <4>1 DEF Open, DlerrorTracked, Pending
        <4>3. dlerror'[thread'[g]] = m /\ Op(g)' = Op(g)
          BY <1>0, <1>7, <4>1 DEF Open, Leaves, Op
        <4>4. opened'[g] = IF m = Op(g) THEN "failed" ELSE "silent"
          BY <1>0, <4>1
        <4> QED BY <4>2, <4>3, <4>4
      <3> QED BY <1>i, <3>1, <3>2, <3>3, <3>4 DEF DlerrorTracked
    <2>5. NotYet'
      BY <1>0, <1>i, <1>7 DEF Open, NotYet, Returns, Goto
    <2>6. MessageOwn'
      <3>1. Op(g) \in Messages
        BY <1>0, <1>7, OpTyped DEF Open, IndInv, TypeOK
      <3>2. Result("handle", Op(g)).kind = "handle" /\ Result("handle", Op(g)).of = Op(g)
        BY <3>1, ResultTyped
      <3>3. \A h \in Goroutines : Op(h)' = Op(h)
        BY <1>7 DEF Open, Op
      <3>4. \A h \in Goroutines : h # g => ret'[h] = ret[h] /\ opened'[h] = opened[h]
        BY <1>0, <1>7 DEF Open, Returns
      <3>5. \/ ret'[g] = Result("handle", Op(g)) /\ opened'[g] = "handle"
            \/ ret'[g] = NoResult
        BY <1>0, <1>i, <1>7 DEF Open, Returns, NotYet
      <3> QED BY <1>i, <1>r, <3>2, <3>3, <3>4, <3>5 DEF MessageOwn
    <2> QED BY <2>1, <2>2, <2>3, <2>4, <2>5, <2>6
  <1>8. ASSUME NEW g \in Goroutines, Read(g) PROVE Rest'
    <2>1. OnceFirst'
      BY <1>0, <1>i, <1>8 DEF Read, OnceFirst, Goto, initVars
    <2>2. LockBalanced'
      BY <1>0, <1>i, <1>8 DEF Read, LockBalanced, Goto
    <2>3. OnceBeforeUse'
      BY <1>0, <1>i, <1>8 DEF Read, OnceBeforeUse, Goto, initVars
    <2>4. DlerrorTracked'
      BY <1>0, <1>i, <1>8 DEF Read, DlerrorTracked, Leaves, Goto, Op
    <2>5. NotYet'
      BY <1>0, <1>i, <1>8 DEF Read, NotYet, Returns, Goto
    <2>6. MessageOwn'
      <3> DEFINE m == dlerror[thread[g]]
      <3> DEFINE res == Result(IF m = NoMsg THEN "generic" ELSE "dlerror", m)
      <3>1. m \in Messages \cup {NoMsg}
        BY <1>0
      <3>2. res.kind = (IF m = NoMsg THEN "generic" ELSE "dlerror") /\ res.of = m
        BY <3>1, ResultTyped
      <3>3. ret' = [ret EXCEPT ![g] = res]
        BY <1>8 DEF Read, Returns
      <3>4. UNCHANGED opened /\ \A h \in Goroutines : Op(h)' = Op(h)
        BY <1>8 DEF Read, Op
      <3>5. Op(g) # NoMsg
        BY <1>0, <1>8, OpTyped DEF Read, IndInv, TypeOK
      <3>6. \/ opened[g] = "failed" /\ m = Op(g)
            \/ opened[g] = "silent" /\ m = NoMsg
        BY <1>i, <1>8 DEF Read, DlerrorTracked
      <3> HIDE DEF res, m
      <3> QED BY <1>0, <1>i, <3>2, <3>3, <3>4, <3>5, <3>6 DEF MessageOwn
    <2> QED BY <2>1, <2>2, <2>3, <2>4, <2>5, <2>6
  <1>9. ASSUME NEW g \in Goroutines, Panic(g) PROVE Rest'
    <2>1. OnceFirst'
      BY <1>0, <1>i, <1>9 DEF Panic, OnceFirst, Goto, initVars
    <2>2. LockBalanced'
      BY <1>0, <1>i, <1>9 DEF Panic, LockBalanced, Goto
    <2>3. OnceBeforeUse'
      BY <1>0, <1>i, <1>9 DEF Panic, OnceBeforeUse, Goto, initVars
    <2>4. DlerrorTracked'
      BY <1>0, <1>i, <1>9 DEF Panic, DlerrorTracked, Goto, Op
    <2>5. NotYet'
      BY <1>0, <1>i, <1>9 DEF Panic, NotYet, Returns, Goto
    <2>6. MessageOwn'
      BY <1>0, <1>i, <1>p, <1>9 DEF Panic, MessageOwn, Returns, Op
    <2> QED BY <2>1, <2>2, <2>3, <2>4, <2>5, <2>6
  <1>10. ASSUME NEW g \in Goroutines, Unlock(g) PROVE Rest'
    <2>1. OnceFirst'
      BY <1>0, <1>i, <1>10 DEF Unlock, OnceFirst, Goto, initVars
    <2>2. LockBalanced'
      <3>1. locks[g] = 1
        BY <1>i, <1>10 DEF Unlock, LockBalanced
      <3>2. locks' = [locks EXCEPT ![g] = 0]
        BY <1>10, <3>1 DEF Unlock
      <3> QED BY <1>0, <1>i, <1>10, <3>2 DEF Unlock, LockBalanced, Goto
    <2>3. OnceBeforeUse'
      BY <1>0, <1>i, <1>10 DEF Unlock, OnceBeforeUse, Goto, initVars
    <2>4. DlerrorTracked'
      BY <1>0, <1>i, <1>10 DEF Unlock, DlerrorTracked, Goto, Op
    <2>5. NotYet'
      BY <1>0, <1>i, <1>10 DEF Unlock, NotYet, Goto
    <2>6. MessageOwn'
      BY <1>0, <1>i, <1>10 DEF Unlock, MessageOwn, Op
    <2> QED BY <2>1, <2>2, <2>3, <2>4, <2>5, <2>6
  <1>11. ASSUME NEW g \in Goroutines, Dlsym(g) PROVE Rest'
    <2>1. OnceFirst'
      BY <1>0, <1>i, <1>11 DEF Dlsym, OnceFirst, initVars
    <2>2. LockBalanced'
      BY <1>0, <1>i, <1>11 DEF Dlsym, LockBalanced
    <2>3. OnceBeforeUse'
      BY <1>0, <1>i, <1>11 DEF Dlsym, OnceBeforeUse, initVars
    <2>4. DlerrorTracked'
      BY <1>0, <1>i, <1>11 DEF Dlsym, DlerrorTracked, Leaves, Pending, Op
    <2>5. NotYet'
      BY <1>0, <1>i, <1>11 DEF Dlsym, NotYet
    <2>6. MessageOwn'
      BY <1>0, <1>i, <1>r, <1>11 DEF Dlsym, MessageOwn, Op
    <2> QED BY <2>1, <2>2, <2>3, <2>4, <2>5, <2>6
  <1>12. ASSUME NEW g \in Goroutines, Migrate(g) PROVE Rest'
    <2>1. OnceFirst'
      BY <1>0, <1>i, <1>12 DEF Migrate, OnceFirst, initVars
    <2>2. LockBalanced'
      BY <1>0, <1>i, <1>12 DEF Migrate, LockBalanced
    <2>3. OnceBeforeUse'
      BY <1>0, <1>i, <1>12 DEF Migrate, OnceBeforeUse, initVars
    <2>4. DlerrorTracked'
      <3>1. pc[g] \notin {"open", "read"}
        BY <1>i, <1>12 DEF Migrate, LockBalanced
      <3>2. PICK t \in Threads : /\ \A h \in Goroutines : thread[h] # t
                                 /\ thread' = [thread EXCEPT ![g] = t]
        BY <1>12 DEF Migrate
      <3>3. \A h \in Goroutines : thread'[h] = IF h = g THEN t ELSE thread[h]
        BY <1>0, <3>2
      <3>4. \A h, k \in Goroutines : thread'[h] = thread'[k] => h = k
        BY <1>i, <3>2, <3>3 DEF DlerrorTracked
      <3>5. UNCHANGED <<pc, dlerror, opened, ops>>
        BY <1>12 DEF Migrate
      <3> QED BY <1>i, <3>1, <3>3, <3>4, <3>5 DEF DlerrorTracked, Op
    <2>5. NotYet'
      BY <1>0, <1>i, <1>12 DEF Migrate, NotYet
    <2>6. MessageOwn'
      BY <1>0, <1>i, <1>12 DEF Migrate, MessageOwn, Op
    <2> QED BY <2>1, <2>2, <2>3, <2>4, <2>5, <2>6
  <1>13. ASSUME UNCHANGED vars PROVE Rest'
    BY <1>i, <1>13 DEF vars, initVars, OnceFirst, LockBalanced, OnceBeforeUse,
                      DlerrorTracked, NotYet, MessageOwn, Op
  <1> QED
    BY <1>1, <1>2, <1>3, <1>4, <1>5, <1>6, <1>7, <1>8, <1>9, <1>10, <1>11, <1>12, <1>13
    DEF Next, Body, Dlclose, Quiescent

(* The state of every Dlopen stays consistent for ever, whatever the order   *)
(* in which goroutines open libraries, look symbols up, panic and change     *)
(* threads (dlfcn_linux.go:28-80).                                           *)
THEOREM Induction == Spec => []IndInv
  <1>1. IndInv /\ [Next]_vars => IndInv'
    BY NextTypes, NextRest DEF IndInv
  <1> QED BY InitInv, <1>1, PTL DEF Spec

(* Dlopen's variables keep their types (dlfcn_linux.go:21-26).               *)
THEOREM TypeCorrect == Spec => []TypeOK
  <1>1. IndInv => TypeOK
    BY DEF IndInv
  <1> QED BY Induction, <1>1, PTL

(* The message a failed Dlopen returns is that of its own dlopen, on any     *)
(* number of threads (dlfcn_linux.go:50-58).                                 *)
THEOREM MessagesSafe == Spec => []MessageOwn
  <1>1. IndInv => MessageOwn
    BY DEF IndInv, Rest
  <1> QED BY Induction, <1>1, PTL

(* The registered functions are called only once their lookup has ended, and *)
(* never when it has failed (dlfcn_linux.go:39-40, 45).                      *)
THEOREM OpeningSafe == Spec => []OnceBeforeUse
  <1>1. IndInv => OnceBeforeUse
    BY DEF IndInv, Rest
  <1> QED
    BY <1>1, Induction, PTL

(* The thread is unlocked on every way out of Dlopen                         *)
(* (dlfcn_linux.go:51-52).                                                   *)
THEOREM UnlocksSafe == Spec => []LockBalanced
  <1>1. IndInv => LockBalanced
    BY DEF IndInv, Rest
  <1> QED
    BY <1>1, Induction, PTL
=============================================================================
