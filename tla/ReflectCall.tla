---------------------------- MODULE ReflectCall ----------------------------
(***************************************************************************)
(* The reflect path of RegisterFunc (purego.go): the closure that          *)
(* reflect.MakeFunc installs and that every call of a registered function  *)
(* runs which did not get a fast wrapper.  Many goroutines run it at once, *)
(* and one goroutine runs it inside itself, when the C function calls back *)
(* into Go and the callback calls C again.  All of these calls share       *)
(* slowCallPool (a sync.Pool of slowCallContext) and the errno of the OS   *)
(* threads they run on.                                                    *)
(*                                                                         *)
(* A call is an element of Calls and happens at most once; <<k, i>> stands *)
(* for the memory packArg made for the i-th argument of call k, and k for  *)
(* the result of its C function.                                           *)
(***************************************************************************)
EXTENDS Naturals, FiniteSets, Sequences

CONSTANTS
    Calls,          \* the calls that may be made
    Goroutines,
    Threads,        \* OS threads
    Ctxs,           \* slowCallContext allocations
    Cap,            \* length of keepAlive and ffiArgs (32 in the code)
    MaxArgs,        \* the largest number of arguments of a call
    Errnos,         \* nonzero error numbers
    HasErrnoFn,     \* initErrno found an errno location function
    Shapes,         \* the signatures the calls have, see ShapeType
    NoCall, NoCtx, NoThread, Nil

\* argc: number of arguments.  hasErr: the signature ends in an error.
\* dynamic: Go-variadic, so the call interface is prepared at call time.
\* buffered: the result comes back through ctx.retBuf (String, Bool, Pointer,
\* UnsafePointer, Func, Slice) and not through memory of the call's own.
ShapeType == [argc : 0..MaxArgs, hasErr : BOOLEAN, dynamic : BOOLEAN,
              buffered : BOOLEAN]

ASSUME ConstantsAssumption ==
    /\ Cap \in Nat /\ MaxArgs \in Nat
    /\ Shapes \subseteq ShapeType
    /\ HasErrnoFn \in BOOLEAN
    /\ Errnos \subseteq Nat \ {0}
    /\ NoCall \notin Calls /\ NoCtx \notin Ctxs /\ NoThread \notin Threads
    /\ Nil \notin Calls \X (1..MaxArgs)
    /\ Nil \notin Calls

VARIABLES
    pc,             \* pc[k]: the next step of the closure running call k
    ctx,            \* the closure's locals: the context it got,
    ffiArgsCount,   \*   how many arguments it packed
    keepAliveCount, \*   and how many values it keeps alive,
    errnoPtr,       \*   the thread whose errno location it took,
    errVal,         \*   what getErr returned (0 for nil)
    retVal,         \*   and the result
    panicking,      \* panicking[k]: the closure is unwinding
    shape,          \* shape[k]: what call k looks like
    gor,            \* gor[k]: the goroutine that runs call k
    parent,         \* parent[k]: the call whose C function called back
    top,            \* top[g]: the innermost unfinished call of goroutine g
    thread,         \* thread[g]: the OS thread goroutine g runs on
    lockers,        \* lockers[g]: the calls of g holding runtime.LockOSThread
    errno,          \* errno[t]: C's errno on thread t
    pool,           \* contexts lying in slowCallPool
    fresh,          \* contexts that are not allocated (never, or not any more)
    keepAlive,      \* keepAlive[c], ffiArgs[c], retBuf[c]: the context's fields
    ffiArgs,
    retBuf,
    sees,           \* sees[k]: what the C function of k found in its arguments
    left            \* left[k]: what C code last wrote to errno since k cleared it

localVars == <<ctx, ffiArgsCount, keepAliveCount, errnoPtr, errVal, retVal>>
stackVars == <<shape, gor, parent, top>>
runtimeVars == <<thread, lockers, errno>>
poolVars == <<pool, fresh>>
memVars == <<keepAlive, ffiArgs, retBuf>>
ghostVars == <<sees, left>>
vars == <<pc, localVars, panicking, stackVars, runtimeVars, poolVars, memVars,
          ghostVars>>

-----------------------------------------------------------------------------
Tokens == Calls \X (1..MaxArgs)
Slots == 1..Cap

PCs == {"idle", "get", "lock", "clear", "pack", "call", "inC", "geterr",
        "unpack", "unlock", "put", "done"}

NoShape == [argc |-> 0, hasErr |-> FALSE, dynamic |-> FALSE, buffered |-> FALSE]

Empty == [i \in Slots |-> Nil]

Thread(k) == thread[gor[k]]

\* Call k runs: it is the innermost call of its goroutine.
Runs(k) == top[gor[k]] = k

\* The calls of g whose C functions are on its stack.
InC(g) == {k \in Calls : pc[k] = "inC" /\ gor[k] = g}

\* The Go runtime keeps a goroutine on its thread while it holds
\* LockOSThread and while C code is on its stack.
Pinned(g) == lockers[g] # {} \/ InC(g) # {}

Goto(k, l) == pc' = [pc EXCEPT ![k] = l]

\* Where the deferred functions of call k's closure start.
Deferred(k) == IF shape[k].hasErr THEN "unlock" ELSE "put"

-----------------------------------------------------------------------------
Init ==
    /\ pc = [k \in Calls |-> "idle"]
    /\ ctx = [k \in Calls |-> NoCtx]
    /\ ffiArgsCount = [k \in Calls |-> 0]
    /\ keepAliveCount = [k \in Calls |-> 0]
    /\ errnoPtr = [k \in Calls |-> NoThread]
    /\ errVal = [k \in Calls |-> 0]
    /\ retVal = [k \in Calls |-> Nil]
    /\ panicking = [k \in Calls |-> FALSE]
    /\ shape = [k \in Calls |-> NoShape]
    /\ gor \in [Calls -> Goroutines]
    /\ parent = [k \in Calls |-> NoCall]
    /\ top = [g \in Goroutines |-> NoCall]
    /\ thread \in [Goroutines -> Threads]
    /\ \A g, h \in Goroutines : thread[g] = thread[h] => g = h
    /\ lockers = [g \in Goroutines |-> {}]
    /\ errno = [t \in Threads |-> 0]
    /\ pool = {}
    /\ fresh = Ctxs
    /\ keepAlive = [c \in Ctxs |-> Empty]
    /\ ffiArgs = [c \in Ctxs |-> Empty]
    /\ retBuf = [c \in Ctxs |-> Nil]
    /\ sees = [k \in Calls |-> <<>>]
    /\ left = [k \in Calls |-> 0]

\* A goroutine calls the registered function: from plain Go code, or from a
\* callback that the C function of its innermost call runs.
Invoke(k) ==
    /\ pc[k] = "idle"
    /\ top[gor[k]] = NoCall \/ top[gor[k]] \in InC(gor[k])
    /\ \E s \in Shapes : shape' = [shape EXCEPT ![k] = s]
    /\ parent' = [parent EXCEPT ![k] = top[gor[k]]]
    /\ top' = [top EXCEPT ![gor[k]] = k]
    /\ Goto(k, "get")
    /\ UNCHANGED <<localVars, panicking, gor, runtimeVars, poolVars, memVars,
                   ghostVars>>

\* Mutant of Take: the context stays in the pool.
TakeShared(k, c) ==
    /\ pool' = pool \cup {c}
    /\ fresh' = fresh \ {c}
    /\ ctx' = [ctx EXCEPT ![k] = c]

\* slowCallPool.Get: a pooled context, or a new zero one.  (sync.Pool keeps
\* per-processor lists, so New may run while other processors' lists are not
\* empty.)
Take(k, c) ==
    /\ pool' = pool \ {c}
    /\ fresh' = fresh \ {c}
    /\ ctx' = [ctx EXCEPT ![k] = c]

Get(k) ==
    /\ pc[k] = "get"
    /\ \E c \in pool \cup fresh : Take(k, c)
    /\ Goto(k, IF shape[k].hasErr THEN "lock" ELSE "pack")
    /\ UNCHANGED <<ffiArgsCount, keepAliveCount, errnoPtr, errVal, retVal,
                   panicking, stackVars, runtimeVars, memVars, ghostVars>>

\* Mutant of LockOSThread: the goroutine stays free to change threads.
LockNothing(k) ==
    /\ pc[k] = "lock"
    /\ Goto(k, "clear")
    /\ UNCHANGED <<localVars, panicking, stackVars, runtimeVars, poolVars,
                   memVars, ghostVars>>

\* runtime.LockOSThread, for a signature with an error result.
LockOSThread(k) ==
    /\ pc[k] = "lock"
    /\ lockers' = [lockers EXCEPT ![gor[k]] = @ \cup {k}]
    /\ Goto(k, "clear")
    /\ UNCHANGED <<localVars, panicking, stackVars, thread, errno, poolVars,
                   memVars, ghostVars>>

\* The errno of call k's thread is written: it is what the C functions of the
\* calls in S will have left.
WriteErrno(k, e, S) ==
    /\ errno' = [errno EXCEPT ![Thread(k)] = e]
    /\ left' = [j \in Calls |-> IF j \in S THEN e ELSE left[j]]

\* clrAndGetErrno: take the errno location of the current thread, set it to
\* 0, and keep the location for getErr.
ClearErrno(k) ==
    /\ pc[k] = "clear"
    /\ IF HasErrnoFn
       THEN /\ WriteErrno(k, 0, InC(gor[k]) \cup {k})
            /\ errnoPtr' = [errnoPtr EXCEPT ![k] = Thread(k)]
       ELSE UNCHANGED <<errno, left, errnoPtr>>
    /\ Goto(k, "pack")
    /\ UNCHANGED <<ctx, ffiArgsCount, keepAliveCount, errVal, retVal, panicking,
                   stackVars, thread, lockers, poolVars, memVars, sees>>

\* Mutant of Panic: UnlockOSThread is called at the end and not deferred.
PanicPastUnlock(k) ==
    /\ panicking' = [panicking EXCEPT ![k] = TRUE]
    /\ Goto(k, "put")

\* A Go panic in the closure: its deferred functions run.
Panic(k) ==
    /\ panicking' = [panicking EXCEPT ![k] = TRUE]
    /\ Goto(k, Deferred(k))

\* Mutant of StoreArg: keepAliveCount is not advanced.
StoreKeepsLast(k, n) ==
    /\ ffiArgs' = [ffiArgs EXCEPT ![ctx[k]][n] = <<k, n>>]
    /\ keepAlive' = [keepAlive EXCEPT ![ctx[k]][1] = <<k, n>>]
    /\ ffiArgsCount' = [ffiArgsCount EXCEPT ![k] = n]
    /\ keepAliveCount' = [keepAliveCount EXCEPT ![k] = 1]

\* Store what packArg returned for the n-th argument of call k.
StoreArg(k, n) ==
    /\ ffiArgs' = [ffiArgs EXCEPT ![ctx[k]][n] = <<k, n>>]
    /\ keepAlive' = [keepAlive EXCEPT ![ctx[k]][keepAliveCount[k] + 1] = <<k, n>>]
    /\ ffiArgsCount' = [ffiArgsCount EXCEPT ![k] = n]
    /\ keepAliveCount' = [keepAliveCount EXCEPT ![k] = @ + 1]

\* Pack the next argument, fixed or variadic: packArg's pointer goes into
\* ffiArgs, what it asks to keep into keepAlive.  The store into ffiArgs
\* panics past the end of the array; packArg and goArgTypeToFfiType panic on
\* an unsupported element of the variadic tail, and ffi.NewCallback on a Go
\* function it cannot take.
PackArg(k) ==
    /\ pc[k] = "pack"
    /\ ffiArgsCount[k] < shape[k].argc
    /\ \/ /\ ffiArgsCount[k] < Cap
          /\ StoreArg(k, ffiArgsCount[k] + 1)
          /\ UNCHANGED <<pc, panicking>>
       \/ /\ Panic(k)
          /\ UNCHANGED <<ffiArgs, keepAlive, ffiArgsCount, keepAliveCount>>
    /\ UNCHANGED <<ctx, errnoPtr, errVal, retVal, stackVars, runtimeVars,
                   poolVars, retBuf, ghostVars>>

\* All arguments are packed.  For a Go-variadic signature the call interface
\* is prepared now, and its preparation may fail.
Prepare(k) ==
    /\ pc[k] = "pack"
    /\ ffiArgsCount[k] = shape[k].argc
    /\ \/ Goto(k, "call") /\ UNCHANGED panicking
       \/ shape[k].dynamic /\ Panic(k)
    /\ UNCHANGED <<localVars, stackVars, runtimeVars, poolVars, memVars, ghostVars>>

\* ffi.CallFunction: the C function is entered with ctx.ffiArgs[:n], or the
\* call is refused and the closure panics.
CallFunction(k) ==
    /\ pc[k] = "call"
    /\ \/ /\ sees' = [sees EXCEPT ![k] =
                        [i \in 1..ffiArgsCount[k] |-> ffiArgs[ctx[k]][i]]]
          /\ Goto(k, "inC")
          /\ UNCHANGED panicking
       \/ Panic(k) /\ UNCHANGED sees
    /\ UNCHANGED <<localVars, stackVars, runtimeVars, poolVars, memVars, left>>

\* The C function (external) writes errno.
CSetErrno(k) ==
    /\ pc[k] = "inC" /\ Runs(k)
    /\ \E e \in Errnos : WriteErrno(k, e, InC(gor[k]))
    /\ UNCHANGED <<pc, localVars, panicking, stackVars, thread, lockers,
                   poolVars, memVars, sees>>

\* The C function (external) returns, and goffi stores its result.
CReturn(k) ==
    /\ pc[k] = "inC" /\ Runs(k)
    /\ Goto(k, "geterr")
    /\ retBuf' = IF shape[k].buffered
                 THEN [retBuf EXCEPT ![ctx[k]] = k] ELSE retBuf
    /\ UNCHANGED <<localVars, panicking, stackVars, runtimeVars, poolVars,
                   keepAlive, ffiArgs, ghostVars>>

\* Mutant of GetErr: errno is looked up afresh, cleared or not.
GetErrAfresh(k) ==
    /\ pc[k] = "geterr"
    /\ errVal' = [errVal EXCEPT ![k] = errno[Thread(k)]]
    /\ Goto(k, "unpack")
    /\ UNCHANGED <<ctx, ffiArgsCount, keepAliveCount, errnoPtr, retVal,
                   panicking, stackVars, runtimeVars, poolVars, memVars, ghostVars>>

\* getErr reads errno through the location taken before the call.
GetErr(k) ==
    /\ pc[k] = "geterr"
    /\ errVal' = [errVal EXCEPT ![k] =
                    IF shape[k].hasErr /\ errnoPtr[k] # NoThread
                    THEN errno[errnoPtr[k]] ELSE 0]
    /\ Goto(k, "unpack")
    /\ UNCHANGED <<ctx, ffiArgsCount, keepAliveCount, errnoPtr, retVal,
                   panicking, stackVars, runtimeVars, poolVars, memVars, ghostVars>>

\* unpackRet turns the raw result into a Go value.  For a function result it
\* calls RegisterFunc, which may panic.
Unpack(k) ==
    /\ pc[k] = "unpack"
    /\ \/ /\ retVal' = [retVal EXCEPT ![k] =
                          IF shape[k].buffered THEN retBuf[ctx[k]] ELSE k]
          /\ Goto(k, Deferred(k))
          /\ UNCHANGED panicking
       \/ shape[k].buffered /\ Panic(k) /\ UNCHANGED retVal
    /\ UNCHANGED <<ctx, ffiArgsCount, keepAliveCount, errnoPtr, errVal,
                   stackVars, runtimeVars, poolVars, memVars, ghostVars>>

\* The deferred runtime.UnlockOSThread, the first deferred call to run.
UnlockOSThread(k) ==
    /\ pc[k] = "unlock"
    /\ lockers' = [lockers EXCEPT ![gor[k]] = @ \ {k}]
    /\ Goto(k, "put")
    /\ UNCHANGED <<localVars, panicking, stackVars, thread, errno, poolVars,
                   memVars, ghostVars>>

\* Mutant of ClearKeepAlive: the last entry is missed.
ClearAllButLast(k) ==
    [i \in Slots |-> IF i < keepAliveCount[k] THEN Nil ELSE keepAlive[ctx[k]][i]]

\* The keepAlive array of call k's context after the deferred loop.
ClearKeepAlive(k) ==
    [i \in Slots |-> IF i <= keepAliveCount[k] THEN Nil ELSE keepAlive[ctx[k]][i]]

\* Mutant of Put: the end of the closure and no deferred function gives the
\* context back, so a panic leaves without.
PutUnlessPanicking(k) ==
    /\ pc[k] = "put"
    /\ IF panicking[k] THEN UNCHANGED <<keepAlive, pool, ctx>>
       ELSE /\ keepAlive' = [keepAlive EXCEPT ![ctx[k]] = ClearKeepAlive(k)]
            /\ pool' = pool \cup {ctx[k]}
            /\ ctx' = [ctx EXCEPT ![k] = NoCtx]
    /\ top' = [top EXCEPT ![gor[k]] = parent[k]]
    /\ \/ Goto(k, "done") /\ UNCHANGED panicking
       \/ /\ panicking[k] /\ parent[k] # NoCall
          /\ pc' = [pc EXCEPT ![k] = "done", ![parent[k]] = Deferred(parent[k])]
          /\ panicking' = [panicking EXCEPT ![parent[k]] = TRUE]
    /\ UNCHANGED <<ffiArgsCount, keepAliveCount, errnoPtr, errVal, retVal, shape,
                   gor, parent, runtimeVars, fresh, ffiArgs, retBuf, ghostVars>>

\* The deferred function: clear keepAlive, give the context back.  The call
\* is over; a panic goes on through the C function that called back, into
\* the closure of the outer call, unless the callback recovers it.
Put(k) ==
    /\ pc[k] = "put"
    /\ keepAlive' = [keepAlive EXCEPT ![ctx[k]] = ClearKeepAlive(k)]
    /\ pool' = pool \cup {ctx[k]}
    /\ ctx' = [ctx EXCEPT ![k] = NoCtx]
    /\ top' = [top EXCEPT ![gor[k]] = parent[k]]
    /\ \/ Goto(k, "done") /\ UNCHANGED panicking
       \/ /\ panicking[k] /\ parent[k] # NoCall
          /\ pc' = [pc EXCEPT ![k] = "done", ![parent[k]] = Deferred(parent[k])]
          /\ panicking' = [panicking EXCEPT ![parent[k]] = TRUE]
    /\ UNCHANGED <<ffiArgsCount, keepAliveCount, errnoPtr, errVal, retVal, shape,
                   gor, parent, runtimeVars, fresh, ffiArgs, retBuf, ghostVars>>

\* The Go scheduler moves a goroutine to another OS thread.
Migrate(g) ==
    /\ ~Pinned(g)
    /\ \E t \in Threads :
          /\ \A h \in Goroutines : thread[h] # t
          /\ thread' = [thread EXCEPT ![g] = t]
    /\ UNCHANGED <<pc, localVars, panicking, stackVars, lockers, errno, poolVars,
                   memVars, ghostVars>>

\* The garbage collector empties sync.Pools: the context is gone, and its
\* memory is zero when it is allocated again.
DropPooled(c) ==
    /\ c \in pool
    /\ pool' = pool \ {c}
    /\ fresh' = fresh \cup {c}
    /\ ffiArgs' = [ffiArgs EXCEPT ![c] = Empty]
    /\ keepAlive' = [keepAlive EXCEPT ![c] = Empty]
    /\ retBuf' = [retBuf EXCEPT ![c] = Nil]
    /\ UNCHANGED <<pc, localVars, panicking, stackVars, runtimeVars, ghostVars>>

\* The steps of the closure itself.
Closure(k) ==
    \/ Get(k) \/ LockOSThread(k) \/ ClearErrno(k) \/ PackArg(k) \/ Prepare(k)
    \/ CallFunction(k) \/ GetErr(k) \/ Unpack(k) \/ UnlockOSThread(k) \/ Put(k)

Next ==
    \/ \E k \in Calls : Invoke(k) \/ Closure(k) \/ CSetErrno(k) \/ CReturn(k)
    \/ \E g \in Goroutines : Migrate(g)
    \/ \E c \in Ctxs : DropPooled(c)

Spec == Init /\ [][Next]_vars

\* A running closure keeps running, and the C functions return.
FairSpec == Spec /\ \A k \in Calls : WF_vars(Closure(k)) /\ WF_vars(CReturn(k))

-----------------------------------------------------------------------------
\* The calls that were made and are not over.
Active == {k \in Calls : pc[k] \notin {"idle", "done"}}

\* The calls that hold a context, and those of them between LockOSThread and
\* the deferred UnlockOSThread.
Holding == {k \in Calls : pc[k] \notin {"idle", "get", "done"}}
Locked == {k \in Holding : shape[k].hasErr /\ pc[k] \notin {"lock", "put"}}

(* Type correctness: the closure's locals, the runtime's bookkeeping and the *)
(* pool hold what their Go types say, a running closure has a context, and   *)
(* its counters pass neither the number of arguments nor the arrays' length. *)
TypeOK ==
    /\ pc \in [Calls -> PCs]
    /\ ctx \in [Calls -> Ctxs \cup {NoCtx}]
    /\ ffiArgsCount \in [Calls -> 0..Cap]
    /\ keepAliveCount \in [Calls -> 0..Cap]
    /\ errnoPtr \in [Calls -> Threads \cup {NoThread}]
    /\ errVal \in [Calls -> Errnos \cup {0}]
    /\ retVal \in [Calls -> Calls \cup {Nil}]
    /\ panicking \in [Calls -> BOOLEAN]
    /\ shape \in [Calls -> Shapes \cup {NoShape}]
    /\ gor \in [Calls -> Goroutines]
    /\ parent \in [Calls -> Calls \cup {NoCall}]
    /\ top \in [Goroutines -> Calls \cup {NoCall}]
    /\ thread \in [Goroutines -> Threads]
    /\ lockers \in [Goroutines -> SUBSET Calls]
    /\ errno \in [Threads -> Errnos \cup {0}]
    /\ pool \subseteq Ctxs /\ fresh \subseteq Ctxs
    /\ keepAlive \in [Ctxs -> [Slots -> Tokens \cup {Nil}]]
    /\ ffiArgs \in [Ctxs -> [Slots -> Tokens \cup {Nil}]]
    /\ retBuf \in [Ctxs -> Calls \cup {Nil}]
    /\ sees \in [Calls -> Seq(Tokens \cup {Nil})]
    /\ left \in [Calls -> Errnos \cup {0}]
    /\ \A k \in Holding : ctx[k] \in Ctxs
    /\ \A k \in Calls : /\ keepAliveCount[k] <= ffiArgsCount[k]
                        /\ ffiArgsCount[k] <= shape[k].argc

(* A slowCallContext belongs to one call at a time (purego.go:131, 140): no  *)
(* two calls, on two goroutines or nested through a callback, hold the same  *)
(* context, and none that is held lies in slowCallPool.                      *)
CtxExclusive ==
    /\ \A j, k \in Holding : ctx[j] = ctx[k] => j = k
    /\ \A k \in Holding : ctx[k] \notin pool \cup fresh
    /\ pool \cap fresh = {}

(* While a call is in C, and until it is over, its context's ffiArgs refer   *)
(* to its own arguments, in order, and keepAlive to the values packArg gave  *)
(* for them (purego.go:155-186, 232): neither another goroutine nor a call   *)
(* made from a callback replaces them.                                       *)
ArgsIntact ==
    \A k \in Calls : pc[k] \in {"inC", "geterr", "unpack"} =>
        /\ sees[k] = [i \in 1..shape[k].argc |-> <<k, i>>]
        /\ \A i \in 1..shape[k].argc :
              ffiArgs[ctx[k]][i] = <<k, i>> /\ keepAlive[ctx[k]][i] = <<k, i>>

(* The error of a call is the errno its C function left on its own thread    *)
(* (purego.go:144-152, 240-243, syscall_unix.go:50-64): not one another      *)
(* goroutine's C function left on a thread they shared for a while, nor one  *)
(* from before the call.                                                     *)
ErrnoOwn ==
    HasErrnoFn => \A k \in Calls :
        pc[k] \in {"unpack", "unlock", "put", "done"} /\ ~panicking[k] =>
            errVal[k] = IF shape[k].hasErr THEN left[k] ELSE 0

(* A context that lies in the pool keeps no argument alive: whatever path    *)
(* ended the call, a panic in the middle of packing included, the deferred   *)
(* loop cleared every keepAlive entry that was set (purego.go:135-142).      *)
CleanPool == \A c \in pool \cup fresh : keepAlive[c] = Empty

(* A goroutine holds exactly the LockOSThread its unfinished error-returning *)
(* calls took (purego.go:144-147): no path, no panic out of C through        *)
(* several nested calls, leaves the goroutine wired to its thread.           *)
LockBalanced == \A g \in Goroutines : lockers[g] = {k \in Locked : gor[k] = g}

(* Every call that was made ends, by returning or by panicking, with its     *)
(* context given back (purego.go:130-269), however calls nest and whatever   *)
(* fails, as long as the C functions return.                                 *)
CallsEnd == \A k \in Calls : pc[k] # "idle" ~> pc[k] = "done" /\ ctx[k] = NoCtx

(* What the comment at purego.go:136 is after, "so we don't leak memory in   *)
(* the pool", for the other array of pointers the context holds: a pooled    *)
(* context refers to no argument memory.                                     *)
PoolRetainsNoArguments == \A c \in pool : ffiArgs[c] = Empty

-----------------------------------------------------------------------------
\* What the proofs need beyond the properties above.

\* A call that has no context yet has packed nothing.
FreshFrames ==
    \A k \in Calls : pc[k] \in {"idle", "get"} =>
        ffiArgsCount[k] = 0 /\ keepAliveCount[k] = 0

\* A goroutine's unfinished calls are a stack: those under the innermost one
\* are in C, waiting for a callback, and each was called back to by one call.
Stacked ==
    /\ \A k \in Active : pc[k] # "inC" => Runs(k)
    /\ \A k \in Active : parent[k] # NoCall =>
          pc[parent[k]] = "inC" /\ gor[parent[k]] = gor[k] /\ ~Runs(parent[k])
    /\ \A j, k \in Active : parent[j] = parent[k] /\ parent[k] # NoCall => j = k

\* A context holds what its call has packed so far, and nothing is kept alive
\* beyond it; a call that is past packing has packed everything.
PackedAt(k) ==
    /\ keepAliveCount[k] = ffiArgsCount[k]
    /\ \A i \in Slots :
          IF i <= ffiArgsCount[k]
          THEN ffiArgs[ctx[k]][i] = <<k, i>> /\ keepAlive[ctx[k]][i] = <<k, i>>
          ELSE keepAlive[ctx[k]][i] = Nil
    /\ pc[k] \in {"call", "inC", "geterr", "unpack"} =>
          ffiArgsCount[k] = shape[k].argc
    /\ pc[k] \in {"inC", "geterr", "unpack"} =>
          sees[k] = [i \in 1..shape[k].argc |-> <<k, i>>]

Packed == \A k \in Holding : PackedAt(k)

\* Only a call with an error result gets to lock or unlock its thread.
LockSteps ==
    \A k \in Calls : pc[k] \in {"lock", "clear", "unlock"} => shape[k].hasErr

\* No two goroutines share a thread, and from clearing errno to reading it an
\* error-returning call stays on the thread whose location it took, where
\* errno is what the C functions on its stack left.
ErrnoTracked ==
    /\ \A g, h \in Goroutines : thread[g] = thread[h] => g = h
    /\ HasErrnoFn => \A k \in Locked :
          pc[k] \in {"pack", "call", "inC", "geterr"} =>
              errnoPtr[k] = Thread(k) /\ left[k] = errno[Thread(k)]

\* A result is the call's own once its C function has returned, a call
\* unwinds through its deferred functions only, and no errno is ascribed to
\* one that has not cleared it, or where there is no errno location.
OutcomeOf(k) ==
    /\ pc[k] \in {"geterr", "unpack"} /\ shape[k].buffered => retBuf[ctx[k]] = k
    /\ pc[k] \in {"unlock", "put", "done"} /\ ~panicking[k] => retVal[k] = k
    /\ panicking[k] => pc[k] \in {"unlock", "put", "done"}
    /\ pc[k] \in {"idle", "get", "lock", "clear"} => left[k] = 0
    /\ ~HasErrnoFn => errnoPtr[k] = NoThread /\ errVal[k] = 0

OutcomeTracked == \A k \in Calls : OutcomeOf(k)

(* The closures of all calls, wherever each of them stands (purego.go:130-   *)
(* 269): contexts, packed arguments, thread locks and errno locations stay   *)
(* with the calls they belong to.  It is preserved by every step on its own. *)
IndInv ==
    /\ TypeOK /\ FreshFrames /\ Stacked /\ CtxExclusive /\ Packed /\ CleanPool
    /\ LockSteps /\ LockBalanced /\ ErrnoTracked /\ ErrnoOwn /\ OutcomeTracked

-----------------------------------------------------------------------------
Phase(k) ==
    IF panicking[k] THEN "panicked"
    ELSE CASE pc[k] = "idle" -> "idle"
           [] pc[k] = "done" -> "returned"
           [] pc[k] \in {"get", "lock", "clear", "pack", "call"} -> "called"
           [] OTHER -> "inC"

Outcome(k) ==
    IF Phase(k) = "returned"
    THEN [val |-> retVal[k], err |-> errVal[k]] ELSE NoCall

Abstract == INSTANCE ForeignCall WITH
    phase <- [k \in Calls |-> Phase(k)],
    argc <- [k \in Calls |-> shape[k].argc],
    out <- [k \in Calls |-> Outcome(k)],
    NoOut <- NoCall

(* The reflect path is an implementation of a foreign call (ForeignCall):    *)
(* pool, contexts and threads shared between calls do not show in what the C *)
(* function sees or in what the caller gets back.                            *)
ImplementsForeignCall == Abstract!Spec
=============================================================================
