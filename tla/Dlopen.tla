------------------------------- MODULE Dlopen -------------------------------
(***************************************************************************)
(* Opening libraries on Linux (dlfcn_linux.go).  Dlopen looks dlopen and   *)
(* dlerror up once, and then calls both through registered functions.  The *)
(* message dlerror returns belongs to the OS thread: it is whatever the    *)
(* last failing dl call on that thread left, whoever made it.              *)
(*                                                                         *)
(* An operation is <<g, n>>, the n-th of goroutine g; the token also stands *)
(* for the handle or the message that it produces.                         *)
(***************************************************************************)
EXTENDS Naturals

CONSTANTS
    Goroutines,
    Threads,    \* OS threads
    MaxOps,     \* bound: operations of a goroutine
    NoMsg       \* no message is pending

ASSUME DlopenAssumption ==
    /\ MaxOps \in Nat
    /\ NoMsg \notin Goroutines \X (1..MaxOps)
    /\ "new" \notin Goroutines /\ "done" \notin Goroutines

VARIABLES
    pc,         \* pc[g]: where goroutine g stands in Dlopen
    ops,        \* ops[g]: the operations it has begun
    ret,        \* ret[g]: what its last Dlopen returned
    once,       \* dlopenOnce: "new", the goroutine in initDlopen, or "done"
    setup,      \* what initDlopen left: "unset", "registered" (dlopenFn and
                \* dlerrorFn are set) or "missing" (dlopenErr is set)
    thread,     \* thread[g]: the OS thread goroutine g runs on
    locks,      \* locks[g]: how often it holds LockOSThread
    dlerror,    \* dlerror[t]: the message pending on thread t
    opened      \* opened[g]: how dlopen itself ended in the current Dlopen

initVars == <<once, setup>>
vars == <<pc, ops, ret, initVars, thread, locks, dlerror, opened>>

-----------------------------------------------------------------------------
PCs == {"idle", "once", "check", "lock", "clear", "open", "read", "unlock"}

Op(g) == <<g, ops[g]>>
Messages == Goroutines \X (1..MaxOps)

\* Results: a handle, dlerror's message, the message Dlopen makes up itself,
\* the error of initDlopen, a panic.
Result(kind, of) == [kind |-> kind, of |-> of]
NoResult == Result("none", NoMsg)
Results == [kind : {"none", "handle", "dlerror", "generic", "init", "panic"},
            of : Messages \cup {NoMsg}]

Goto(g, l) == pc' = [pc EXCEPT ![g] = l]
Returns(g, kind, of) == ret' = [ret EXCEPT ![g] = Result(kind, of)]

\* Message m is now pending on g's thread.
Leaves(g, m) == dlerror' = [dlerror EXCEPT ![thread[g]] = m]

\* What may be pending after a dl call (external) of operation op: its own
\* message, the one from before, or none.
Pending(g, op) == {op, dlerror[thread[g]], NoMsg}

-----------------------------------------------------------------------------
Init ==
    /\ pc = [g \in Goroutines |-> "idle"]
    /\ ops = [g \in Goroutines |-> 0]
    /\ ret = [g \in Goroutines |-> NoResult]
    /\ once = "new"
    /\ setup = "unset"
    /\ thread \in [Goroutines -> Threads]
    /\ \A g, h \in Goroutines : thread[g] = thread[h] => g = h
    /\ locks = [g \in Goroutines |-> 0]
    /\ dlerror = [t \in Threads |-> NoMsg]
    /\ opened = [g \in Goroutines |-> "not yet"]

\* Dlopen is called.
Call(g) ==
    /\ pc[g] = "idle"
    /\ ops[g] < MaxOps
    /\ ops' = [ops EXCEPT ![g] = @ + 1]
    /\ ret' = [ret EXCEPT ![g] = NoResult]
    /\ opened' = [opened EXCEPT ![g] = "not yet"]
    /\ Goto(g, "once")
    /\ UNCHANGED <<initVars, thread, locks, dlerror>>

\* Mutant of EnterOnce: a flag instead of a sync.Once, so that a second
\* caller goes on while the first is still looking the functions up.
EnterFlag(g) ==
    /\ pc[g] = "once"
    /\ once # g
    /\ IF once = "new" THEN once' = g /\ UNCHANGED pc
       ELSE Goto(g, "check") /\ UNCHANGED once
    /\ UNCHANGED <<ops, ret, setup, thread, locks, dlerror, opened>>

\* dlopenOnce.Do: the first caller runs initDlopen, the others wait for it.
EnterOnce(g) ==
    /\ pc[g] = "once"
    /\ \/ once = "new" /\ once' = g /\ UNCHANGED pc
       \/ once = "done" /\ Goto(g, "check") /\ UNCHANGED once
    /\ UNCHANGED <<ops, ret, setup, thread, locks, dlerror, opened>>

\* initDlopen: both functions are found and registered, or one is missing, or
\* RegisterFunc panics, which ends the once as well.  Nobody else looks at
\* what it sets before it is over, so it is one step.
InitDlopen(g) ==
    /\ once = g
    /\ once' = "done"
    /\ \E m \in Pending(g, Op(g)) : Leaves(g, m)
    /\ \/ setup' \in {"registered", "missing"} /\ Goto(g, "check") /\ UNCHANGED ret
       \/ Returns(g, "panic", NoMsg) /\ Goto(g, "idle") /\ UNCHANGED setup
    /\ UNCHANGED <<ops, thread, locks, opened>>

\* Mutant of Check: a caller that finds the error tries again.
CheckRetries(g) ==
    /\ pc[g] = "check"
    /\ Goto(g, IF setup = "missing" THEN "once" ELSE "lock")
    /\ UNCHANGED <<ops, ret, initVars, thread, locks, dlerror, opened>>

\* The error initDlopen kept is every caller's error.
Check(g) ==
    /\ pc[g] = "check"
    /\ IF setup = "missing" THEN Goto(g, "idle") /\ Returns(g, "init", NoMsg)
       ELSE Goto(g, "lock") /\ UNCHANGED ret
    /\ UNCHANGED <<ops, initVars, thread, locks, dlerror, opened>>

\* Mutant of LockOSThread: the goroutine stays free to change threads.
LockNothing(g) ==
    /\ pc[g] = "lock"
    /\ Goto(g, "clear")
    /\ UNCHANGED <<ops, ret, initVars, thread, locks, dlerror, opened>>

LockOSThread(g) ==
    /\ pc[g] = "lock"
    /\ locks' = [locks EXCEPT ![g] = @ + 1]
    /\ Goto(g, "clear")
    /\ UNCHANGED <<ops, ret, initVars, thread, dlerror, opened>>

\* The first dlerrorFn(): whatever was pending is thrown away.
Clear(g) ==
    /\ pc[g] = "clear"
    /\ setup = "registered"
    /\ Leaves(g, NoMsg)
    /\ Goto(g, "open")
    /\ UNCHANGED <<ops, ret, initVars, thread, locks, opened>>

\* dlopenFn(path, mode).  A constructor of the library may make failing dl
\* calls of its own, so a message may be pending after a success as well.
Open(g) ==
    /\ pc[g] = "open"
    /\ \E m \in Pending(g, Op(g)) :
          /\ Leaves(g, m)
          /\ \/ /\ opened' = [opened EXCEPT ![g] = "handle"]
                /\ Returns(g, "handle", Op(g))
                /\ Goto(g, "unlock")
             \/ /\ opened' = [opened EXCEPT ![g] = IF m = Op(g) THEN "failed" ELSE "silent"]
                /\ Goto(g, "read")
                /\ UNCHANGED ret
    /\ UNCHANGED <<ops, initVars, thread, locks>>

\* The second dlerrorFn(): its message, or one Dlopen makes up.
Read(g) ==
    /\ pc[g] = "read"
    /\ LET m == dlerror[thread[g]] IN
          Returns(g, IF m = NoMsg THEN "generic" ELSE "dlerror", m)
    /\ Leaves(g, NoMsg)
    /\ Goto(g, "unlock")
    /\ UNCHANGED <<ops, initVars, thread, locks, opened>>

\* Mutant of Panic: UnlockOSThread is not deferred.
PanicPastUnlock(g) ==
    /\ pc[g] \in {"clear", "open", "read"}
    /\ Returns(g, "panic", NoMsg)
    /\ Goto(g, "idle")
    /\ UNCHANGED <<ops, initVars, thread, locks, dlerror, opened>>

\* One of the registered functions panics: it is nil because initDlopen
\* panicked, or goffi refuses the call.
Panic(g) ==
    /\ pc[g] \in {"clear", "open", "read"}
    /\ Returns(g, "panic", NoMsg)
    /\ Goto(g, "unlock")
    /\ UNCHANGED <<ops, initVars, thread, locks, dlerror, opened>>

\* The deferred UnlockOSThread, and return.
Unlock(g) ==
    /\ pc[g] = "unlock"
    /\ locks' = [locks EXCEPT ![g] = @ - 1]
    /\ Goto(g, "idle")
    /\ UNCHANGED <<ops, ret, initVars, thread, dlerror, opened>>

\* Dlsym and Dlclose go straight to goffi, on whatever thread they are on,
\* and leave a message there or not.
Dlsym(g) ==
    /\ pc[g] = "idle"
    /\ ops[g] < MaxOps
    /\ ops' = [ops EXCEPT ![g] = @ + 1]
    /\ ret' = [ret EXCEPT ![g] = NoResult]
    /\ \E m \in Pending(g, <<g, ops[g] + 1>>) : Leaves(g, m)
    /\ UNCHANGED <<pc, initVars, thread, locks, opened>>

Dlclose(g) == Dlsym(g)

\* The Go scheduler moves a goroutine to a free OS thread.
Migrate(g) ==
    /\ locks[g] = 0
    /\ \E t \in Threads :
          /\ \A h \in Goroutines : thread[h] # t
          /\ thread' = [thread EXCEPT ![g] = t]
    /\ UNCHANGED <<pc, ops, ret, initVars, locks, dlerror, opened>>

\* The steps of Dlopen itself.
Body(g) ==
    \/ EnterOnce(g) \/ InitDlopen(g) \/ Check(g) \/ LockOSThread(g) \/ Clear(g)
    \/ Open(g) \/ Read(g) \/ Panic(g) \/ Unlock(g)

\* Every goroutine has had its operations: nothing more happens.
Quiescent ==
    /\ \A g \in Goroutines : pc[g] = "idle" /\ ops[g] = MaxOps
    /\ UNCHANGED vars

Next ==
    \/ \E g \in Goroutines : Call(g) \/ Body(g) \/ Dlsym(g) \/ Dlclose(g) \/ Migrate(g)
    \/ Quiescent

Spec == Init /\ [][Next]_vars

\* A goroutine in Dlopen keeps running, and the C functions return.
FairSpec == Spec /\ \A g \in Goroutines : WF_vars(Body(g))

-----------------------------------------------------------------------------
(* Type correctness of Dlopen's package variables, locals and threads.       *)
TypeOK ==
    /\ pc \in [Goroutines -> PCs]
    /\ ops \in [Goroutines -> 0..MaxOps]
    /\ ret \in [Goroutines -> Results]
    /\ once \in Goroutines \cup {"new", "done"}
    /\ setup \in {"unset", "registered", "missing"}
    /\ thread \in [Goroutines -> Threads]
    /\ locks \in [Goroutines -> {0, 1}]
    /\ dlerror \in [Threads -> Messages \cup {NoMsg}]
    /\ opened \in [Goroutines -> {"not yet", "handle", "failed", "silent"}]
    /\ \A g \in Goroutines : pc[g] # "idle" => ops[g] # 0

(* "dlerror is thread-local, so clear and read it on the same OS thread as   *)
(* dlopen" (dlfcn_linux.go:50): the message of a failed Dlopen is the one    *)
(* its own dlopen left, never what another goroutine's dl call or an earlier *)
(* one left on some thread; a dlopen that left none gets the generic text.   *)
MessageOwn ==
    \A g \in Goroutines :
        /\ ret[g].kind = "dlerror" => opened[g] = "failed" /\ ret[g].of = Op(g)
        /\ ret[g].kind = "generic" => opened[g] = "silent"
        /\ ret[g].kind = "handle" => opened[g] = "handle" /\ ret[g].of = Op(g)

(* dlopenFn and dlerrorFn are called only once initDlopen has ended, and     *)
(* never after a failed lookup (dlfcn_linux.go:39-40, 45, 53): a caller that *)
(* comes while another one is at it waits.  After an initDlopen that         *)
(* panicked they may still be nil, and the first of the calls panics.        *)
OnceBeforeUse ==
    \A g \in Goroutines :
        pc[g] \in {"lock", "clear", "open", "read", "unlock"} =>
            once = "done" /\ setup # "missing"

(* Whichever way Dlopen ends, a panic of dlopenFn or of a dlerrorFn that was *)
(* never set included, the goroutine is not left wired to its thread         *)
(* (dlfcn_linux.go:51-52).                                                   *)
LockBalanced ==
    \A g \in Goroutines :
        locks[g] = IF pc[g] \in {"clear", "open", "read", "unlock"} THEN 1 ELSE 0

(* Every Dlopen ends: nobody waits for ever on dlopenOnce                    *)
(* (dlfcn_linux.go:45), not even after initDlopen panicked in another        *)
(* goroutine.                                                                *)
DlopenEnds == \A g \in Goroutines : pc[g] # "idle" ~> pc[g] = "idle"

-----------------------------------------------------------------------------
\* What the proofs need beyond the properties above.

\* Nobody gets past the once before it is done, and whoever runs initDlopen
\* stands at the once.
OnceFirst ==
    /\ \A g \in Goroutines : pc[g] \notin {"idle", "once"} => once = "done"
    /\ \A g \in Goroutines : once = g => pc[g] = "once"

\* No two goroutines share a thread, and between clearing and reading dlerror
\* a goroutine's thread holds no message but that of its own dlopen.
DlerrorTracked ==
    /\ \A g, h \in Goroutines : thread[g] = thread[h] => g = h
    /\ \A g \in Goroutines :
          /\ pc[g] = "open" => dlerror[thread[g]] = NoMsg
          /\ pc[g] = "read" =>
                \/ opened[g] = "failed" /\ dlerror[thread[g]] = Op(g)
                \/ opened[g] = "silent" /\ dlerror[thread[g]] = NoMsg

\* A Dlopen that is under way has no result yet.
NotYet ==
    \A g \in Goroutines :
        pc[g] \in {"once", "check", "lock", "clear", "open", "read"} => ret[g] = NoResult

\* What IndInv says besides the types.
Rest ==
    /\ OnceFirst /\ LockBalanced /\ OnceBeforeUse
    /\ DlerrorTracked /\ NotYet /\ MessageOwn

(* The state of every Dlopen, wherever it stands (dlfcn_linux.go:44-62):     *)
(* locks, pending messages and results stay with the goroutine they belong   *)
(* to.  It is preserved by every step on its own.                            *)
IndInv == TypeOK /\ Rest
=============================================================================
