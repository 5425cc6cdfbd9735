------------------------------ MODULE SyscallN ------------------------------
(***************************************************************************)
(* SyscallN (syscall_unix.go): a call of a C function with word-sized      *)
(* arguments.  The call interfaces for 0..Cap arguments are prepared once, *)
(* by the first caller, while the others wait; every call then borrows a   *)
(* syscallContext from syscallPool for its arguments and its result.       *)
(*                                                                         *)
(* Calls run on many goroutines, or inside each other through callbacks;   *)
(* to the pool this is the same, so any order of their steps is allowed.   *)
(* <<k, i>> stands for the i-th argument of call k.  Words have WordBits   *)
(* bits and a C int IntBits (64 and 32 in the code).                       *)
(***************************************************************************)
EXTENDS Naturals

CONSTANTS
    Calls,      \* the calls that may be made
    Ctxs,       \* syscallContext allocations
    Cap,        \* length of args and ffiArgs (32 in the code)
    MaxArgs,    \* the largest number of arguments of a call
    Preparable, \* the argument counts PrepareCallInterface accepts
    WordBits, IntBits,
    Errnos,     \* nonzero error numbers
    NoCtx, NoOut, Nil

ASSUME SyscallAssumption ==
    /\ Cap \in Nat /\ MaxArgs \in Nat
    /\ WordBits \in Nat /\ IntBits \in Nat /\ 0 < IntBits /\ IntBits < WordBits
    /\ Errnos \subseteq Nat \ {0}
    /\ 0 \in 0..(2^WordBits - 1) /\ NoOut \notin 0..(2^WordBits - 1)
    /\ NoCtx \notin Ctxs /\ "new" \notin Calls /\ "done" \notin Calls
    /\ Nil \notin Calls \X (1..MaxArgs)

\* What arithmetic says of powers of two, and a proof needs of these two.
ASSUME PowersAssumption ==
    /\ 2^IntBits \in Nat \ {0}
    /\ \E q \in 1..2^WordBits : 2^WordBits = q * 2^IntBits

VARIABLES
    pc,         \* pc[k]: the next step of call k
    nArgs,      \* nArgs[k]: how many arguments it passes
    ctx,        \* ctx[k]: its context
    r1, err,    \* its results
    callErrno,  \* the errno goffi captured for it, 0 for none
    once,       \* syscallOnce: "new", the call that runs the function, "done"
    prepared,   \* the argument counts whose interface is prepared so far
    pool,       \* contexts lying in syscallPool
    fresh,      \* contexts that are not allocated
    args,       \* args[c], result[c]: fields of a context
    result,
    sees,       \* sees[k]: what the C function of call k found
    cret        \* cret[k]: what it returned, NoOut before

onceVars == <<once, prepared>>
poolVars == <<pool, fresh>>
memVars == <<args, result>>
ghostVars == <<sees, cret>>
vars == <<pc, nArgs, ctx, r1, err, callErrno, onceVars, poolVars, memVars, ghostVars>>

-----------------------------------------------------------------------------
Words == 0..(2^WordBits - 1)
Slots == 1..Cap
AllOnes(bits) == 2^bits - 1

PCs == {"idle", "enter", "once", "check", "get", "copy", "call", "inC", "collect", "put",
        "done", "panicked"}

\* int32(r1) == -1
IsMinusOne(w) == w % 2^IntBits = AllOnes(IntBits)

Goto(k, l) == pc' = [pc EXCEPT ![k] = l]

-----------------------------------------------------------------------------
Init ==
    /\ pc = [k \in Calls |-> "idle"]
    /\ nArgs = [k \in Calls |-> 0]
    /\ ctx = [k \in Calls |-> NoCtx]
    /\ r1 = [k \in Calls |-> 0]
    /\ err = [k \in Calls |-> 0]
    /\ callErrno = [k \in Calls |-> 0]
    /\ once = "new"
    /\ prepared = {}
    /\ pool = {}
    /\ fresh = Ctxs
    /\ args = [c \in Ctxs |-> [i \in Slots |-> Nil]]
    /\ result = [c \in Ctxs |-> 0]
    /\ sees = [k \in Calls |-> <<>>]
    /\ cret = [k \in Calls |-> NoOut]

\* SyscallN is called.
Invoke(k) ==
    /\ pc[k] = "idle"
    /\ \E n \in 0..MaxArgs : nArgs' = [nArgs EXCEPT ![k] = n]
    /\ Goto(k, "enter")
    /\ UNCHANGED <<ctx, r1, err, callErrno, onceVars, poolVars, memVars, ghostVars>>

\* It panics on a nil function.
CheckFn(k) ==
    /\ pc[k] = "enter"
    /\ Goto(k, "once") \/ Goto(k, "panicked")
    /\ UNCHANGED <<nArgs, ctx, r1, err, callErrno, onceVars, poolVars, memVars,
                   ghostVars>>

\* Mutant of EnterOnce: a flag instead of a sync.Once, so that a second
\* caller goes on while the first is still preparing.
EnterFlag(k) ==
    /\ pc[k] = "once"
    /\ IF once = "new" THEN once' = k /\ UNCHANGED pc
       ELSE Goto(k, "check") /\ UNCHANGED once
    /\ UNCHANGED <<nArgs, ctx, r1, err, callErrno, prepared, poolVars, memVars,
                   ghostVars>>

\* syscallOnce.Do: the first caller starts initSyscallCIFs; the others wait
\* here until it is over.
EnterOnce(k) ==
    /\ pc[k] = "once"
    /\ \/ once = "new" /\ once' = k /\ UNCHANGED pc
       \/ once = "done" /\ Goto(k, "check") /\ UNCHANGED once
    /\ UNCHANGED <<nArgs, ctx, r1, err, callErrno, prepared, poolVars, memVars,
                   ghostVars>>

\* Mutant of PrepareNext: the last round never ends the once.
PrepareForgets(k) ==
    /\ once = k
    /\ \E n \in (0..Cap) \ prepared :
          /\ \A m \in (0..Cap) \ prepared : n <= m
          /\ prepared' = prepared \cup {n}
    /\ UNCHANGED <<pc, nArgs, ctx, r1, err, callErrno, once, poolVars, memVars,
                   ghostVars>>

\* The loop of initSyscallCIFs: the interface for one more argument count.
PrepareNext(k) ==
    /\ once = k
    /\ IF 0..Cap \subseteq prepared
       THEN once' = "done" /\ UNCHANGED prepared
       ELSE /\ \E n \in (0..Cap) \ prepared :
                  /\ \A m \in (0..Cap) \ prepared : n <= m
                  /\ prepared' = prepared \cup {n}
            /\ UNCHANGED once
    /\ UNCHANGED <<pc, nArgs, ctx, r1, err, callErrno, poolVars, memVars, ghostVars>>

\* Mutant of Check: the number of arguments is not looked at.
CheckNothing(k) ==
    /\ pc[k] = "check"
    /\ Goto(k, "get")
    /\ UNCHANGED <<nArgs, ctx, r1, err, callErrno, onceVars, poolVars, memVars,
                   ghostVars>>

\* Too many arguments, or no call interface for this number of them: panic,
\* before anything is taken from the pool.
Check(k) ==
    /\ pc[k] = "check"
    /\ Goto(k, IF nArgs[k] <= Cap /\ nArgs[k] \in prepared \cap Preparable
               THEN "get" ELSE "panicked")
    /\ UNCHANGED <<nArgs, ctx, r1, err, callErrno, onceVars, poolVars, memVars,
                   ghostVars>>

\* Mutant of Take: the context stays in the pool.
TakeShared(k, c) ==
    /\ pool' = pool \cup {c}
    /\ fresh' = fresh \ {c}
    /\ ctx' = [ctx EXCEPT ![k] = c]

\* syscallPool.Get: a pooled context, or a new zero one.
Take(k, c) ==
    /\ pool' = pool \ {c}
    /\ fresh' = fresh \ {c}
    /\ ctx' = [ctx EXCEPT ![k] = c]

Get(k) ==
    /\ pc[k] = "get"
    /\ \E c \in pool \cup fresh : Take(k, c)
    /\ Goto(k, "copy")
    /\ UNCHANGED <<nArgs, r1, err, callErrno, onceVars, memVars, ghostVars>>

\* copy(ctx.args[:], args).
Copied(k) ==
    [i \in Slots |-> IF i <= nArgs[k] THEN <<k, i>> ELSE args[ctx[k]][i]]

\* Mutant of Copy: the old result is left in the context.
CopyOnly(k) ==
    /\ pc[k] = "copy"
    /\ args' = [args EXCEPT ![ctx[k]] = Copied(k)]
    /\ Goto(k, "call")
    /\ UNCHANGED <<nArgs, ctx, r1, err, callErrno, onceVars, poolVars, result,
                   ghostVars>>

\* The arguments go into the context, and its result is cleared.
Copy(k) ==
    /\ pc[k] = "copy"
    /\ args' = [args EXCEPT ![ctx[k]] = Copied(k)]
    /\ result' = [result EXCEPT ![ctx[k]] = 0]
    /\ Goto(k, "call")
    /\ UNCHANGED <<nArgs, ctx, r1, err, callErrno, onceVars, poolVars, ghostVars>>

\* ffi.CallFunction enters the C function with ctx.ffiArgs[:nArgs], or
\* refuses the call, which SyscallN ignores.
CallFunction(k) ==
    /\ pc[k] = "call"
    /\ \/ /\ Goto(k, "inC")
          /\ sees' = [sees EXCEPT ![k] = [i \in 1..nArgs[k] |-> args[ctx[k]][i]]]
       \/ Goto(k, "collect") /\ UNCHANGED sees
    /\ UNCHANGED <<nArgs, ctx, r1, err, callErrno, onceVars, poolVars, memVars, cret>>

\* The C function (external) returns a word, and goffi captures errno.
CReturn(k) ==
    /\ pc[k] = "inC"
    /\ \E w \in Words :
          /\ result' = [result EXCEPT ![ctx[k]] = w]
          /\ cret' = [cret EXCEPT ![k] = w]
    /\ \E e \in Errnos \cup {0} : callErrno' = [callErrno EXCEPT ![k] = e]
    /\ Goto(k, "collect")
    /\ UNCHANGED <<nArgs, ctx, r1, err, onceVars, poolVars, args, sees>>

\* A callback panics through the C function (external).  SyscallN defers
\* nothing: its context is left to the garbage collector.
CPanic(k) ==
    /\ pc[k] = "inC"
    /\ Goto(k, "panicked")
    /\ UNCHANGED <<nArgs, ctx, r1, err, callErrno, onceVars, poolVars, memVars,
                   ghostVars>>

\* Mutant of Collect: only a sign-extended -1 counts as an error.
CollectSigned(k) ==
    /\ pc[k] = "collect"
    /\ r1' = [r1 EXCEPT ![k] = result[ctx[k]]]
    /\ err' = [err EXCEPT ![k] = IF result[ctx[k]] = AllOnes(WordBits)
                                 THEN callErrno[k] ELSE 0]
    /\ Goto(k, "put")
    /\ UNCHANGED <<nArgs, ctx, callErrno, onceVars, poolVars, memVars, ghostVars>>

\* The results are read out of the context; errno counts only if the low half
\* of the first is -1.
Collect(k) ==
    /\ pc[k] = "collect"
    /\ r1' = [r1 EXCEPT ![k] = result[ctx[k]]]
    /\ err' = [err EXCEPT ![k] = IF IsMinusOne(result[ctx[k]])
                                 THEN callErrno[k] ELSE 0]
    /\ Goto(k, "put")
    /\ UNCHANGED <<nArgs, ctx, callErrno, onceVars, poolVars, memVars, ghostVars>>

\* syscallPool.Put, and return.
Put(k) ==
    /\ pc[k] = "put"
    /\ pool' = pool \cup {ctx[k]}
    /\ ctx' = [ctx EXCEPT ![k] = NoCtx]
    /\ Goto(k, "done")
    /\ UNCHANGED <<nArgs, r1, err, callErrno, onceVars, fresh, memVars, ghostVars>>

\* The garbage collector empties sync.Pools; a context allocated again is zero.
DropPooled(c) ==
    /\ c \in pool
    /\ pool' = pool \ {c}
    /\ fresh' = fresh \cup {c}
    /\ args' = [args EXCEPT ![c] = [i \in Slots |-> Nil]]
    /\ result' = [result EXCEPT ![c] = 0]
    /\ UNCHANGED <<pc, nArgs, ctx, r1, err, callErrno, onceVars, ghostVars>>

\* The steps of SyscallN itself.
Body(k) ==
    \/ CheckFn(k) \/ EnterOnce(k) \/ PrepareNext(k) \/ Check(k) \/ Get(k)
    \/ Copy(k) \/ CallFunction(k) \/ Collect(k) \/ Put(k)

\* All calls were made and are over: nothing more happens.
Quiescent ==
    /\ \A k \in Calls : pc[k] \in {"done", "panicked"}
    /\ UNCHANGED vars

Next ==
    \/ \E k \in Calls : Invoke(k) \/ Body(k) \/ CReturn(k) \/ CPanic(k)
    \/ \E c \in Ctxs : DropPooled(c)
    \/ Quiescent

Spec == Init /\ [][Next]_vars

\* A running call keeps running, and the C functions return.
FairSpec == Spec /\ \A k \in Calls : WF_vars(Body(k)) /\ WF_vars(CReturn(k))

-----------------------------------------------------------------------------
Holding == {k \in Calls : pc[k] \in {"copy", "call", "inC", "collect", "put"}}

(* Type correctness of SyscallN's locals, the contexts and the once.         *)
TypeOK ==
    /\ pc \in [Calls -> PCs]
    /\ nArgs \in [Calls -> 0..MaxArgs]
    /\ ctx \in [Calls -> Ctxs \cup {NoCtx}]
    /\ r1 \in [Calls -> Words]
    /\ err \in [Calls -> Errnos \cup {0}]
    /\ callErrno \in [Calls -> Errnos \cup {0}]
    /\ once \in Calls \cup {"new", "done"}
    /\ prepared \subseteq 0..Cap
    /\ pool \subseteq Ctxs /\ fresh \subseteq Ctxs
    /\ args \in [Ctxs -> [Slots -> (Calls \X (1..MaxArgs)) \cup {Nil}]]
    /\ result \in [Ctxs -> Words]
    /\ cret \in [Calls -> Words \cup {NoOut}]
    /\ \A k \in Holding : ctx[k] \in Ctxs /\ nArgs[k] <= Cap

(* A syscallContext belongs to one call at a time (syscall_unix.go:135,      *)
(* 157): nobody else holds it and it is not in the pool until the results    *)
(* have been read out of it.                                                 *)
CtxExclusive ==
    /\ \A j, k \in Holding : ctx[j] = ctx[k] => j = k
    /\ \A k \in Holding : ctx[k] \notin pool \cup fresh
    /\ pool \cap fresh = {}

(* Nobody uses the table of call interfaces before it is complete            *)
(* (syscall_unix.go:124, 130-137), whoever of the first callers builds it.   *)
TableComplete ==
    \A k \in Calls : pc[k] \notin {"idle", "enter", "once", "panicked"} => prepared = 0..Cap

(* A call whose C function failed, that is returned the int -1, sign- or     *)
(* zero-extended to a word, reports the errno of that function               *)
(* (syscall_unix.go:148-155).                                                *)
FailuresReported ==
    \A k \in Calls :
        pc[k] = "done" /\ cret[k] \in {AllOnes(WordBits), AllOnes(IntBits)} =>
            err[k] = callErrno[k]

(* "errno is only valid on error" (syscall_unix.go:151): a call reports one  *)
(* only when its C function returned -1, as an int or as a word.             *)
ErrnoOnlyOnError ==
    \A k \in Calls :
        pc[k] = "done" /\ err[k] # 0 =>
            cret[k] \in {AllOnes(WordBits), AllOnes(IntBits)}

(* What a call returns is what its own C function returned; a call that      *)
(* goffi refused returns zero, never what an earlier call left in the        *)
(* context (syscall_unix.go:142, 146).                                       *)
ResultOwn ==
    \A k \in Calls :
        pc[k] = "done" => r1[k] = IF cret[k] = NoOut THEN 0 ELSE cret[k]

(* Every call ends: nobody waits for ever on syscallOnce                     *)
(* (syscall_unix.go:123-124) or on the pool, if the C functions return.      *)
CallsEnd == \A k \in Calls : pc[k] # "idle" ~> pc[k] \in {"done", "panicked"}

-----------------------------------------------------------------------------
\* What makes the safety properties inductive: the once is over only when the
\* table is complete, nobody gets past it before, and whoever asks for a
\* context fits it;
OnceFirst ==
    /\ once = "done" => prepared = 0..Cap
    /\ \A k \in Calls :
          pc[k] \notin {"idle", "enter", "once", "panicked"} => once = "done"
    /\ \A k \in Calls : pc[k] = "get" => nArgs[k] <= Cap

\* the result is in the context and then in r1, zero until C has returned.
Returned(k) == IF cret[k] = NoOut THEN 0 ELSE cret[k]

ResultOf(k) ==
    /\ pc[k] \notin {"collect", "put", "done"} => cret[k] = NoOut
    /\ pc[k] = "call" => result[ctx[k]] = 0
    /\ pc[k] = "collect" => result[ctx[k]] = Returned(k)
    /\ pc[k] \in {"put", "done"} => r1[k] = Returned(k)

ResultTracked == \A k \in Calls : ResultOf(k)

\* the arguments are the call's own when goffi reads them, and an errno is
\* there only once C has returned, and passed on or dropped.
PassedOf(k) ==
    /\ pc[k] = "call" => \A i \in 1..nArgs[k] : args[ctx[k]][i] = <<k, i>>
    /\ cret[k] = NoOut => callErrno[k] = 0
    /\ pc[k] = "put" => err[k] \in {0, callErrno[k]}

Passed == \A k \in Calls : PassedOf(k)

\* an errno is passed on when the word that is returned is an int -1.
ReportedOf(k) ==
    pc[k] \in {"put", "done"} /\ IsMinusOne(r1[k]) => err[k] = callErrno[k]

Reported == \A k \in Calls : ReportedOf(k)

IndInv == TypeOK /\ CtxExclusive /\ OnceFirst /\ ResultTracked /\ Passed /\ Reported

-----------------------------------------------------------------------------
Phase(k) ==
    CASE pc[k] = "idle" -> "idle"
      [] pc[k] = "done" -> "returned"
      [] pc[k] = "panicked" -> "panicked"
      [] pc[k] \in {"collect", "put"} /\ cret[k] # NoOut -> "inC"
      [] pc[k] = "inC" -> "inC"
      [] OTHER -> "called"

Outcome(k) ==
    IF pc[k] = "done"
    THEN [val |-> IF r1[k] = cret[k] THEN k ELSE NoOut, err |-> err[k]]
    ELSE NoOut

Abstract == INSTANCE ForeignCall WITH
    phase <- [k \in Calls |-> Phase(k)],
    argc <- nArgs,
    left <- callErrno,
    out <- [k \in Calls |-> Outcome(k)]

(* SyscallN is an implementation of a foreign call (ForeignCall): whatever   *)
(* it shares with other calls does not show.                                 *)
ImplementsForeignCall == Abstract!Spec
=============================================================================
