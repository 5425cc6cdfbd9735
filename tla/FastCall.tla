------------------------------ MODULE FastCall ------------------------------
(***************************************************************************)
(* A call through a fast wrapper (zz_fast_func.go): the wrapper has spread *)
(* its parameters over an ints and a floats array, and fastCallIF borrows  *)
(* a fastCallContext from fastCallPool, copies both arrays into it, links  *)
(* its args to the slots in the order of the call interface, calls, reads  *)
(* the result and gives the context back.  Nothing is deferred.            *)
(*                                                                         *)
(* Calls run on many goroutines or inside each other through callbacks; to *)
(* the pool this is the same, so any order of their steps is allowed.      *)
(* <<k, i>> stands for the i-th argument of call k, k for its result.      *)
(***************************************************************************)
EXTENDS Naturals, Sequences, FiniteSets

CONSTANTS
    Calls,      \* the calls that may be made
    Ctxs,       \* fastCallContext allocations
    Sigs,       \* call interfaces: sequences of "int" and "float"
    MaxArgs,    \* bound: the most arguments of a signature in Sigs
    Errnos, NoCtx, NoOut, Nil

ASSUME FastCallAssumption ==
    /\ MaxArgs \in Nat
    /\ Sigs \subseteq UNION {[1..n -> {"int", "float"}] : n \in 0..MaxArgs}
    /\ NoCtx \notin Ctxs /\ Nil \notin Calls /\ NoOut \notin Calls
    /\ Nil \notin Calls \X (1..MaxArgs)

VARIABLES
    pc,         \* pc[k]: the next step of call k
    sig,        \* sig[k]: its call interface's argument kinds
    ctx,        \* ctx[k]: its context
    argIdx,     \* argIdx[k]: how many arguments are linked
    ret,        \* ret[k]: what fastCallIF returned
    pool,       \* contexts lying in fastCallPool
    fresh,      \* contexts that are not allocated
    slots,      \* slots[c][kind][j]: the arrays ints and floats of a context
    args,       \* args[c][i]: the slot the i-th argument is linked to
    ctxRet,     \* ctxRet[c]: ctx.ret
    sees,       \* sees[k]: what the C function of call k found
    entered     \* the calls whose C function was entered

callVars == <<sig, ctx, argIdx, ret>>
poolVars == <<pool, fresh>>
memVars == <<slots, args, ctxRet>>
ghostVars == <<sees, entered>>
vars == <<pc, callVars, poolVars, memVars, ghostVars>>

-----------------------------------------------------------------------------
Positions == 1..MaxArgs
ArgKinds == {"int", "float"}
PCs == {"idle", "get", "fill", "link", "call", "inC", "collect", "put", "done",
        "panicked"}

\* The number of arguments of kind d among the first n of signature s: the
\* loop's iIdx and fIdx after n rounds.
Index(s, d, n) == Cardinality({m \in 1..n : s[m] = d})

\* The j-th argument of kind d, as the wrapper put it into its array.
Filled(k, d, j) ==
    IF \E n \in 1..Len(sig[k]) : sig[k][n] = d /\ Index(sig[k], d, n) = j
    THEN <<k, CHOOSE n \in 1..Len(sig[k]) :
                 sig[k][n] = d /\ Index(sig[k], d, n) = j>>
    ELSE Nil

\* The arrays ints and floats the wrapper hands over.
Arrays(k) == [d \in ArgKinds |-> [j \in Positions |-> Filled(k, d, j)]]

NoSlots == [d \in ArgKinds |-> [j \in Positions |-> Nil]]
NoLinks == [n \in Positions |-> Nil]

Goto(k, l) == pc' = [pc EXCEPT ![k] = l]

-----------------------------------------------------------------------------
Init ==
    /\ pc = [k \in Calls |-> "idle"]
    /\ sig = [k \in Calls |-> <<>>]
    /\ ctx = [k \in Calls |-> NoCtx]
    /\ argIdx = [k \in Calls |-> 0]
    /\ ret = [k \in Calls |-> Nil]
    /\ pool = {}
    /\ fresh = Ctxs
    /\ slots = [c \in Ctxs |-> NoSlots]
    /\ args = [c \in Ctxs |-> NoLinks]
    /\ ctxRet = [c \in Ctxs |-> Nil]
    /\ sees = [k \in Calls |-> <<>>]
    /\ entered = {}

\* A registered function is called, and its wrapper calls fastCallIF.
Invoke(k) ==
    /\ pc[k] = "idle"
    /\ \E s \in Sigs : sig' = [sig EXCEPT ![k] = s]
    /\ Goto(k, "get")
    /\ UNCHANGED <<ctx, argIdx, ret, poolVars, memVars, ghostVars>>

\* Mutant of Take: the context stays in the pool.
TakeShared(k, c) ==
    /\ pool' = pool \cup {c}
    /\ fresh' = fresh \ {c}
    /\ ctx' = [ctx EXCEPT ![k] = c]

\* fastCallPool.Get: a pooled context, or a new zero one.
Take(k, c) ==
    /\ pool' = pool \ {c}
    /\ fresh' = fresh \ {c}
    /\ ctx' = [ctx EXCEPT ![k] = c]

Get(k) ==
    /\ pc[k] = "get"
    /\ \E c \in pool \cup fresh : Take(k, c)
    /\ Goto(k, "fill")
    /\ UNCHANGED <<sig, argIdx, ret, memVars, ghostVars>>

\* ctx.ints = ints, ctx.floats = floats: the whole arrays are copied.
Fill(k) ==
    /\ pc[k] = "fill"
    /\ slots' = [slots EXCEPT ![ctx[k]] = Arrays(k)]
    /\ Goto(k, "link")
    /\ UNCHANGED <<callVars, poolVars, args, ctxRet, ghostVars>>

\* Mutant of Slot: both kinds share one counter.
SlotAlike(s, n) == <<s[n], n>>

\* Where the n-th argument of signature s lies.
Slot(s, n) == <<s[n], Index(s, s[n], n)>>

\* One round of the loop over cif.ArgTypes.
Link(k) ==
    /\ pc[k] = "link"
    /\ argIdx[k] < Len(sig[k])
    /\ args' = [args EXCEPT ![ctx[k]][argIdx[k] + 1] = Slot(sig[k], argIdx[k] + 1)]
    /\ argIdx' = [argIdx EXCEPT ![k] = @ + 1]
    /\ UNCHANGED <<pc, sig, ctx, ret, poolVars, slots, ctxRet, ghostVars>>

\* Mutant of ClearRet: the old result is left in the context.
ClearNothing(k) ==
    /\ pc[k] = "link"
    /\ argIdx[k] = Len(sig[k])
    /\ Goto(k, "call")
    /\ UNCHANGED <<callVars, poolVars, memVars, ghostVars>>

\* ctx.ret = 0.
ClearRet(k) ==
    /\ pc[k] = "link"
    /\ argIdx[k] = Len(sig[k])
    /\ ctxRet' = [ctxRet EXCEPT ![ctx[k]] = Nil]
    /\ Goto(k, "call")
    /\ UNCHANGED <<callVars, poolVars, slots, args, ghostVars>>

\* ffi.CallFunction enters the C function with ctx.args[:argIdx], or refuses
\* the call, which fastCallIF ignores.
CallFunction(k) ==
    /\ pc[k] = "call"
    /\ \/ /\ Goto(k, "inC")
          /\ entered' = entered \cup {k}
          /\ sees' = [sees EXCEPT ![k] = [n \in 1..argIdx[k] |->
                        LET a == args[ctx[k]][n] IN slots[ctx[k]][a[1]][a[2]]]]
       \/ Goto(k, "collect") /\ UNCHANGED ghostVars
    /\ UNCHANGED <<callVars, poolVars, memVars>>

\* The C function (external) returns.
CReturn(k) ==
    /\ pc[k] = "inC"
    /\ ctxRet' = [ctxRet EXCEPT ![ctx[k]] = k]
    /\ Goto(k, "collect")
    /\ UNCHANGED <<callVars, poolVars, slots, args, ghostVars>>

\* A callback panics through the C function (external): the context is left
\* to the garbage collector.
CPanic(k) ==
    /\ pc[k] = "inC"
    /\ Goto(k, "panicked")
    /\ UNCHANGED <<callVars, poolVars, memVars, ghostVars>>

\* ret := ctx.ret
Collect(k) ==
    /\ pc[k] = "collect"
    /\ ret' = [ret EXCEPT ![k] = ctxRet[ctx[k]]]
    /\ Goto(k, "put")
    /\ UNCHANGED <<sig, ctx, argIdx, poolVars, memVars, ghostVars>>

\* fastCallPool.Put, and return.
Put(k) ==
    /\ pc[k] = "put"
    /\ pool' = pool \cup {ctx[k]}
    /\ ctx' = [ctx EXCEPT ![k] = NoCtx]
    /\ Goto(k, "done")
    /\ UNCHANGED <<sig, argIdx, ret, fresh, memVars, ghostVars>>

\* The garbage collector empties sync.Pools; a context allocated again is zero.
DropPooled(c) ==
    /\ c \in pool
    /\ pool' = pool \ {c}
    /\ fresh' = fresh \cup {c}
    /\ slots' = [slots EXCEPT ![c] = NoSlots]
    /\ args' = [args EXCEPT ![c] = NoLinks]
    /\ ctxRet' = [ctxRet EXCEPT ![c] = Nil]
    /\ UNCHANGED <<pc, callVars, ghostVars>>

\* The steps of fastCallIF itself.
Body(k) ==
    \/ Get(k) \/ Fill(k) \/ Link(k) \/ ClearRet(k) \/ CallFunction(k)
    \/ Collect(k) \/ Put(k)

\* All calls were made and are over: nothing more happens.
Quiescent ==
    /\ \A k \in Calls : pc[k] \in {"done", "panicked"}
    /\ UNCHANGED vars

Next ==
    \/ \E k \in Calls : Invoke(k) \/ Body(k) \/ CReturn(k) \/ CPanic(k)
    \/ \E c \in Ctxs : DropPooled(c)
    \/ Quiescent

Spec == Init /\ [][Next]_vars

-----------------------------------------------------------------------------
Holding == {k \in Calls : pc[k] \in {"fill", "link", "call", "inC", "collect", "put"}}

(* Type correctness of fastCallIF's locals and of the contexts.              *)
TypeOK ==
    /\ pc \in [Calls -> PCs]
    /\ sig \in [Calls -> Sigs \cup {<<>>}]
    /\ ctx \in [Calls -> Ctxs \cup {NoCtx}]
    /\ argIdx \in [Calls -> 0..MaxArgs]
    /\ ret \in [Calls -> Calls \cup {Nil}]
    /\ pool \subseteq Ctxs /\ fresh \subseteq Ctxs
    /\ slots \in [Ctxs -> [ArgKinds -> [Positions -> (Calls \X Positions) \cup {Nil}]]]
    /\ args \in [Ctxs -> [Positions -> (ArgKinds \X Positions) \cup {Nil}]]
    /\ ctxRet \in [Ctxs -> Calls \cup {Nil}]
    /\ entered \subseteq Calls
    /\ \A k \in Holding : ctx[k] \in Ctxs
    /\ \A k \in Calls : argIdx[k] <= Len(sig[k])

(* A fastCallContext belongs to one call at a time (zz_fast_func.go:41, 60): *)
(* nobody else holds it, and it is not in the pool before its result was     *)
(* read.                                                                     *)
CtxExclusive ==
    /\ \A j, k \in Holding : ctx[j] = ctx[k] => j = k
    /\ \A k \in Holding : ctx[k] \notin pool \cup fresh
    /\ pool \cap fresh = {}

(* A C function called through a fast wrapper finds each argument of its own *)
(* call in its position (zz_fast_func.go:42-55): links left over from a      *)
(* longer call with another mix of kinds, or from a call on another          *)
(* goroutine, are never followed.                                            *)
ArgumentsInPlace ==
    \A k \in entered : sees[k] = [n \in 1..Len(sig[k]) |-> <<k, n>>]

-----------------------------------------------------------------------------
\* What makes ArgumentsInPlace inductive: a call that is not yet at its loop
\* has linked nothing, and has not entered C before it links;
Started ==
    \A k \in Calls :
        /\ pc[k] \in {"idle", "get", "fill"} => argIdx[k] = 0
        /\ pc[k] \in {"idle", "get", "fill", "link", "call"} => k \notin entered

\* up to the call the context holds the call's arrays, and the links so far;
LinkedOf(k) ==
    /\ slots[ctx[k]] = Arrays(k)
    /\ \A n \in 1..argIdx[k] : args[ctx[k]][n] = Slot(sig[k], n)
    /\ pc[k] = "call" => argIdx[k] = Len(sig[k])

Linked == \A k \in Calls : pc[k] \in {"link", "call"} => LinkedOf(k)

\* and there is a record of what every call's C function saw.
Recorded == sees = [k \in Calls |-> sees[k]]

\* The result is in the context and then in ret, none unless C was entered.
Returned(k) == IF k \in entered THEN k ELSE Nil

ResultOf(k) ==
    /\ pc[k] = "call" => ctxRet[ctx[k]] = Nil
    /\ pc[k] = "inC" => k \in entered
    /\ pc[k] = "collect" => ctxRet[ctx[k]] = Returned(k)
    /\ pc[k] \in {"put", "done"} => ret[k] = Returned(k)

ResultTracked == \A k \in Calls : ResultOf(k)

IndInv ==
    /\ TypeOK /\ CtxExclusive /\ Started /\ Linked /\ Recorded /\ ArgumentsInPlace
    /\ ResultTracked

-----------------------------------------------------------------------------
Phase(k) ==
    CASE pc[k] \in {"idle", "panicked"} -> pc[k]
      [] pc[k] = "done" -> "returned"
      [] k \in entered /\ pc[k] \in {"inC", "collect", "put"} -> "inC"
      [] OTHER -> "called"

Outcome(k) ==
    IF pc[k] = "done"
    THEN [val |-> IF ret[k] = Nil THEN NoOut ELSE ret[k], err |-> 0]
    ELSE NoOut

Abstract == INSTANCE ForeignCall WITH
    phase <- [k \in Calls |-> Phase(k)],
    argc <- [k \in Calls |-> Len(sig[k])],
    left <- [k \in Calls |-> 0],
    out <- [k \in Calls |-> Outcome(k)]

(* fastCallIF is an implementation of a foreign call (ForeignCall) that      *)
(* reports no errors.                                                        *)
ImplementsForeignCall == Abstract!Spec
=============================================================================
