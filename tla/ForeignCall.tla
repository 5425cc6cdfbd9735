---------------------------- MODULE ForeignCall ----------------------------
(***************************************************************************)
(* What a call of a C function through pureffi promises its caller,        *)
(* whatever path carries it (the reflect path of RegisterFunc, the fast    *)
(* wrappers, SyscallN): the C function sees the arguments that were        *)
(* passed, each in its position, and what the call returns is what that    *)
(* very execution of the C function produced.  Nothing is said here about  *)
(* contexts, pools, OS threads or errno locations: those are the means.    *)
(*                                                                         *)
(* A call is an element of Calls and happens at most once.  The i-th       *)
(* argument of call k is the token <<k, i>>, its result is the token k.    *)
(***************************************************************************)
EXTENDS Naturals

CONSTANTS
    Calls,      \* the calls that may be made
    MaxArgs,    \* the largest number of arguments of a call
    Errnos,     \* the error numbers a C function may leave behind
    NoOut       \* "has not returned"

VARIABLES
    phase,      \* phase[k]: how far call k got
    argc,       \* argc[k]: how many arguments call k passes
    sees,       \* sees[k]: what its C function found in its argument positions
    left,       \* left[k]: the error number its C function left, 0 for none
    out         \* out[k]: what the call returned

vars == <<phase, argc, sees, left, out>>

\* The arguments call k passes.
Args(k, n) == [i \in 1..n |-> <<k, i>>]

InC == {k \in Calls : phase[k] = "inC"}

Init ==
    /\ phase = [k \in Calls |-> "idle"]
    /\ argc = [k \in Calls |-> 0]
    /\ sees = [k \in Calls |-> <<>>]
    /\ left = [k \in Calls |-> 0]
    /\ out = [k \in Calls |-> NoOut]

\* A goroutine calls.
Invoke(k) ==
    /\ phase[k] = "idle"
    /\ \E n \in 0..MaxArgs : argc' = [argc EXCEPT ![k] = n]
    /\ phase' = [phase EXCEPT ![k] = "called"]
    /\ UNCHANGED <<sees, left, out>>

\* The C function is entered, and sees the arguments of its own call.
Enter(k) ==
    /\ phase[k] = "called"
    /\ phase' = [phase EXCEPT ![k] = "inC"]
    /\ sees' = [sees EXCEPT ![k] = Args(k, argc[k])]
    /\ UNCHANGED <<argc, left, out>>

\* C code writes errno.  The C function of an outer call whose callback is
\* running finds the same value there, so several calls may be concerned; a
\* call that is not in C is not.
LeaveErrno ==
    /\ \E S \in SUBSET InC, e \in Errnos \cup {0} :
          left' = [k \in Calls |-> IF k \in S THEN e ELSE left[k]]
    /\ UNCHANGED <<phase, argc, sees, out>>

\* The call returns its own result, with the error number its own C function
\* left if it reports errors (err) and none if it does not.
Return(k) ==
    /\ phase[k] = "inC"
    /\ phase' = [phase EXCEPT ![k] = "returned"]
    /\ \E err \in {0, left[k]} :
          out' = [out EXCEPT ![k] = [val |-> k, err |-> err]]
    /\ UNCHANGED <<argc, sees, left>>

\* The call panics, before the C function was entered or out of it.
Panic(k) ==
    /\ phase[k] \in {"called", "inC"}
    /\ phase' = [phase EXCEPT ![k] = "panicked"]
    /\ UNCHANGED <<argc, sees, left, out>>

\* The call is refused before the C function is entered, and returns no
\* value and no error: SyscallN and the fast wrappers ignore the refusal.
Refuse(k) ==
    /\ phase[k] = "called"
    /\ phase' = [phase EXCEPT ![k] = "returned"]
    /\ out' = [out EXCEPT ![k] = [val |-> NoOut, err |-> 0]]
    /\ UNCHANGED <<argc, sees, left>>

Next ==
    \/ \E k \in Calls : \/ Invoke(k) \/ Enter(k) \/ Return(k)
                        \/ Refuse(k) \/ Panic(k)
    \/ LeaveErrno

Spec == Init /\ [][Next]_vars
=============================================================================
