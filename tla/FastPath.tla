------------------------------ MODULE FastPath ------------------------------
(***************************************************************************)
(* The choice of a fast wrapper for a registered function (zz_fast_func.go, *)
(* generated by genfastfunc.go): tryRegisterFastPath scans the parameter   *)
(* types, and either finds a generated wrapper, which forceFuncPtr then    *)
(* installs under the function's own type, or leaves the function to the   *)
(* reflect path.                                                           *)
(*                                                                         *)
(* A signature is a sequence of kinds: "word" (uintptr, int, uint, int64,  *)
(* uint64), "ptr" (Pointer, UnsafePointer), "f32", "f64", and "other" for  *)
(* everything else, narrower integers included.  A wrapper is the sequence *)
(* of its own parameter kinds, and what a call through it does is:         *)
(* the wrapper spreads its parameters over ints and floats, fastCallIF     *)
(* gathers them again by the kinds of the call interface.                  *)
(***************************************************************************)
EXTENDS FastWrappers, FiniteSets

CONSTANTS
    Sigs,       \* bound: the signatures that are tried
    SupportedOS \* amd64 or arm64, and not Windows

Kinds == {"word", "ptr", "f32", "f64", "other"}
IntKinds == {"word", "ptr"}
FloatKinds == {"f32", "f64"}

ASSUME FastPathAssumption == SupportedOS \in BOOLEAN /\ Sigs \subseteq Seq(Kinds)

\* What a function returns: nothing, something that fits a register (an
\* integer of any width, a bool, a pointer), or something else (floats too).
Returns == {"none", "register", "other"}

VARIABLES
    sig,            \* the registered function's parameter kinds
    ret,            \* and what it returns
    pc,             \* "scan", then "decide", then "done"
    i,              \* the scan's loop variable, and its other locals
    numInts, numFloats, ptrMask, trailingFloats, seenFloat, floatPos,
    accepted,       \* what tryRegisterFastPath returned
    wrapper         \* the installed wrapper, or None

locals == <<i, numInts, numFloats, ptrMask, trailingFloats, seenFloat, floatPos>>
vars == <<sig, ret, pc, locals, accepted, wrapper>>

-----------------------------------------------------------------------------
Init ==
    /\ sig \in Sigs
    /\ ret \in Returns
    /\ pc = "scan"
    /\ i = 0 /\ numInts = 0 /\ numFloats = 0 /\ ptrMask = {}
    /\ trailingFloats = TRUE /\ seenFloat = FALSE /\ floatPos = -1
    /\ accepted = FALSE
    /\ wrapper = None

\* return false: the function goes to the reflect path.
Reject ==
    /\ pc' = "done"
    /\ accepted' = FALSE
    /\ UNCHANGED <<sig, ret, locals, wrapper>>

\* One round of the scan, by the kind of the parameter.
ScanInt ==
    /\ sig[i + 1] \in IntKinds
    /\ trailingFloats' = IF seenFloat THEN FALSE ELSE trailingFloats
    /\ ptrMask' = IF sig[i + 1] = "ptr" THEN ptrMask \cup {numInts} ELSE ptrMask
    /\ numInts' = numInts + 1
    /\ i' = i + 1
    /\ UNCHANGED <<sig, ret, pc, numFloats, seenFloat, floatPos, accepted, wrapper>>

ScanFloat ==
    /\ sig[i + 1] \in FloatKinds
    /\ floatPos' = IF seenFloat THEN floatPos ELSE i
    /\ seenFloat' = TRUE
    /\ numFloats' = numFloats + 1
    /\ i' = i + 1
    /\ UNCHANGED <<sig, ret, pc, numInts, ptrMask, trailingFloats, accepted, wrapper>>

ScanOther == sig[i + 1] = "other" /\ Reject

\* Too many parameters or the wrong platform end it before the scan.
Unsupported == ~SupportedOS \/ Len(sig) > 15

Scan ==
    /\ pc = "scan"
    /\ IF Unsupported THEN Reject
       ELSE IF i < Len(sig) THEN ScanInt \/ ScanFloat \/ ScanOther
       ELSE pc' = "decide" /\ UNCHANGED <<sig, ret, locals, accepted, wrapper>>

\* forceFuncPtr puts the wrapper into the function variable.
Install(w) ==
    /\ pc' = "done"
    /\ accepted' = TRUE
    /\ wrapper' = w
    /\ UNCHANGED <<sig, ret, locals>>

hasReturn == ret # "none"

InstallTrailing(float) ==
    LET w == registerFastFunc(numInts, ptrMask, float, hasReturn)
    IN IF w = None THEN Reject ELSE Install(w)

\* Mutant of InterleavedFits: wrappers without pointer slots for signatures
\* that have pointers.
InterleavedFitsAny ==
    numFloats = 1 /\ ~trailingFloats /\ sig[floatPos + 1] = "f32"

InterleavedFits ==
    numFloats = 1 /\ ~trailingFloats /\ ptrMask = {} /\ sig[floatPos + 1] = "f32"

\* The switch may find no case; the answer is true all the same.
InstallInterleaved ==
    Install(registerFastFuncInterleavedFloat32x1(Len(sig), floatPos, hasReturn))

\* The result kind, then the wrapper by where the floats are.  (The limits
\* of 8 floats and 15 integers cannot be passed by at most 15 parameters that
\* reach a wrapper.)
Decide ==
    /\ pc = "decide"
    /\ \/ ret = "other" /\ Reject
       \/ /\ ret # "other"
          /\ \/ numFloats = 0 /\ InstallTrailing(<<>>)
             \/ /\ numFloats = 1 /\ trailingFloats
                /\ InstallTrailing(<<sig[numInts + 1]>>)
             \/ InterleavedFits /\ InstallInterleaved
             \/ /\ numFloats > 1 \/ (numFloats = 1 /\ ~trailingFloats /\ ~InterleavedFits)
                /\ Reject

Done == pc = "done" /\ UNCHANGED vars

Next == Scan \/ Decide \/ Done

Spec == Init /\ [][Next]_vars

-----------------------------------------------------------------------------
\* How many parameters in front of n have a kind of K.
Before(s, n, K) == Cardinality({m \in 1..(n - 1) : s[m] \in K})

\* Mutant of Gathered: one counter for both arrays.
GatheredOneCounter(s, ints, floats) ==
    [n \in 1..Len(s) |-> LET from == IF s[n] \in FloatKinds THEN floats ELSE ints
                         IN IF n <= Len(from) THEN from[n] ELSE Stored(0, W)]

\* A call through the installed wrapper with arguments 1, 2, ..., Len(sig).
\* The loop of fastCallIF: by the kinds of the call interface, the next slot
\* of one array or of the other.
Taken(s, ints, floats, n) ==
    LET next == IF s[n] \in FloatKinds THEN Before(s, n, FloatKinds) + 1
                ELSE Before(s, n, Kinds \ FloatKinds) + 1
        from == IF s[n] \in FloatKinds THEN floats ELSE ints
    IN IF next <= Len(from) THEN from[next] ELSE Stored(0, W)

Gathered(s, ints, floats) == [n \in 1..Len(s) |-> Taken(s, ints, floats, n)]

\* Pointers a caller passes that the garbage collector must find.
Pointers(s) == {n \in 1..Len(s) : s[n] = "ptr"}

(* A function that tryRegisterFastPath says it has taken has a wrapper, and  *)
(* one it has refused is untouched for the reflect path (purego.go:126):     *)
(* the interleaved case returns true whatever its switch did                 *)
(* (zz_fast_func.go:9364-9371).                                              *)
AcceptedInstalled == pc = "done" => (accepted <=> wrapper # None)

(* "Its parameters must match that type slot for slot in the GC's eyes"      *)
(* (zz_fast_func.go:63-72): the installed wrapper takes a pointer exactly    *)
(* where the registered function does, a float of the same width where it    *)
(* does, and a word elsewhere, and it has a result when the function has.    *)
SlotsAgree ==
    wrapper # None => wrapper.params = sig /\ wrapper.result = (ret # "none")

(* A call through the wrapper hands the C function its arguments in order,   *)
(* floats by the bits of their own width: storing into ints and floats (the  *)
(* wrapper) and gathering by the call interface (fastCallIF,                 *)
(* zz_fast_func.go:40-61) undo each other.                                   *)
ArgumentsInPlace ==
    wrapper # None =>
        Gathered(sig, wrapper.ints, wrapper.floats) =
            [n \in 1..Len(sig) |->
                Stored(n, IF sig[n] \in FloatKinds THEN sig[n] ELSE W)]

(* A pointer argument lives until C has returned (zz_fast_func.go:66-70):    *)
(* ints hold its address as an integer only, so the wrapper itself has to    *)
(* keep each one alive.  The closures for interleaved floats keep nothing.   *)
PointersKept == wrapper # None => Pointers(sig) \subseteq wrapper.keep

\* Which signatures have a fast path, said without the scan.
Eligible ==
    LET floats == {n \in 1..Len(sig) : sig[n] \in FloatKinds}
        ints == Len(sig) - Cardinality(floats)
    IN /\ SupportedOS /\ Len(sig) <= 15 /\ ret # "other"
       /\ \A n \in 1..Len(sig) : sig[n] # "other"
       /\ Cardinality(floats) <= 1
       /\ \/ floats \subseteq {Len(sig)} /\ (Pointers(sig) = {} \/ ints <= 6)
          \/ Pointers(sig) = {} /\ \A n \in floats : sig[n] = "f32"

(* The scan takes exactly the signatures there are wrappers for              *)
(* (zz_fast_func.go:9292-9374): no parameters of another kind, at most one   *)
(* float, last or a float32 among words, and pointers only among few words.  *)
AcceptsEligible == pc = "done" => (accepted <=> Eligible)

-----------------------------------------------------------------------------
\* The inductive invariant, in parts.
TypeOK ==
    /\ sig \in Seq(Kinds) /\ ret \in Returns
    /\ pc \in {"scan", "decide", "done"}
    /\ i \in Nat /\ numInts \in Nat /\ numFloats \in Nat
    /\ trailingFloats \in BOOLEAN /\ seenFloat \in BOOLEAN /\ floatPos \in Int
    /\ accepted \in BOOLEAN
    /\ pc # "done" => wrapper = None

\* The scan has counted the parameters it has passed.
Counted ==
    /\ i <= Len(sig) /\ numInts + numFloats = i
    /\ pc = "decide" => i = Len(sig) /\ ~Unsupported
    /\ \A n \in 1..i : sig[n] # "other"
    /\ ptrMask \subseteq 0..(numInts - 1)
    /\ ptrMask = {} <=> \A n \in 1..i : sig[n] # "ptr"
    /\ seenFloat <=> numFloats # 0

\* As long as a mask bit is a position, the bits are the pointers.
MaskOfPointers == \A k \in 0..(numInts - 1) : k \in ptrMask <=> sig[k + 1] = "ptr"

\* What the locals say of where the floats are.
FloatsSeen ==
    /\ numFloats = 0 =>
          /\ trailingFloats /\ MaskOfPointers
          /\ \A n \in 1..i : sig[n] \in IntKinds
    /\ numFloats = 1 =>
          /\ floatPos \in 0..(i - 1) /\ sig[floatPos + 1] \in FloatKinds
          /\ \A n \in 1..i : n # floatPos + 1 => sig[n] \in IntKinds
          /\ trailingFloats <=> floatPos = i - 1
          /\ trailingFloats => MaskOfPointers
    /\ numFloats > 1 =>
          \E m, n \in 1..i : m # n /\ sig[m] \in FloatKinds /\ sig[n] \in FloatKinds

Scanned == pc # "done" => Counted /\ FloatsSeen

Decided ==
    AcceptedInstalled /\ SlotsAgree /\ ArgumentsInPlace /\ PointersKept /\ AcceptsEligible

IndInv == TypeOK /\ Scanned /\ Decided
=============================================================================
