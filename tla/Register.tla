------------------------------ MODULE Register ------------------------------
(***************************************************************************)
(* RegisterFunc (purego.go): from the Go type of a function variable to a  *)
(* call interface for the C function, and, for a call through the closure, *)
(* the arguments that are packed for it.  C reads the packed memory the    *)
(* way the interface describes it, so the two loops over the parameters,   *)
(* at registration and at every call, have to agree on each of them.       *)
(*                                                                         *)
(* Parameters are abstracted to what the descriptors tell apart: "word"    *)
(* (numbers, pointers, strings, slices, functions), "array", "struct", and *)
(* "bad" for kinds without a descriptor.  A Go-variadic function has one   *)
(* more parameter, the slice of its tail.                                  *)
(***************************************************************************)
EXTENDS Naturals, Sequences

CONSTANTS
    MaxParams,  \* bound: parameters besides the marker and the tail
    MaxTail     \* bound: arguments in the tail

ASSUME RegisterAssumption == MaxParams \in Nat /\ MaxTail \in Nat

Kinds == {"word", "array", "struct", "bad"}
UpTo(n, S) == UNION {[1..k -> S] : k \in 0..n}

\* marker: CDecl or Variadic in front.  dotdotdot: the function is Go-variadic.
\* real: the C function; found: its name as dladdr reports it.
Signatures ==
    [marker : {"none", "cdecl", "variadic"}, params : UpTo(MaxParams, Kinds),
     dotdotdot : BOOLEAN, outs : UpTo(3, {"word", "error", "bad"}),
     real : {"objc_msgSend", "other"}, found : {"name", "nothing"},
     darwin : BOOLEAN]

VARIABLES
    sig,            \* the function that is registered
    pc,
    hasError, startIn, fixedIn, isCVariadic,    \* RegisterFunc's locals
    fixedArgTypes,  \* descriptors of the fixed parameters
    installed,      \* what the function variable holds
    tail,           \* the tail of a call, "nil" for a nil interface
    packed,         \* what the call has put into ffiArgs
    cif             \* the interface C is called with

regVars == <<hasError, startIn, fixedIn, isCVariadic>>
vars == <<sig, pc, regVars, fixedArgTypes, installed, tail, packed, cif>>

-----------------------------------------------------------------------------
\* The parameters as reflect sees them.
In == (IF sig.marker = "none" THEN <<>> ELSE <<"marker">>) \o sig.params
      \o (IF sig.dotdotdot THEN <<"slice">> ELSE <<>>)
NumOut == Len(sig.outs)

Bad(kind) == kind \in {"bad", "error", "nil"}

\* goTypeToFfiType, for the kinds that have a descriptor.
goTypeToFfiType(kind) ==
    CASE kind \in {"array", "struct", "marker"} -> "aggregate"
      [] OTHER -> "word"

\* Mutant of goArgTypeToFfiType: an array is described by value.
ArrayByValue(kind) == goTypeToFfiType(kind)

\* Arrays are passed by address.
goArgTypeToFfiType(kind) == IF kind = "array" THEN "word" ELSE goTypeToFfiType(kind)

\* What packArg's pointer points to: the address of an array, the bytes of a
\* struct, a word.
packArg(kind) == IF kind \in {"struct", "marker"} THEN "aggregate" ELSE "word"

NoCif == [variadic |-> FALSE, fixed |-> 0, args |-> <<>>]

-----------------------------------------------------------------------------
Init ==
    /\ sig \in Signatures
    /\ sig.real = "objc_msgSend" => sig.darwin
    /\ pc = "check"
    /\ hasError = FALSE /\ startIn = 0 /\ fixedIn = 0 /\ isCVariadic = FALSE
    /\ fixedArgTypes = <<>>
    /\ installed = "nothing"
    /\ tail = <<>> /\ packed = <<>> /\ cif = NoCif

Panic == pc' = "panicked" /\ UNCHANGED <<sig, regVars, fixedArgTypes, installed, tail, packed, cif>>

OutsFine == NumOut <= 2 /\ (NumOut = 2 => sig.outs[2] = "error")

\* RegisterFunc panics on a nil cfn and on an fptr that points to no function
\* (RegisterLibFunc on a symbol that is not there), and unless there are at
\* most two results, the second an error.
Check ==
    /\ pc = "check"
    /\ \/ Panic
       \/ /\ OutsFine
          /\ hasError' = (NumOut = 2 \/ sig.outs = <<"error">>)
          /\ pc' = "markers"
          /\ UNCHANGED <<sig, startIn, fixedIn, isCVariadic, fixedArgTypes, installed,
                         tail, packed, cif>>

\* Markers are skipped, and so is the slice of the tail.
Markers ==
    /\ pc = "markers"
    /\ startIn' = IF sig.marker = "none" THEN 0 ELSE 1
    /\ isCVariadic' = (sig.marker = "variadic")
    /\ fixedIn' = IF sig.dotdotdot THEN Len(In) - 1 ELSE Len(In)
    /\ pc' = "heuristic"
    /\ UNCHANGED <<sig, hasError, fixedArgTypes, installed, tail, packed, cif>>

\* The name dladdr finds for the function; it finds none when dladdr itself is
\* missing, when it knows no symbol there, or when the symbol has no name.
getSymbolName == IF sig.found = "name" THEN sig.real ELSE ""

\* Mutant of IsVariadicByName: no special case for a missing name.
VariadicUnlessNamed == getSymbolName # "objc_msgSend"

\* The heuristic on getSymbolName's answer.
IsVariadicByName ==
    /\ getSymbolName # "objc_msgSend"
    /\ ~(getSymbolName = "" /\ sig.darwin)

Heuristic ==
    /\ pc = "heuristic"
    /\ isCVariadic' = IF sig.dotdotdot /\ ~isCVariadic THEN IsVariadicByName
                      ELSE isCVariadic
    /\ pc' = "describe"
    /\ UNCHANGED <<sig, hasError, startIn, fixedIn, fixedArgTypes, installed, tail,
                   packed, cif>>

\* One round of the loop over the fixed parameters.
Describe ==
    LET i == startIn + Len(fixedArgTypes) + 1 IN
    /\ pc = "describe"
    /\ IF i <= fixedIn
       THEN IF Bad(In[i]) THEN Panic
            ELSE /\ fixedArgTypes' = Append(fixedArgTypes, goArgTypeToFfiType(In[i]))
                 /\ UNCHANGED <<sig, pc, regVars, installed, tail, packed, cif>>
       ELSE IF (NumOut = 2 \/ (NumOut = 1 /\ ~hasError)) /\ Bad(sig.outs[1]) THEN Panic
       ELSE /\ pc' = "prepare"
            /\ UNCHANGED <<sig, regVars, fixedArgTypes, installed, tail, packed, cif>>

Installs(what) ==
    /\ installed' = what
    /\ pc' = "registered"
    /\ UNCHANGED <<sig, regVars, fixedArgTypes, tail, packed>>

\* tryRegisterFastPath (see FastPath) refuses anything but words, the marker's
\* struct included.
FastPathFits ==
    ~sig.dotdotdot /\ ~hasError /\ \A i \in 1..Len(In) : In[i] = "word"

\* A function without a tail has its interface prepared once, which may fail,
\* and perhaps gets a fast wrapper; otherwise the closure is installed.
Prepare ==
    /\ pc = "prepare"
    /\ \/ ~sig.dotdotdot /\ Panic
       \/ /\ FastPathFits
          /\ cif' = [NoCif EXCEPT !.args = fixedArgTypes]
          /\ Installs("fast")
       \/ /\ cif' = IF sig.dotdotdot THEN cif ELSE [NoCif EXCEPT !.args = fixedArgTypes]
          /\ Installs("closure")

\* The closure is called.
Call ==
    /\ pc = "registered" /\ installed = "closure"
    /\ \E t \in UpTo(MaxTail, Kinds \cup {"nil"}) :
          /\ ~sig.dotdotdot => t = <<>>
          /\ tail' = t
          \* actualArgTypes starts out as a copy of fixedArgTypes.
          /\ cif' = IF sig.dotdotdot THEN [NoCif EXCEPT !.args = fixedArgTypes] ELSE cif
    /\ pc' = "pack"
    /\ UNCHANGED <<sig, regVars, fixedArgTypes, installed, packed>>

\* The loop over the fixed arguments.
PackFixed ==
    /\ pc = "pack"
    /\ IF startIn + Len(packed) < fixedIn
       THEN packed' = Append(packed, packArg(In[startIn + Len(packed) + 1])) /\ UNCHANGED pc
       ELSE pc' = "tail" /\ UNCHANGED packed
    /\ UNCHANGED <<sig, regVars, fixedArgTypes, installed, tail, cif>>

\* The loop over the tail: describe, then pack.  A nil interface has no type.
PackTail ==
    LET i == Len(packed) - Len(fixedArgTypes) + 1 IN
    /\ pc = "tail" /\ i <= Len(tail)
    /\ IF Bad(tail[i]) THEN Panic
       ELSE /\ cif' = [cif EXCEPT !.args = Append(@, goArgTypeToFfiType(tail[i]))]
            /\ packed' = Append(packed, packArg(tail[i]))
            /\ UNCHANGED <<sig, pc, regVars, fixedArgTypes, installed, tail>>

\* Mutant of Boundary: the marker counts as a fixed argument.
BoundaryOfAll == fixedIn

\* len(fixedArgTypes): where PrepareVariadicCallInterface is told the tail is.
Boundary == Len(fixedArgTypes)

\* The interface of a call with a tail; preparing it may fail.
PrepareDynamic ==
    /\ pc = "tail" /\ Len(packed) - Len(fixedArgTypes) >= Len(tail)
    /\ \/ sig.dotdotdot /\ Panic
       \/ /\ cif' = IF sig.dotdotdot /\ isCVariadic
                    THEN [cif EXCEPT !.variadic = TRUE, !.fixed = Boundary] ELSE cif
          /\ pc' = "called"
          /\ UNCHANGED <<sig, regVars, fixedArgTypes, installed, tail, packed>>

Over ==
    \/ pc \in {"called", "panicked"} /\ UNCHANGED vars
    \/ pc = "registered" /\ installed = "fast" /\ UNCHANGED vars

Next ==
    \/ Check \/ Markers \/ Heuristic \/ Describe \/ Prepare
    \/ Call \/ PackFixed \/ PackTail \/ PrepareDynamic \/ Over

Spec == Init /\ [][Next]_vars

-----------------------------------------------------------------------------
(* C reads each argument the way it was packed: the descriptors made at      *)
(* registration and at the call (purego.go:104-107, 175) follow the same     *)
(* parameters as the packing (purego.go:155-182), past a marker, through a   *)
(* tail, and for arrays, which go by address.  A fast wrapper, which has a   *)
(* parameter for each of the function's, is described completely.            *)
InterfaceMatches ==
    /\ pc = "called" => cif.args = packed
    /\ installed = "fast" => Len(cif.args) = Len(In)

(* On a C-variadic call exactly the arguments of the tail go where C looks   *)
(* for variadic ones (purego.go:194): neither a marker nor the Go slice is   *)
(* counted among the fixed ones.                                             *)
VariadicBoundary ==
    pc = "called" /\ cif.variadic =>
        cif.fixed = Len(sig.params) /\ Len(cif.args) = cif.fixed + Len(tail)

(* objc_msgSend gets its arguments in registers (purego.go:88-102): it is    *)
(* never called as C-variadic unless a Variadic marker asks for it, whether  *)
(* or not dladdr found its name.                                             *)
MsgSendInRegisters ==
    pc = "called" /\ sig.real = "objc_msgSend" /\ sig.marker # "variadic" => ~cif.variadic

-----------------------------------------------------------------------------
\* The inductive invariant, in parts.
Descriptors == {"word", "aggregate"}

TypeOK ==
    /\ sig \in Signatures
    /\ pc \in {"check", "markers", "heuristic", "describe", "prepare", "registered",
              "pack", "tail", "called", "panicked"}
    /\ hasError \in BOOLEAN /\ isCVariadic \in BOOLEAN
    /\ startIn \in Nat /\ fixedIn \in Nat
    /\ fixedArgTypes \in Seq(Descriptors)
    /\ installed \in {"nothing", "fast", "closure"}
    /\ tail \in Seq(Kinds \cup {"nil"})
    /\ packed \in Seq(Descriptors)
    /\ cif \in [variadic : BOOLEAN, fixed : Nat, args : Seq(Descriptors)]

\* How many parameters are markers.
Offset == IF sig.marker = "none" THEN 0 ELSE 1

\* The fixed parameters lie behind a marker and in front of the tail's slice.
Bounded ==
    pc \in {"heuristic", "describe", "prepare", "registered", "pack", "tail", "called"} =>
        startIn = Offset /\ fixedIn = Offset + Len(sig.params)

\* The descriptors made so far are those of the first parameters.
Described ==
    /\ pc \in {"check", "markers", "heuristic"} => fixedArgTypes = <<>>
    /\ pc \in {"describe", "prepare", "registered", "pack", "tail", "called"} =>
          /\ Len(fixedArgTypes) <= Len(sig.params)
          /\ \A i \in 1..Len(fixedArgTypes) :
                fixedArgTypes[i] = goArgTypeToFfiType(sig.params[i])
    /\ pc \in {"prepare", "registered", "pack", "tail", "called"} =>
          Len(fixedArgTypes) = Len(sig.params)

\* The interface the variable's calls start from.
Prepared ==
    /\ pc \in {"check", "markers", "heuristic", "describe", "prepare"} =>
          installed = "nothing" /\ cif = NoCif
    /\ pc = "registered" => cif \in {NoCif, [NoCif EXCEPT !.args = fixedArgTypes]}
                           /\ (~sig.dotdotdot => cif.args = fixedArgTypes)
    /\ installed = "fast" =>
          pc = "registered" /\ cif.args = fixedArgTypes /\ FastPathFits

\* A call has packed its first arguments, and described those of the tail.
Packed ==
    /\ pc \in {"check", "markers", "heuristic", "describe", "prepare", "registered"} =>
          packed = <<>>
    /\ pc = "pack" =>
          /\ Len(packed) <= Len(sig.params) /\ cif.args = fixedArgTypes
          /\ \A i \in 1..Len(packed) : packed[i] = fixedArgTypes[i]
    /\ pc \in {"tail", "called"} =>
          /\ Len(sig.params) <= Len(packed) /\ Len(packed) <= Len(sig.params) + Len(tail)
          /\ cif.args = packed
    /\ pc \in {"pack", "tail"} => ~cif.variadic
    /\ pc = "called" => Len(packed) = Len(sig.params) + Len(tail)
    /\ pc = "called" /\ cif.variadic => isCVariadic /\ cif.fixed = Len(sig.params)

\* objc_msgSend is only C-variadic behind a Variadic marker.
NotVariadic ==
    /\ sig.real = "objc_msgSend" => sig.darwin
    /\ pc \in {"check", "markers"} => ~isCVariadic
    /\ sig.real = "objc_msgSend" /\ sig.marker # "variadic" => ~isCVariadic

IndInv == TypeOK /\ Bounded /\ Described /\ Prepared /\ Packed /\ NotVariadic
=============================================================================
