------------------------------ MODULE ObjcClass ------------------------------
(***************************************************************************)
(* RegisterClass of package objc (objc_runtime_darwin.go): a class pair is  *)
(* allocated, filled with protocols, methods and instance variables with   *)
(* their accessors, and registered, which makes it visible by its name.    *)
(* Every step can fail; there is no step that takes anything back.         *)
(*                                                                         *)
(* Attempts to register, of any goroutines and with any names, interleave. *)
(* They share the runtime's table of names and the callbacks, of which     *)
(* there is a limited supply.  The class of an attempt is known by the     *)
(* attempt.                                                                *)
(***************************************************************************)
EXTENDS Encode

CONSTANTS
    Attempts,       \* calls of RegisterClass
    Plans,          \* what a call may be given
    MaxCallbacks,   \* the supply of callbacks
    CallbackKinds,  \* the kinds of parameters and results a callback can have
    Capital,        \* Capital[w]: the word w with a capital letter in front
    AllCapital      \* words without a small letter and an underscore

ASSUME ObjcClassAssumption ==
    /\ MaxCallbacks \in Nat
    /\ {"ID", "SEL"} \subseteq CallbackKinds
    /\ \A p \in Plans :
          /\ DOMAIN p = {"name", "protocols", "methods", "ivars"}
          /\ Len(p.protocols) \in Nat /\ Len(p.methods) \in Nat /\ Len(p.ivars) \in Nat
          /\ \A n \in 1..Len(p.ivars) : p.ivars[n].name \in Seq(DOMAIN Capital)

ASSUME SignaturesAssumption ==
    /\ {ID, SEL} \subseteq Types
    /\ \A p \in Plans :
          /\ \A n \in 1..Len(p.methods) :
                p.methods[n].fn.ins \in Seq(Types) /\ p.methods[n].fn.outs \in Seq(Types)
          /\ \A n \in 1..Len(p.ivars) : p.ivars[n].type \in Types

VARIABLES
    pc,         \* pc[r]: the next step of attempt r, or how it has ended
    plan,       \* plan[r]: its arguments
    idx,        \* idx[r]: how many elements its current loop has done
    imp,        \* imp[r]: its local variable of that name, or NoImp
    class,      \* class[r]: what the runtime holds for the pair it allocated
    callbacks   \* how many callbacks there are

vars == <<pc, plan, idx, imp, class, callbacks>>

Ended == {"returned", "error", "panicked"}
NoImp == [does |-> "nothing", of |-> 0]
NoClass == [state |-> "none", protocols |-> {}, methods |-> {}, ivars |-> {}]

Init ==
    /\ pc = [r \in Attempts |-> "start"]
    /\ plan \in [Attempts -> Plans]
    /\ idx = [r \in Attempts |-> 0]
    /\ imp = [r \in Attempts |-> NoImp]
    /\ class = [r \in Attempts |-> NoClass]
    /\ callbacks = 0

-----------------------------------------------------------------------------
Goto(r, where) == pc' = [pc EXCEPT ![r] = where]

\* return 0, fmt.Errorf(...)
Fail(r) == Goto(r, "error") /\ UNCHANGED <<plan, idx, imp, class, callbacks>>

\* A panic leaves RegisterClass the same way.
Panic(r) == Goto(r, "panicked") /\ UNCHANGED <<plan, idx, imp, class, callbacks>>

\* The loop that is next begins with its first element.
Loop(r, where) == Goto(r, where) /\ idx' = [idx EXCEPT ![r] = 0]

\* The runtime: a name is taken once a class is registered under it.
Taken(name) ==
    \E r \in Attempts : class[r].state = "registered" /\ plan[r].name = name

\* Whether a pair that is only allocated keeps its name from others is for the
\* runtime to decide.
Allocate(r) ==
    /\ pc[r] = "start"
    /\ \/ /\ ~Taken(plan[r].name)
          /\ class' = [class EXCEPT ![r].state = "allocated"]
          /\ Loop(r, "protocols")
          /\ UNCHANGED <<plan, imp, callbacks>>
       \/ /\ \E q \in Attempts : class[q].state # "none" /\ plan[q].name = plan[r].name
          /\ Fail(r)

\* A protocol the class has is not added again.
AddProtocol(r) ==
    /\ pc[r] = "protocols"
    /\ IF idx[r] < Len(plan[r].protocols)
       THEN LET p == plan[r].protocols[idx[r] + 1] IN
            IF p \in class[r].protocols THEN Fail(r)
            ELSE /\ class' = [class EXCEPT ![r].protocols = @ \cup {p}]
                 /\ idx' = [idx EXCEPT ![r] = @ + 1]
                 /\ UNCHANGED <<pc, plan, imp, callbacks>>
       ELSE Loop(r, "methods") /\ UNCHANGED <<plan, imp, class, callbacks>>

-----------------------------------------------------------------------------
\* NewIMP's own test.
TakesIDAndSEL(fn) == Len(fn.ins) >= 2 /\ fn.ins[1] = ID /\ fn.ins[2] = SEL

\* ffi.NewCallback panics on types it cannot convert, and when there are no
\* more callbacks.
Convertible(fn) ==
    /\ \A n \in 1..Len(fn.ins) : fn.ins[n].kind \in CallbackKinds
    /\ \A n \in 1..Len(fn.outs) : fn.outs[n].kind \in CallbackKinds
Panics(fn) == callbacks = MaxCallbacks \/ ~Convertible(fn)

NewCallback(r, fn, what) ==
    /\ ~Panics(fn)
    /\ callbacks' = callbacks + 1
    /\ imp' = [imp EXCEPT ![r] = what]

\* Mutant of MakeIMP: nothing is recovered.
MakeIMPUnrecovered(r) ==
    /\ pc[r] = "methods"
    /\ IF idx[r] < Len(plan[r].methods)
       THEN LET fn == plan[r].methods[idx[r] + 1].fn IN
            \/ /\ TakesIDAndSEL(fn)
               /\ NewCallback(r, fn, [does |-> "call", of |-> idx[r] + 1])
               /\ Goto(r, "addMethod")
               /\ UNCHANGED <<plan, idx, class>>
            \/ (~TakesIDAndSEL(fn) \/ Panics(fn)) /\ Panic(r)
       ELSE Loop(r, "ivars") /\ UNCHANGED <<plan, imp, class, callbacks>>

\* NewIMP for a method; a panic is recovered and becomes an error.
MakeIMP(r) ==
    /\ pc[r] = "methods"
    /\ IF idx[r] < Len(plan[r].methods)
       THEN LET fn == plan[r].methods[idx[r] + 1].fn IN
            \/ /\ TakesIDAndSEL(fn)
               /\ NewCallback(r, fn, [does |-> "call", of |-> idx[r] + 1])
               /\ Goto(r, "addMethod")
               /\ UNCHANGED <<plan, idx, class>>
            \/ (~TakesIDAndSEL(fn) \/ Panics(fn)) /\ Fail(r)
       ELSE Loop(r, "ivars") /\ UNCHANGED <<plan, imp, class, callbacks>>

HasMethod(r, sel) == \E m \in class[r].methods : m.sel = sel

\* class_addMethod: a class keeps the method it has under a selector.
WithMethod(r, sel, types) ==
    IF HasMethod(r, sel) THEN class[r]
    ELSE [class[r] EXCEPT !.methods = @ \cup {[sel |-> sel, imp |-> imp[r], types |-> types]}]

\* Mutant of AddMethod: a method that cannot be encoded is left out.
AddMethodOrSkip(r) ==
    LET def == plan[r].methods[idx[r] + 1]
        encoding == encodeFunc(def.fn)
    IN /\ pc[r] = "addMethod"
       /\ class' = IF encoding = Refused THEN class
                   ELSE [class EXCEPT ![r] = WithMethod(r, def.sel, encoding)]
       /\ idx' = [idx EXCEPT ![r] = @ + 1]
       /\ Goto(r, "methods")
       /\ UNCHANGED <<plan, imp, callbacks>>

AddMethod(r) ==
    LET def == plan[r].methods[idx[r] + 1]
        encoding == encodeFunc(def.fn)
    IN /\ pc[r] = "addMethod"
       /\ IF encoding = Refused \/ HasMethod(r, def.sel) THEN Fail(r)
          ELSE /\ class' = [class EXCEPT ![r] = WithMethod(r, def.sel, encoding)]
               /\ idx' = [idx EXCEPT ![r] = @ + 1]
               /\ Goto(r, "methods")
               /\ UNCHANGED <<plan, imp, callbacks>>

-----------------------------------------------------------------------------
Ivar(r) == plan[r].ivars[idx[r] + 1]

\* ivarRegex finds a small letter or an underscore anywhere in the name.
ivarRegex(name) == \E n \in 1..Len(name) : name[n] \notin AllCapital

\* A name is a sequence of words; the first one with a capital in front.
Upper(name) == <<Capital[name[1]]>> \o Tail(name)

setterSelector(ivar) == <<"set">> \o Upper(ivar.name) \o <<":">>
getterSelector(ivar) ==
    IF ivar.type.kind = "bool" THEN <<"is">> \o Upper(ivar.name) ELSE ivar.name

setterType(ivar) == [ins |-> <<ID, SEL, ivar.type>>, outs |-> <<>>]
getterType(ivar) == [ins |-> <<ID, SEL>>, outs |-> <<ivar.type>>]

\* The variable itself; the runtime refuses a second one of a name.
AddIvar(r) ==
    /\ pc[r] = "ivars"
    /\ IF idx[r] < Len(plan[r].ivars)
       THEN IF \/ ~ivarRegex(Ivar(r).name)
               \/ encoded(Ivar(r).type) = Refused
               \/ \E v \in class[r].ivars : v = Ivar(r).name
            THEN Fail(r)
            ELSE /\ class' = [class EXCEPT ![r].ivars = @ \cup {Ivar(r).name}]
                 /\ Goto(r, "attribute")
                 /\ UNCHANGED <<plan, idx, imp, callbacks>>
       ELSE /\ Goto(r, "register")
            /\ UNCHANGED <<plan, idx, imp, class, callbacks>>

\* An unknown attribute shows only once the variable is there.
Attribute(r) ==
    /\ pc[r] = "attribute"
    /\ \/ Ivar(r).attribute = "ReadWrite" /\ Goto(r, "setter")
       \/ Ivar(r).attribute = "ReadOnly" /\ Goto(r, "getter")
       \/ Ivar(r).attribute \notin {"ReadWrite", "ReadOnly"} /\ Goto(r, "error")
    /\ UNCHANGED <<plan, idx, imp, class, callbacks>>

\* Mutant of Accessor: the closures share the variable of the loop.
AccessorOfLast(r, does) == [does |-> does, of |-> Len(plan[r].ivars)]

\* The function an accessor's closure is made with.
Accessor(r, does) == [does |-> does, of |-> idx[r] + 1]

\* Nobody recovers a panic of NewIMP here.
MakeAccessor(r, fn, does, next) ==
    \/ /\ NewCallback(r, fn, Accessor(r, does))
       /\ Goto(r, next)
       /\ UNCHANGED <<plan, idx, class>>
    \/ Panics(fn) /\ Panic(r)

MakeSetter(r) ==
    pc[r] = "setter" /\ MakeAccessor(r, setterType(Ivar(r)), "set", "addSetter")
MakeGetter(r) ==
    pc[r] = "getter" /\ MakeAccessor(r, getterType(Ivar(r)), "get", "addGetter")

\* What AddMethod answers is not looked at.
AddSetter(r) ==
    /\ pc[r] = "addSetter"
    /\ class' = [class EXCEPT ![r] =
            WithMethod(r, setterSelector(Ivar(r)), encodeFunc(setterType(Ivar(r))))]
    /\ Goto(r, "getter")
    /\ UNCHANGED <<plan, idx, imp, callbacks>>

AddGetter(r) ==
    /\ pc[r] = "addGetter"
    /\ class' = [class EXCEPT ![r] =
            WithMethod(r, getterSelector(Ivar(r)), encodeFunc(getterType(Ivar(r))))]
    /\ idx' = [idx EXCEPT ![r] = @ + 1]
    /\ Goto(r, "ivars")
    /\ UNCHANGED <<plan, imp, callbacks>>

objc_registerClassPair(r) ==
    /\ pc[r] = "register"
    /\ class' = [class EXCEPT ![r].state = "registered"]
    /\ Goto(r, "returned")
    /\ UNCHANGED <<plan, idx, imp, callbacks>>

-----------------------------------------------------------------------------
RegisterClass(r) ==
    \/ Allocate(r) \/ AddProtocol(r) \/ MakeIMP(r) \/ AddMethod(r)
    \/ AddIvar(r) \/ Attribute(r) \/ MakeSetter(r) \/ AddSetter(r)
    \/ MakeGetter(r) \/ AddGetter(r) \/ objc_registerClassPair(r)

\* Everyone is done.
Over == (\A r \in Attempts : pc[r] \in Ended) /\ UNCHANGED vars

Next == (\E r \in Attempts : RegisterClass(r)) \/ Over

Spec == Init /\ [][Next]_vars

-----------------------------------------------------------------------------
Visible == {r \in Attempts : class[r].state = "registered"}

MethodOf(r, sel) == CHOOSE m \in class[r].methods : m.sel = sel

(* Whoever finds a class by its name finds all of it                         *)
(* (objc_runtime_darwin.go:254-358): each protocol, each method of the plan  *)
(* with its own function behind its selector, each variable.  The attempts   *)
(* that failed or panicked halfway are never seen.                           *)
VisibleComplete ==
    \A r \in Visible :
        /\ pc[r] = "returned"
        /\ \A n \in 1..Len(plan[r].protocols) : plan[r].protocols[n] \in class[r].protocols
        /\ \A n \in 1..Len(plan[r].methods) :
              /\ HasMethod(r, plan[r].methods[n].sel)
              /\ MethodOf(r, plan[r].methods[n].sel).imp = [does |-> "call", of |-> n]
        /\ \A n \in 1..Len(plan[r].ivars) : plan[r].ivars[n].name \in class[r].ivars

\* The selectors of a plan p's methods and of the accessors before variable n.
TakenBefore(p, n) ==
    {p.methods[j].sel : j \in 1..Len(p.methods)}
    \cup UNION {{setterSelector(p.ivars[j]), getterSelector(p.ivars[j])} : j \in 1..(n - 1)}

(* A variable is read and written through its own accessors, unless the      *)
(* plan has used their selectors before (objc_runtime_darwin.go:284-355:     *)
(* closures over the loop's variables, and an AddMethod whose refusal is     *)
(* ignored).                                                                 *)
AccessorsOwn ==
    \A r \in Visible : \A n \in 1..Len(plan[r].ivars) :
        LET v == plan[r].ivars[n] IN
        /\ getterSelector(v) \notin TakenBefore(plan[r], n) =>
              /\ HasMethod(r, getterSelector(v))
              /\ MethodOf(r, getterSelector(v)).imp = [does |-> "get", of |-> n]
        /\ v.attribute = "ReadWrite" /\ setterSelector(v) \notin TakenBefore(plan[r], n) =>
              /\ HasMethod(r, setterSelector(v))
              /\ MethodOf(r, setterSelector(v)).imp = [does |-> "set", of |-> n]

\* The Go type of a method's function.
FnOf(r, m) ==
    CASE m.imp.does = "call" -> plan[r].methods[m.imp.of].fn
      [] m.imp.does = "set" -> setterType(plan[r].ivars[m.imp.of])
      [] OTHER -> getterType(plan[r].ivars[m.imp.of])

\* The runtime reads the types of an attempt's methods as they are.
ReadsBack(r) ==
    \A m \in class[r].methods : ReadTypes(m.types) = CSignature(FnOf(r, m))

\* A plan without the types that are encoded like others.
ReadablePlan(p) ==
    /\ \A n \in 1..Len(p.methods) : ReadableFunc(p.methods[n].fn)
    /\ \A n \in 1..Len(p.ivars) : Readable(p.ivars[n].type)

(* "encodeFunc returns a functions type as if it was given to @encode(fn)"   *)
(* (objc_runtime_darwin.go:454): from the types of a visible method the      *)
(* runtime reads one type for the result and one for each parameter, each    *)
(* with the representation of the Go function's.                             *)
SignaturesReadBack == \A r \in Visible : ReadsBack(r)

(* RegisterClass panics over accessors only, for a variable a callback       *)
(* cannot pass or when the callbacks are used up, by other attempts too:     *)
(* whatever is wrong with the methods comes back as an error                 *)
(* (objc_runtime_darwin.go:265-275, 324, 351).  That "It returns the created *)
(* class or an error" (253) leaves these panics out.                         *)
PanicsOverAccessors ==
    \A r \in Attempts : pc[r] = "panicked" =>
        /\ \A n \in 1..Len(plan[r].methods) : HasMethod(r, plan[r].methods[n].sel)
        /\ Ivar(r).name \in class[r].ivars
        /\ callbacks = MaxCallbacks \/ Ivar(r).type.kind \notin CallbackKinds

-----------------------------------------------------------------------------
\* The inductive invariant, in parts.
AtMethods == {"methods", "addMethod"}
AtIvar == {"attribute", "setter", "addSetter", "getter", "addGetter", "panicked"}
PastMethods == {"ivars", "register", "returned"} \cup AtIvar

PCs == {"start", "protocols", "error"} \cup AtMethods \cup PastMethods

IsClass(c) == c = [state |-> c.state, protocols |-> c.protocols,
                   methods |-> c.methods, ivars |-> c.ivars]

TypeOK ==
    /\ pc \in [Attempts -> PCs]
    /\ plan \in [Attempts -> Plans]
    /\ idx \in [Attempts -> Nat]
    /\ imp \in [Attempts -> [does : {"nothing", "call", "set", "get"}, of : Nat]]
    /\ class = [r \in Attempts |-> class[r]] /\ \A r \in Attempts : IsClass(class[r])
    /\ callbacks \in 0..MaxCallbacks

\* Where an attempt is, which element its loop is at, and what it holds.
ControlOf(r) ==
    /\ class[r].state = "registered" <=> pc[r] = "returned"
    /\ pc[r] = "start" => class[r] = NoClass
    /\ pc[r] = "protocols" =>
          idx[r] <= Len(plan[r].protocols) /\ class[r].methods = {} /\ class[r].ivars = {}
    /\ pc[r] = "methods" => idx[r] <= Len(plan[r].methods)
    /\ pc[r] = "addMethod" =>
          idx[r] < Len(plan[r].methods) /\ imp[r] = [does |-> "call", of |-> idx[r] + 1]
    /\ pc[r] = "ivars" => idx[r] <= Len(plan[r].ivars)
    /\ pc[r] \in AtIvar => idx[r] < Len(plan[r].ivars) /\ ivarRegex(Ivar(r).name)
    /\ pc[r] \in {"register", "returned"} => idx[r] = Len(plan[r].ivars)
    /\ pc[r] \in {"setter", "addSetter"} => Ivar(r).attribute = "ReadWrite"
    /\ pc[r] = "addSetter" => imp[r] = [does |-> "set", of |-> idx[r] + 1]
    /\ pc[r] = "addGetter" => imp[r] = [does |-> "get", of |-> idx[r] + 1]

\* The protocols and the variables added so far.
AddedOf(r) ==
    /\ pc[r] = "protocols" =>
          \A n \in 1..idx[r] : plan[r].protocols[n] \in class[r].protocols
    /\ pc[r] \in AtMethods \cup PastMethods =>
          \A n \in 1..Len(plan[r].protocols) : plan[r].protocols[n] \in class[r].protocols
    /\ pc[r] \in PastMethods =>
          \A n \in 1..idx[r] : plan[r].ivars[n].name \in class[r].ivars
    /\ pc[r] \in AtIvar => Ivar(r).name \in class[r].ivars

\* Class c has function i behind selector sel.
Behind(c, sel, i) == \E m \in c.methods : m.sel = sel /\ m.imp = i

\* The methods added so far, each with its own function.
MethodsOf(r) ==
    /\ pc[r] \in AtMethods =>
          \A n \in 1..idx[r] :
              Behind(class[r], plan[r].methods[n].sel, [does |-> "call", of |-> n])
    /\ pc[r] \in PastMethods =>
          \A n \in 1..Len(plan[r].methods) :
              Behind(class[r], plan[r].methods[n].sel, [does |-> "call", of |-> n])

\* No selector twice, and none that no definition so far asks for.
SelectorsOf(r) ==
    /\ \A m1, m2 \in class[r].methods : m1.sel = m2.sel => m1 = m2
    /\ pc[r] \in AtMethods =>
          \A m \in class[r].methods : m.sel \in TakenBefore(plan[r], 1)
    /\ pc[r] \in {"ivars", "attribute", "setter", "addSetter"} =>
          \A m \in class[r].methods : m.sel \in TakenBefore(plan[r], idx[r] + 1)
    /\ pc[r] \in {"getter", "addGetter"} =>
          \A m \in class[r].methods :
              \/ m.sel \in TakenBefore(plan[r], idx[r] + 1)
              \/ m.sel = setterSelector(Ivar(r))

\* The setter of variable n of an attempt's plan, and its getter.
SetterAt(r, n) ==
    LET v == plan[r].ivars[n] IN
    v.attribute = "ReadWrite" /\ setterSelector(v) \notin TakenBefore(plan[r], n) =>
        Behind(class[r], setterSelector(v), [does |-> "set", of |-> n])
GetterAt(r, n) ==
    LET v == plan[r].ivars[n] IN
    getterSelector(v) \notin TakenBefore(plan[r], n) =>
        Behind(class[r], getterSelector(v), [does |-> "get", of |-> n])

AccessorsOf(r) ==
    /\ pc[r] \in PastMethods => \A n \in 1..idx[r] : SetterAt(r, n) /\ GetterAt(r, n)
    /\ pc[r] \in {"getter", "addGetter"} => SetterAt(r, idx[r] + 1)

\* Method m of an attempt has the types of its own function, and nothing of them
\* is refused.
TypedMethod(r, m) ==
    /\ \/ m.imp.does = "call" /\ m.imp.of \in 1..Len(plan[r].methods)
       \/ m.imp.does \in {"set", "get"} /\ m.imp.of \in 1..Len(plan[r].ivars)
    /\ TakesIDAndSEL(FnOf(r, m)) /\ Encodable(FnOf(r, m))
    /\ m.types = encodeFunc(FnOf(r, m))

TypesOf(r) ==
    /\ pc[r] = "addMethod" => TakesIDAndSEL(plan[r].methods[idx[r] + 1].fn)
    /\ pc[r] \in AtIvar => encoded(Ivar(r).type) # Refused
    /\ \A m \in class[r].methods : TypedMethod(r, m)

\* Why an attempt has panicked.
PanickedOf(r) ==
    pc[r] = "panicked" => callbacks = MaxCallbacks \/ Ivar(r).type.kind \notin CallbackKinds

IndInv ==
    /\ TypeOK
    /\ \A r \in Attempts : /\ ControlOf(r) /\ AddedOf(r) /\ MethodsOf(r) /\ SelectorsOf(r)
                           /\ AccessorsOf(r) /\ PanickedOf(r) /\ TypesOf(r)
=============================================================================
