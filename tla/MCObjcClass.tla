---------------------------- MODULE MCObjcClass ----------------------------
(* Instances of ObjcClass for TLC. *)
EXTENDS ObjcClass

Fn(ins, outs) == [ins |-> <<ID, SEL>> \o ins, outs |-> outs]
Method(sel, fn) == [sel |-> sel, fn |-> fn]
Field(name, type, attribute) == [name |-> name, type |-> type, attribute |-> attribute]
Plan(name, protocols, methods, ivars) ==
    [name |-> name, protocols |-> protocols, methods |-> methods, ivars |-> ivars]

Rect == Struct("Rect", <<Plain("float64"), PtrTo(Plain("int8"))>>)
Pair == Struct("Pair", <<Plain("int64"), Plain("float64")>>)
Go == <<"go">>
Foo == <<"foo">>
Done == <<"done">>
SetFoo == <<"set", "Foo", ":">>

Words == {"go", "set", "foo", "Foo", "done", "Done", "is", "X"}
Capitals ==
    [w \in Words |-> CASE w = "foo" -> "Foo" [] w = "done" -> "Done" [] w = "is" -> "Is"
                       [] w = "set" -> "Set" [] w = "go" -> "Go" [] OTHER -> w]

\* The types of the plans, and what they are made of.
GoTypes ==
    {Plain(k) : k \in DOMAIN Letter \cup {"chan"}}
    \cup {Rect, Pair, PtrTo(Rect), PtrTo(Plain("int8")), PtrTo(ID), PtrTo(PtrTo(ID))}

GoHeight == [t \in GoTypes |->
    LET height[u \in GoTypes] ==
            CASE u.kind = "ptr" -> 1 + height[u.elem]
              [] u.kind = "struct" ->
                    CHOOSE h \in 1..9 : \A n \in 1..Len(u.fields) : height[u.fields[n]] < h
              [] OTHER -> 0
    IN height[t]]

\* Definitions that succeed, up to callbacks.
GoodPlans ==
    {Plan("A", <<"x", "y">>, <<Method(Go, Fn(<<>>, <<>>))>>,
          <<Field(Done, Plain("bool"), "ReadWrite")>>),
     Plan("A", <<>>, <<Method(Go, Fn(<<Plain("uint16"), PtrTo(Rect), Plain("string")>>, <<Plain("int32")>>))>>,
          <<Field(Foo, Plain("unsafePointer"), "ReadOnly")>>),
     Plan("B", <<"x">>, <<Method(Go, Fn(<<Plain("uint32"), PtrTo(PtrTo(Plain("ID")))>>, <<Plain("float32")>>)),
                          Method(Foo, Fn(<<Plain("Class")>>, <<Plain("SEL")>>))>>, <<>>)}

\* Accessors whose selectors meet: with a method of the plan, with each other,
\* and because a variable's name may begin with a capital.
ClashingPlans ==
    {Plan("A", <<>>, <<Method(SetFoo, Fn(<<Plain("int32")>>, <<>>))>>,
          <<Field(Foo, Plain("int32"), "ReadWrite")>>),
     Plan("B", <<>>, <<>>, <<Field(Done, Plain("bool"), "ReadOnly"),
                             Field(<<"is", "Done">>, Plain("uint8"), "ReadOnly")>>),
     Plan("B", <<>>, <<>>, <<Field(Foo, Plain("float64"), "ReadOnly"),
                             Field(<<"Foo">>, PtrTo(Rect), "ReadWrite")>>),
     Plan("A", <<>>, <<>>, <<Field(Foo, Plain("int16"), "ReadWrite"),
                             Field(<<"set", "Foo">>, Plain("int8"), "ReadOnly")>>)}

\* Definitions with something wrong, at every place.
BadPlans ==
    {Plan("A", <<"x", "x">>, <<>>, <<>>),
     Plan("A", <<>>, <<Method(Go, [ins |-> <<ID>>, outs |-> <<>>])>>, <<>>),
     Plan("A", <<>>, <<Method(Go, Fn(<<>>, <<ID, ID>>))>>, <<>>),
     Plan("B", <<>>, <<Method(Go, Fn(<<Rect>>, <<>>))>>, <<>>),
     Plan("B", <<>>, <<Method(Go, Fn(<<>>, <<>>)), Method(Go, Fn(<<>>, <<ID>>))>>, <<>>),
     Plan("B", <<>>, <<>>, <<Field(<<"X">>, ID, "ReadOnly")>>),
     Plan("A", <<>>, <<>>, <<Field(Foo, Plain("chan"), "ReadOnly")>>),
     Plan("A", <<>>, <<>>, <<Field(Foo, ID, "ReadOnly"), Field(Foo, ID, "ReadOnly")>>),
     Plan("B", <<>>, <<>>, <<Field(Foo, ID, "none")>>),
     Plan("B", <<"y">>, <<Method(Go, Fn(<<>>, <<>>))>>, <<Field(Foo, Rect, "ReadWrite")>>)}

AllPlans == GoodPlans \cup ClashingPlans \cup BadPlans

\* None has a type that is encoded like another, so that they read back.
ASSUME ReadablePlans == \A p \in AllPlans : ReadablePlan(p)

\* A method with words of each kind, signed, unsigned and in a struct, and an integer
\* behind a uintptr.
NumberPlans ==
    {Plan("A", <<>>, <<Method(Go, Fn(<<Plain("int"), Plain("uint64"), Pair, Plain("uintptr"),
                                       Plain("int32")>>, <<Plain("uint")>>))>>, <<>>)}

\* What a callback can have: on arm64 no struct, on amd64 (purego_test.go:332-340).
Kinds == DOMAIN Letter \cup {"ptr"}
KindsAmd64 == Kinds \cup {"struct"}
=============================================================================
