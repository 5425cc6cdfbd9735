------------------------------- MODULE Encode -------------------------------
(***************************************************************************)
(* The type encodings of package objc (objc_runtime_darwin.go): encodeType *)
(* and encodeFunc write, for a Go type, what "@encode" writes for a C one, *)
(* and the Objective-C runtime reads it back.  The file is built for       *)
(* macOS on 64-bit processors.                                             *)
(*                                                                         *)
(* A type is a record: [kind |-> k], a pointer with its elem, a struct with *)
(* its name and its fields.  An encoding is the sequence of its symbols.   *)
(***************************************************************************)
EXTENDS Integers, Sequences

CONSTANTS
    Types,      \* the Go types there are, with those they are made of
    Height      \* Height[t]: how deep the type t is nested

LeftBrace == "{"
RightBrace == "}"

\* A type is made of smaller ones.
ASSUME TypesAssumption ==
    /\ Height \in [Types -> Nat]
    /\ \A t \in Types :
          /\ t.kind = "ptr" => t.elem \in Types /\ Height[t.elem] < Height[t]
          /\ t.kind = "struct" =>
                /\ t.fields \in Seq(Types)
                /\ \A n \in 1..Len(t.fields) : Height[t.fields[n]] < Height[t]

Plain(k) == [kind |-> k]
PtrTo(t) == [kind |-> "ptr", elem |-> t]
Struct(name, fields) == [kind |-> "struct", name |-> name, fields |-> fields]

ID == Plain("ID")
SEL == Plain("SEL")

\* What a conversion answers with instead of an encoding.
Refused == <<"error">>

\* The kinds that are encoded by themselves.
Letter ==
    [Class |-> <<"#">>, ID |-> <<"@">>, Block |-> <<"@">>, SEL |-> <<":">>,
     bool |-> <<"B">>, int |-> <<"l">>, int8 |-> <<"c">>, int16 |-> <<"s">>,
     int32 |-> <<"i">>, int64 |-> <<"L">>, uint |-> <<"L">>, uint8 |-> <<"C">>,
     uint16 |-> <<"S">>, uint32 |-> <<"I">>, uint64 |-> <<"L">>,
     uintptr |-> <<"^">>, float32 |-> <<"f">>, float64 |-> <<"d">>,
     unsafePointer |-> <<"^", "v">>, string |-> <<"*">>]

\* The first n of the encodings, one behind the other.
Concatenated(encs) ==
    LET upTo[n \in 0..Len(encs)] == IF n = 0 THEN <<>> ELSE upTo[n - 1] \o encs[n]
    IN upTo

All(encs) == Concatenated(encs)[Len(encs)]

AnyRefused(encs) == \E n \in 1..Len(encs) : encs[n] = Refused

\* All of the encodings, or refused like the first refused one.
Joined(encs) == IF AnyRefused(encs) THEN Refused ELSE All(encs)

\* The encodings g of the fields of a struct, and what begins and ends a struct.
OfFields(g, t) == [n \in 1..Len(t.fields) |-> g[t.fields[n]][FALSE]]
Braced(begin, encs) == begin \o All(encs) \o <<RightBrace>>

\* The encoding of a type, with the encodings g of those it is made of.
Encoding(g, t, insidePtr) ==
    CASE t.kind \in DOMAIN Letter -> Letter[t.kind]
      [] t.kind = "ptr" -> Joined(<< <<"^">>, g[t.elem][TRUE]>>)
      [] t.kind = "struct" ->
            IF insidePtr THEN <<LeftBrace, t.name, RightBrace>>
            ELSE IF AnyRefused(OfFields(g, t)) THEN Refused
            ELSE Braced(<<LeftBrace, t.name, "=">>, OfFields(g, t))
      [] OTHER -> Refused

encodeType[t \in Types] ==
    [insidePtr \in BOOLEAN |-> Encoding(encodeType, t, insidePtr)]

\* A type by itself.
encoded(t) == encodeType[t][FALSE]

\* Mutant of encodeFunc: the receiver is encoded like any other parameter, and
\* written as well.
EncodeReceiverTwice(fn) ==
    Joined(<<IF fn.outs = <<>> THEN <<"v">> ELSE encoded(fn.outs[1]), <<"@">> >>
           \o [n \in 1..Len(fn.ins) |-> encoded(fn.ins[n])])

\* A function: its result or void, the receiver, then the other parameters.
encodeFunc(fn) ==
    IF Len(fn.outs) > 1 \/ Len(fn.ins) < 2 THEN Refused
    ELSE Joined(<<IF fn.outs = <<>> THEN <<"v">> ELSE encoded(fn.outs[1]),
                  <<"@">> >>
                \o [n \in 1..(Len(fn.ins) - 1) |-> encoded(fn.ins[n + 1])])

\* Nothing of a function is refused.
Encodable(fn) ==
    /\ Len(fn.outs) <= 1 /\ Len(fn.ins) >= 2
    /\ \A n \in 1..Len(fn.outs) : encoded(fn.outs[n]) # Refused
    /\ \A n \in 2..Len(fn.ins) : encoded(fn.ins[n]) # Refused

-----------------------------------------------------------------------------
\* How the runtime reads an encoding, symbol by symbol: at a depth of braces, and
\* behind a "^" until the type it points to is over, which ends at the same depth
\* again.  It has seen the symbols that are behind none, but not the name of a
\* struct, which follows its brace.
Nothing == -1
Reader(depth, behind, next, seen) ==
    [depth |-> depth, behind |-> behind, next |-> next, seen |-> seen]

Opens(symbol) == CASE symbol = LeftBrace -> 1 [] symbol = RightBrace -> -1 [] OTHER -> 0

\* What it is behind after a symbol that leads to a depth.
NowBehind(q, symbol, depth) ==
    IF q.behind = Nothing THEN IF symbol = "^" THEN depth ELSE Nothing
    ELSE IF symbol # "^" /\ depth <= q.behind THEN Nothing ELSE q.behind

Read(q, symbol) ==
    LET depth == q.depth + Opens(symbol) IN
    IF q.next = "name" THEN [q EXCEPT !.next = "type"]
    ELSE Reader(depth, NowBehind(q, symbol, depth),
                IF symbol = LeftBrace THEN "name" ELSE "type",
                IF q.behind = Nothing /\ symbol # "=" THEN Append(q.seen, symbol) ELSE q.seen)

\* The reader q when it has read the first n symbols, and all of them.
Reading(q, s) ==
    LET read[n \in 0..Len(s)] == IF n = 0 THEN q ELSE Read(read[n - 1], s[n])
    IN read
After(q, s) == Reading(q, s)[Len(s)]

ReadTypes(s) == After(Reader(0, Nothing, "type", <<>>), s).seen

\* The symbol "@encode" begins the C type of the same representation with.  An
\* int of Go has 64 bits there, as a long, which is a "q": an "l" has 32.  A
\* string is passed as a char *.
CSymbol ==
    [Class |-> "#", ID |-> "@", Block |-> "@", SEL |-> ":", bool |-> "B",
     int |-> "q", int8 |-> "c", int16 |-> "s", int32 |-> "i", int64 |-> "q",
     uint |-> "Q", uint8 |-> "C", uint16 |-> "S", uint32 |-> "I",
     uint64 |-> "Q", uintptr |-> "Q", float32 |-> "f", float64 |-> "d",
     unsafePointer |-> "^", ptr |-> "^", string |-> "*"]

\* What the runtime should see of a type, with the shapes g of those it is made of.
\* What a pointer points to is not part of its representation.
Shape(g, t) ==
    CASE t.kind \in DOMAIN CSymbol -> <<CSymbol[t.kind]>>
      [] t.kind = "struct" ->
            Braced(<<LeftBrace>>, [n \in 1..Len(t.fields) |-> g[t.fields[n]]])
      [] OTHER -> Refused

shape[t \in Types] == Shape(shape, t)

\* And of a function.
CSignature(fn) ==
    All(<<IF fn.outs = <<>> THEN <<"v">> ELSE shape[fn.outs[1]]>>
        \o [n \in 1..Len(fn.ins) |-> shape[fn.ins[n]]])

\* The kind at the end of a chain of pointers.
pointee[t \in Types] == IF t.kind = "ptr" THEN pointee[t.elem] ELSE t.kind

\* encodeType writes the numbers of 64 bits like others, and a uintptr like the
\* beginning of a pointer, which a pointer to it ends in too.  In a struct a
\* string is two words and not a char *.
Misread == {"int", "int64", "uint", "uint64", "uintptr"}

\* A type is read right if those it is made of are.
ReadRight(g, t) ==
    /\ t.kind \notin Misread
    /\ pointee[t] # "uintptr"
    /\ t.kind = "struct" =>
          \A n \in 1..Len(t.fields) : g[t.fields[n]] /\ t.fields[n].kind # "string"

readable[t \in Types] == ReadRight(readable, t)
Readable(t) == readable[t]

ReadableFunc(fn) ==
    /\ \A n \in 1..Len(fn.ins) : Readable(fn.ins[n])
    /\ \A n \in 1..Len(fn.outs) : Readable(fn.outs[n])
=============================================================================
