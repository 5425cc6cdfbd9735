------------------------------- MODULE Blocks -------------------------------
(***************************************************************************)
(* Objective-C blocks made of Go functions (objc/objc_block_darwin.go).    *)
(* NewBlock gets a layout for the function's type from a cache, lets       *)
(* _Block_copy make a heap block of it, and enters the function under the  *)
(* block's address.  The Objective-C runtime counts references; on the     *)
(* last release it calls the block's dispose helper, which is a callback   *)
(* to Functions.Delete, and frees the memory, whose address the next block *)
(* may get.                                                                *)
(*                                                                         *)
(* Actors are goroutines and threads of native code.  A client uses a      *)
(* block only while it, or somebody it relies on, owns a reference;        *)
(* references have no names, so any actor may release any of them.  Load,  *)
(* Store and Delete are one step each: the RWMutex they run under is held  *)
(* for nothing else.                                                       *)
(***************************************************************************)
EXTENDS Naturals, FiniteSets

CONSTANTS
    Actors,
    Fns,            \* Go functions blocks are made of
    Types,          \* their types
    TypeOf,         \* TypeOf[f]: the type of function f
    Encodable,      \* the types encode accepts
    MaxCallbacks,   \* callbacks goffi has for block types
    Addrs,          \* addresses of heap blocks
    MaxRefs,        \* bound: references the clients own of a block
    NoActor, NoFn, NoBlock

ASSUME BlocksAssumption ==
    /\ TypeOf \in [Fns -> Types]
    /\ Encodable \subseteq Types
    /\ MaxCallbacks \in Nat /\ MaxRefs \in Nat \ {0}
    /\ IsFiniteSet(Actors)
    /\ NoActor \notin Actors /\ NoFn \notin Fns /\ NoBlock \notin Addrs

VARIABLES
    pc,         \* pc[a]: what actor a is doing
    fn,         \* fn[a]: the function it makes a block of or calls
    blk,        \* blk[a]: the block it works on
    mutex,      \* who holds the blockCache's mutex
    layouts,    \* the types with a cached layout
    callbacks,  \* callbacks[t]: the callbacks made for type t
    spare,      \* the callbacks goffi has left
    functions,  \* functions[b]: the blockFunctionCache's map, NoFn for none
    refs,       \* refs[b]: the runtime's reference count
    heap,       \* heap[b]: "free", "live" or "dying"
    owned,      \* owned[b]: how many of the references are the clients'
    madeOf      \* madeOf[b]: the function the block at b was made of

actorVars == <<fn, blk>>
cacheVars == <<mutex, layouts, callbacks, spare>>
blockVars == <<refs, heap, owned, madeOf>>
vars == <<pc, actorVars, cacheVars, functions, blockVars>>

-----------------------------------------------------------------------------
PCs == {"idle", "layout", "encode", "callback", "copy", "store", "load",
        "calling", "running", "release", "dispose", "free"}

Goto(a, l) == pc' = [pc EXCEPT ![a] = l]

-----------------------------------------------------------------------------
Init ==
    /\ pc = [a \in Actors |-> "idle"]
    /\ fn = [a \in Actors |-> NoFn]
    /\ blk = [a \in Actors |-> NoBlock]
    /\ mutex = NoActor
    /\ layouts = {}
    /\ callbacks = [t \in Types |-> 0]
    /\ spare = MaxCallbacks
    /\ functions = [b \in Addrs |-> NoFn]
    /\ refs = [b \in Addrs |-> 0]
    /\ heap = [b \in Addrs |-> "free"]
    /\ owned = [b \in Addrs |-> 0]
    /\ madeOf = [b \in Addrs |-> NoFn]

\* Bound: no more blocks are made at once than there are addresses.
RoomForBlock ==
    Cardinality({b \in Addrs : heap[b] # "free"})
      + Cardinality({a \in Actors : pc[a] \in {"layout", "encode", "callback", "copy"}})
      < Cardinality(Addrs)

\* NewBlock is called.
NewBlock(a) ==
    /\ pc[a] = "idle"
    /\ RoomForBlock
    /\ \E f \in Fns : fn' = [fn EXCEPT ![a] = f]
    /\ Goto(a, "layout")
    /\ UNCHANGED <<blk, cacheVars, functions, blockVars>>

\* Mutant of GetLayout: the cache is looked up without its lock.
GetLayoutUnlocked(a) ==
    /\ pc[a] = "layout"
    /\ IF TypeOf[fn[a]] \in layouts
       THEN Goto(a, "copy") /\ UNCHANGED mutex
       ELSE Goto(a, "encode") /\ mutex' = a
    /\ UNCHANGED <<actorVars, layouts, callbacks, spare, functions, blockVars>>

\* getLayout: under the mutex, a cached layout, or the start of a new one.
GetLayout(a) ==
    /\ pc[a] = "layout"
    /\ mutex = NoActor
    /\ IF TypeOf[fn[a]] \in layouts
       THEN Goto(a, "copy") /\ UNCHANGED mutex
       ELSE Goto(a, "encode") /\ mutex' = a
    /\ UNCHANGED <<actorVars, layouts, callbacks, spare, functions, blockVars>>

\* Mutant of Encode: the mutex is not released by a deferred call.
EncodePanicHolds(a) ==
    /\ pc[a] = "encode"
    /\ Goto(a, IF TypeOf[fn[a]] \in Encodable THEN "callback" ELSE "idle")
    /\ UNCHANGED <<actorVars, cacheVars, functions, blockVars>>

\* Mutant of Encode: nothing is refused.
EncodeAnything(a) ==
    /\ pc[a] = "encode"
    /\ Goto(a, "callback")
    /\ UNCHANGED <<actorVars, cacheVars, functions, blockVars>>

\* encode panics on a type without an encoding or without a Block in front;
\* the deferred Unlock runs.
Encode(a) ==
    /\ pc[a] = "encode"
    /\ IF TypeOf[fn[a]] \in Encodable
       THEN Goto(a, "callback") /\ UNCHANGED mutex
       ELSE Goto(a, "idle") /\ mutex' = NoActor
    /\ UNCHANGED <<actorVars, layouts, callbacks, spare, functions, blockVars>>

\* purego.NewCallback panics when goffi has none left; otherwise the layout
\* is entered into the cache, and the mutex is released either way.
NewCallback(a) ==
    /\ pc[a] = "callback"
    /\ mutex' = NoActor
    /\ IF spare > 0
       THEN /\ callbacks' = [callbacks EXCEPT ![TypeOf[fn[a]]] = @ + 1]
            /\ spare' = spare - 1
            /\ layouts' = layouts \cup {TypeOf[fn[a]]}
            /\ Goto(a, "copy")
       ELSE Goto(a, "idle") /\ UNCHANGED <<callbacks, spare, layouts>>
    /\ UNCHANGED <<actorVars, functions, blockVars>>

\* _Block_copy (external) of the layout on the Go side makes a heap block.
BlockCopy(a) ==
    /\ pc[a] = "copy"
    /\ \E b \in Addrs :
          /\ heap[b] = "free"
          /\ heap' = [heap EXCEPT ![b] = "live"]
          /\ refs' = [refs EXCEPT ![b] = 1]
          /\ madeOf' = [madeOf EXCEPT ![b] = fn[a]]
          /\ blk' = [blk EXCEPT ![a] = b]
    /\ Goto(a, "store")
    /\ UNCHANGED <<fn, cacheVars, functions, owned>>

\* Functions.Store(block, fn).
Store(a) == functions' = [functions EXCEPT ![blk[a]] = fn[a]]

\* The function is entered under the new block, which is the client's now.
FinishNewBlock(a) ==
    /\ pc[a] = "store"
    /\ Store(a)
    /\ owned' = [owned EXCEPT ![blk[a]] = 1]
    /\ Goto(a, "idle")
    /\ UNCHANGED <<actorVars, cacheVars, refs, heap, madeOf>>

\* Block.Copy of a heap block.
Copy(a, b) ==
    /\ pc[a] = "idle"
    /\ owned[b] \in 1..(MaxRefs - 1)
    /\ refs' = [refs EXCEPT ![b] = @ + 1]
    /\ owned' = [owned EXCEPT ![b] = @ + 1]
    /\ UNCHANGED <<pc, actorVars, cacheVars, functions, heap, madeOf>>

\* _Block_release (external): the last reference starts the disposal, which
\* goes on in the releasing actor.
Drop(a, b) ==
    /\ refs' = [refs EXCEPT ![b] = @ - 1]
    /\ blk' = [blk EXCEPT ![a] = b]
    /\ IF refs[b] = 1
       THEN heap' = [heap EXCEPT ![b] = "dying"] /\ Goto(a, "dispose")
       ELSE Goto(a, "idle") /\ UNCHANGED heap

\* Block.Release.
Release(a, b) ==
    /\ pc[a] = "idle"
    /\ owned[b] > 0
    /\ owned' = [owned EXCEPT ![b] = @ - 1]
    /\ Drop(a, b)
    /\ UNCHANGED <<fn, cacheVars, functions, madeOf>>

\* Mutant of Delete: the block's function is kept.
DeleteNothing(a) == UNCHANGED functions

\* Functions.Delete(block), the dispose helper.
Delete(a) == functions' = [functions EXCEPT ![blk[a]] = NoFn]

Dispose(a) ==
    /\ pc[a] = "dispose"
    /\ Delete(a)
    /\ Goto(a, "free")
    /\ UNCHANGED <<actorVars, cacheVars, blockVars>>

\* The runtime (external) frees the block's memory after the helper.
Free(a) ==
    /\ pc[a] = "free"
    /\ heap' = [heap EXCEPT ![blk[a]] = "free"]
    /\ Goto(a, "idle")
    /\ UNCHANGED <<actorVars, cacheVars, functions, refs, owned, madeOf>>

\* Block.Invoke, and the callback the runtime runs when native code invokes
\* the block: the function is looked up and called.  Nothing keeps the block
\* while it runs but the caller's reference; looking up no function panics.
Invoke(a, b) ==
    /\ pc[a] = "idle"
    /\ owned[b] > 0
    /\ fn' = [fn EXCEPT ![a] = functions[b]]
    /\ blk' = [blk EXCEPT ![a] = b]
    /\ Goto(a, "running")
    /\ UNCHANGED <<cacheVars, functions, blockVars>>

\* The function Invoke called ends, or the panic does.
Finish(a) ==
    /\ pc[a] = "running"
    /\ Goto(a, "idle")
    /\ UNCHANGED <<actorVars, cacheVars, functions, blockVars>>

\* Mutant of InvokeBlock: the block is released after but not copied before.
InvokeUncopied(a, b) ==
    /\ pc[a] = "idle"
    /\ owned[b] > 0
    /\ blk' = [blk EXCEPT ![a] = b]
    /\ Goto(a, "load")
    /\ UNCHANGED <<fn, cacheVars, functions, blockVars>>

\* InvokeBlock is called: it first takes a reference of its own.
InvokeBlock(a, b) ==
    /\ pc[a] = "idle"
    /\ owned[b] > 0
    /\ refs' = [refs EXCEPT ![b] = @ + 1]
    /\ blk' = [blk EXCEPT ![a] = b]
    /\ Goto(a, "load")
    /\ UNCHANGED <<fn, cacheVars, functions, heap, owned, madeOf>>

\* It looks the function up.  With the wrong number of arguments it is done,
\* with an error; without a function it panics.
Load(a) ==
    /\ pc[a] = "load"
    /\ fn' = [fn EXCEPT ![a] = functions[blk[a]]]
    /\ Goto(a, "release") \/ (functions[blk[a]] # NoFn /\ Goto(a, "calling"))
    /\ UNCHANGED <<blk, cacheVars, functions, blockVars>>

\* The function returns, or panics; a void result or one of another type
\* makes InvokeBlock panic or return an error.
Called(a) ==
    /\ pc[a] = "calling"
    /\ Goto(a, "release")
    /\ UNCHANGED <<actorVars, cacheVars, functions, blockVars>>

\* InvokeBlock's deferred Release.
ReleaseOwn(a) ==
    /\ pc[a] = "release"
    /\ Drop(a, blk[a])
    /\ UNCHANGED <<fn, cacheVars, functions, owned, madeOf>>

\* The steps an actor takes once it has called something here.
Body(a) ==
    \/ GetLayout(a) \/ Encode(a) \/ NewCallback(a) \/ FinishNewBlock(a)
    \/ Dispose(a) \/ Free(a) \/ Finish(a) \/ Load(a) \/ Called(a) \/ ReleaseOwn(a)

Next ==
    \E a \in Actors :
        \/ NewBlock(a) \/ Body(a) \/ BlockCopy(a)
        \/ \E b \in Addrs : Copy(a, b) \/ Release(a, b) \/ Invoke(a, b) \/ InvokeBlock(a, b)

Spec == Init /\ [][Next]_vars

\* Actors keep running, and the mutex is fair to the ones waiting for it, as
\* Go's sync.Mutex is once a waiter has waited for a millisecond.
FairSpec == Spec /\ \A a \in Actors : WF_vars(Body(a)) /\ SF_vars(GetLayout(a))

-----------------------------------------------------------------------------
(* Type correctness of the cache, the function map and the heap of blocks.   *)
TypeOK ==
    /\ pc \in [Actors -> PCs]
    /\ fn \in [Actors -> Fns \cup {NoFn}]
    /\ blk \in [Actors -> Addrs \cup {NoBlock}]
    /\ mutex \in Actors \cup {NoActor}
    /\ layouts \subseteq Encodable
    /\ callbacks \in [Types -> 0..MaxCallbacks]
    /\ spare \in 0..MaxCallbacks
    /\ functions \in [Addrs -> Fns \cup {NoFn}]
    /\ refs \in [Addrs -> Nat]
    /\ heap \in [Addrs -> {"free", "live", "dying"}]
    /\ owned \in [Addrs -> 0..MaxRefs]
    /\ madeOf \in [Addrs -> Fns \cup {NoFn}]

(* A block somebody owns leads to the function it was made of                *)
(* (objc_block_darwin.go:185, 133): not to none, and not to the function of  *)
(* an earlier block at the same address.                                     *)
FunctionOfBlock ==
    \A b \in Addrs : owned[b] > 0 => heap[b] = "live" /\ functions[b] = madeOf[b]

(* The map holds functions of blocks that exist only                         *)
(* (objc_block_darwin.go:154, 60-64): a released block's function is gone    *)
(* before its address can be used again, so no function is kept for ever and *)
(* none is deleted that belongs to a newer block.                            *)
FunctionsOfLive == \A b \in Addrs : functions[b] # NoFn => heap[b] # "free"

(* While InvokeBlock runs a function its block is not disposed of            *)
(* (objc_block_darwin.go:189-190), even if the function itself, or another   *)
(* goroutine, releases the reference InvokeBlock was given, and the function *)
(* is the block's.                                                           *)
CalledLive ==
    \A a \in Actors : pc[a] = "calling" =>
        heap[blk[a]] = "live" /\ fn[a] = madeOf[blk[a]]

(* A function type costs one callback, however many goroutines make their    *)
(* first block of it at once (objc_block_darwin.go:111-117, 125-138):        *)
(* callbacks are never given back, so a second one would be lost.            *)
OneCallbackPerType ==
    \A t \in Types : callbacks[t] = IF t \in layouts THEN 1 ELSE 0

(* Whoever asks for a layout gets one or panics                              *)
(* (objc_block_darwin.go:111-113): no panic in encode or NewCallback leaves  *)
(* the cache locked.                                                         *)
LayoutsAnswered == \A a \in Actors : pc[a] = "layout" ~> pc[a] \in {"copy", "idle"}

-----------------------------------------------------------------------------
(* What the invariants above rest on; BlocksProofs proves it inductive.      *)

\* The actors with a reference of their own to the block at b: NewBlock's
\* until it has returned, InvokeBlock's between its Copy and its Release.
Holding == {"store", "load", "calling", "release"}
InFlight(b) == {a \in Actors : pc[a] \in Holding /\ blk[a] = b}

\* The mutex is held where a layout is made, and the type has none meanwhile.
MutexHeld ==
    \A a \in Actors :
        /\ pc[a] \in {"encode", "callback"} <=> mutex = a
        /\ pc[a] \in {"encode", "callback"} => TypeOf[fn[a]] \notin layouts
        /\ pc[a] = "callback" => TypeOf[fn[a]] \in Encodable
        /\ pc[a] \in {"layout", "encode", "callback", "copy", "store"} => fn[a] \in Fns

\* A block's count is of the clients' references and the ones in flight, and
\* the block is there while somebody has one.
RefsCounted ==
    \A b \in Addrs :
        /\ refs[b] = owned[b] + Cardinality(InFlight(b))
        /\ heap[b] = "live" <=> refs[b] > 0

\* A new block is its maker's alone and has no function yet; every other
\* block that is there has its own.
Entered ==
    /\ \A a \in Actors : pc[a] = "store" =>
          /\ InFlight(blk[a]) = {a} /\ owned[blk[a]] = 0
          /\ functions[blk[a]] = NoFn /\ fn[a] = madeOf[blk[a]]
    /\ \A b \in Addrs : heap[b] = "live" =>
          functions[b] = madeOf[b] \/ \E a \in Actors : pc[a] = "store" /\ blk[a] = b

\* A dying block is disposed of once, by one actor, and has no function when
\* its memory goes.
Disposals ==
    /\ \A a \in Actors :
          /\ pc[a] \in Holding \cup {"dispose", "free"} => blk[a] \in Addrs
          /\ pc[a] \in {"dispose", "free"} => heap[blk[a]] = "dying"
          /\ pc[a] = "free" => functions[blk[a]] = NoFn
    /\ \A a, c \in Actors :
          /\ pc[a] \in {"dispose", "free"} /\ pc[c] \in {"dispose", "free"}
          /\ blk[a] = blk[c]
          => a = c

CalledOwn == \A a \in Actors : pc[a] = "calling" => fn[a] = madeOf[blk[a]]

IndInv ==
    /\ TypeOK /\ MutexHeld /\ OneCallbackPerType /\ RefsCounted /\ Entered
    /\ Disposals /\ FunctionsOfLive /\ CalledOwn
=============================================================================
