# A TLA+ model of pureffi

pureffi (package `purego`) calls C functions from Go without cgo, on top of the
library goffi. This directory holds TLA+ modules translated from its Go source,
TLC configurations that check them on small instances, and TLAPS proofs for
every size of instance. `PROJECT.json` lists which definition stands for which
lines of the source, every run, every hazard and every theorem.

## The system

| Component | State it keeps | Operations | What makes it correct |
|---|---|---|---|
| Reflect path (`purego.go:130-269`) | `slowCallPool` of contexts (`keepAlive`, `ffiArgs`, `retBuf`), locals of each running closure, thread locks, errno of each OS thread | a call, nested calls through callbacks | no context is shared; C sees this call's arguments; the error is this call's errno; every lock and context is given back, panics included |
| Registration (`purego.go:26-128`, `sym_unix.go`) | locals of `RegisterFunc`, the prepared call interface | `RegisterFunc`, `RegisterLibFunc`, then calls | descriptors and packed arguments agree; only true varargs go where C looks for varargs |
| Choice of a fast wrapper (`genfastfunc.go`, `zz_fast_func.go`) | locals of the scan, the function variable | `tryRegisterFastPath` | the wrapper fits the function's type slot for slot; true is returned exactly if one was installed |
| Fast call (`zz_fast_func.go:27-61`) | `fastCallPool` | `fastCallIF` | links and results left in a context by another call are never used |
| `SyscallN` (`syscall_unix.go`) | `syscallOnce`, table of call interfaces, `syscallPool` | `SyscallN` | the table is complete before it is used; failures carry their errno |
| `Dlopen` (`dlfcn_linux.go`) | `dlopenOnce`, the two registered functions, `dlerror` of each thread | `Dlopen`, `Dlsym`, `Dlclose` | the message is that of this `dlopen`; nobody waits for ever; the thread is unlocked |
| Objective-C blocks (`objc/objc_block_darwin.go`) | layout cache under a mutex, map from block addresses to functions | `NewBlock`, `Copy`, `Release`, `Invoke`, `InvokeBlock`, the dispose callback | a live block leads to its own function, a dead one to none; a type costs one callback |
| `RegisterClass`, encodings (`objc/objc_runtime_darwin.go`) | the class pair under construction, the runtime's names, the supply of callbacks | `RegisterClass` as a sequence of steps that may fail, `NewIMP`, `encodeType`, `encodeFunc` | a class that can be found is complete; an accessor reaches its own variable; the runtime reads the signature the function has |
| Callbacks (`purego.go:438-476`), C strings, other platforms | little or none | | see "Not modelled" |

How they meet: a registered function either holds a fast wrapper (`FastPath`,
then `FastCall` at each call) or the closure (`Register` decides what it is told,
`ReflectCall` is what it does). `Dlopen` on Linux calls through two functions
registered that way. `SyscallN` stands by itself. All of them end in
`ffi.CallFunction`, and C may call back into Go on the same goroutine while a
call is under way, which makes calls nest. Blocks and classes use callbacks and
calls of the Objective-C runtime.

What is hard here: calls interleave on goroutines and nest on one; pools hand
memory with old contents from one call to the next; errno and dlerror belong to
an OS thread while goroutines move between threads; any of a dozen steps may
panic, and the panic travels through C into the outer calls; first callers race
for `sync.Once` tables; addresses of blocks are reused; a class is built in a
dozen steps of which none is taken back when a later one fails. The "hazards" of
`PROJECT.json` name the lines.

## The modules

`ForeignCall` is the abstract specification: whatever path carries a call, the C
function sees the caller's arguments in order, and the call returns what that
execution produced, with its own errno or none. `ReflectCall`, `SyscallN` and
`FastCall` each define `Abstract == INSTANCE ForeignCall WITH ...` and the
property `ImplementsForeignCall`. The mapping of `phase` is read off `pc`;
`argc`, `left` and `out` are the number of arguments, the errno C left and the
closure's results.

* `ReflectCall`: one action per step of the closure, in its order: `Get`,
  `LockOSThread`, `ClearErrno`, `PackArg` (once per argument), `Prepare`,
  `CallFunction`, then C (`CSetErrno`, `CReturn`, external), `GetErr`, `Unpack`,
  and the deferred functions `UnlockOSThread` and `Put`. `Panic` leads from any
  step that may panic to the deferred functions; `Put` passes a panic on to the
  outer closure, or not if the callback recovers it. Arguments are tokens
  `<<k, i>>`, so that any mixing up of two calls shows. `top` and `parent` are the stack of each
  goroutine. The runtime's side is `Migrate` (a goroutine that is neither locked
  nor in C may change threads) and `DropPooled` (the garbage collector empties a
  `sync.Pool`).
* `Register`: the checks, markers, heuristic and two loops of `RegisterFunc`,
  and the two packing loops of a call, for every signature within the bounds.
  Parameter kinds are four classes: word, array, struct, unsupported.
* `FastWrappers`: the wrappers and the two tables of `zz_fast_func.go` as they
  are compiled, not as the generator means them. A wrapper is its parameter
  kinds, what its body stores where, what it keeps alive, and whether it returns
  something. `fastInts0` to `fastInts15` and their float variants name the
  functions; `registerFastFunc` and `Interleaved2` to `Interleaved15` are the
  switches. The cases of one count follow one pattern, the mask, and are written
  as a set over the masks; the file was compared with it case by case.
* `FastPath`: the scan of `tryRegisterFastPath` as a loop over a signature, the
  look-up in those tables, and what a call then does to the parameters
  (`Gathered`), with the limits 15 and 6 of the code.
* `FastCall`: `fastCallIF` step by step, with links that survive in the pool.
* `SyscallN`: the once with its loop, the checks, the pooled call, and the errno
  rule on words of `WordBits` bits with ints of `IntBits`. The `errnoOnce` of
  its first line sets nothing that `SyscallN` reads and is left out; `r2` goes the
  way of `r1` and is left out.
* `Dlopen`: `dlopenOnce`, `initDlopen` (found, missing, or a panic), the lock,
  the clearing `dlerror`, `dlopen`, the reading `dlerror`; `Dlsym` and `Dlclose`
  of other goroutines leave messages on their threads meanwhile.
* `Blocks`: the layout cache with its mutex, the function map, and an external
  reference-counting heap with few addresses, so that they are reused.
* `Encode`: `encodeType` as a recursive function over the trees of the constant
  `Types`, `encodeFunc` on top of it. Beside them, and not taken from them, stand
  how the runtime reads an encoding (`ReadTypes`: an automaton that goes over the
  symbols once, with a depth of braces and the depth at which what a `^` points
  to ends) and what it should find (`CSignature`: the letters `@encode` writes on
  64-bit Darwin for the C types of the same representation, `q` and `Q` for 64
  bits). `readable` names the types for which the two agree: none of 64 bits
  (`int`, `int64`, `uint`, `uint64`, `uintptr`), no `uintptr` at the end of
  pointers, no string in a struct. Encodings are sequences of symbols; the name of
  a struct is one symbol. `Height` says how deep a type is nested: it is what makes
  the recursion end. `Encoding` is the body of `encodeType` with what its calls of
  itself answer as a parameter, so that it can be reasoned about apart from the
  recursion.
* `ObjcClass`: `RegisterClass` step by step on top of `Encode`: `Allocate`,
  `AddProtocol`, `MakeIMP` (whose panic is recovered), `AddMethod`, `AddIvar`,
  `Attribute`, the accessors (whose panic is not, and whose `AddMethod` is not
  looked at), `objc_registerClassPair`. Names are sequences of words, so that
  capitals and prefixes can meet. Attempts of several goroutines interleave and
  share names and callbacks. Whether a name is taken by a class that is only
  allocated is left open, as it is the runtime's business.

Each component has an `MC` module with its sets of signatures or types, and its
symmetry where only safety is checked. Operators with a comment "Mutant of X" are X with a plausible bug; no
specification uses them. They record what each property guards against: with
X replaced by its mutant, the property listed with it fails.

## Runs

| Run | Shows | Bounds |
|---|---|---|
| `reflect` | `CtxExclusive`, `ArgsIntact`, `CleanPool`, `ErrnoOwn`, `LockBalanced`, `ImplementsForeignCall` | 3 calls, 2 goroutines, 3 threads, arrays of 2, calls with 2 and 3 arguments: the third overflows |
| `reflect_live` | `CallsEnd` (a call ends and has given its context back, panicking or not), and `ImplementsForeignCall` where no errno location was found | 2 calls of five shapes, buffered results among them, on one goroutine, so they nest or follow each other |
| `reflect_retains` | violation: `PoolRetainsNoArguments` | 2 calls |
| `syscall` | `TableComplete`, `CtxExclusive`, `FailuresReported`, `ResultOwn`, `ImplementsForeignCall`, `CallsEnd` | 2 calls, tables for 0..2 arguments of which one cannot be prepared, up to 3 arguments, 3-bit words and 2-bit ints |
| `syscall_low_word` | violation: `ErrnoOnlyOnError` | 4-bit words, 2-bit ints |
| `fast_path` | `AcceptedInstalled`, `SlotsAgree`, `ArgumentsInPlace`, `PointersKept`, `AcceptsEligible` | every signature of up to 3 of 5 kinds; 4 to 7 parameters with every mix of pointers and a float anywhere; up to 16 with at most one pointer and a float anywhere |
| `fast_call` | `CtxExclusive`, `ArgumentsInPlace`, `ImplementsForeignCall` | 3 calls with four mixes of kinds |
| `dlopen` | `MessageOwn`, `OnceBeforeUse`, `LockBalanced`, `DlopenEnds` | 2 goroutines with 2 operations each, 3 threads |
| `blocks` | `FunctionOfBlock`, `FunctionsOfLive`, `CalledLive`, `OneCallbackPerType`, `LayoutsAnswered` | 2 actors, 2 addresses, 2 references, 4 functions of 4 types, one of them refused, 2 callbacks |
| `register` | `InterfaceMatches`, `VariadicBoundary`, `MsgSendInRegisters` | up to 2 parameters and 2 tail arguments, all markers, results, names and platforms |
| `objc_class` | `VisibleComplete`, `AccessorsOwn`, `SignaturesReadBack`, `PanicsOverAccessors` | 2 attempts, 17 plans under 2 names, 4 callbacks |
| `objc_numbers` | violation: `SignaturesReadBack` | one method with numbers of 64 bits, one of them in a struct, and an `int32` behind a `uintptr` |

Why the bounds are enough to be interesting: two calls meet in every pool
hazard (one that left something, one that finds it), the third allows one nested
and one concurrent at the same time; one thread more than goroutines lets each
of them move. `FastPath` has the code's own limits, and signatures one longer than
each. The plans of `ObjcClass` have something wrong at each place where
`RegisterClass` can fail, and four callbacks are fewer than two good plans need.
`ReflectCall` is checked with arrays of two slots for 32: they are only
compared with the number of arguments.

The three runs that end in a violation are described under "findings" in
`PROJECT.json`:

* a pooled context keeps pointing to the last call's argument memory through
  `ffiArgs` although `keepAlive` is cleared so as not to (`reflect_retains`);
* `SyscallN` takes a successful word result with a low half of all ones for a
  failure (`syscall_low_word`);
* `encodeType` writes an `int` as `l` and the other 64-bit integers as `L`, which
  `@encode` on 64-bit Darwin keeps for 32 bits, and a `uintptr` as a bare `^`,
  which swallows the next parameter (`objc_numbers`). `SignaturesReadBack` passes
  in `objc_class`, whose plans have none of these types (`ReadablePlans` in
  `MCObjcClass`). Callbacks take no structs in that run, as on arm64; that
  structs by value read back is left to the proof.

Two smaller ones have no run. The documentation of `RegisterClass` says that it
"returns the created class or an error" (line 253), and it panics over accessors;
`PanicsOverAccessors` says when. The regular expression for the names of variables
(line 250) is not anchored, so that a name which begins with a capital passes,
although the error of line 287 says "must start with a lowercase letter"; `AddIvar`
does as the code does.

### Fairness

Liveness assumes weak fairness of each call's own steps: a goroutine that can
run is run, which Go's preemptive scheduler provides, and that C functions
return, which is the caller's business. `Blocks` needs strong fairness for
entering the layout cache, because other goroutines may take the mutex again
and again; Go's `sync.Mutex` hands the lock over to a waiter that has waited for
a millisecond. Nothing is assumed of callers, of the garbage collector, or of
goroutines moving between threads. `ReflectCall` and `Blocks` never deadlock in
the runs for want of a step: goroutines can always migrate, blocks can always be
made or released; the others end in an explicit idling step (`Quiescent`, `Done`,
`Over`) that is enabled only when all the work is over, so the deadlock check
stays on everywhere.

## Proofs

Eight modules named `...Proofs` hold theorems that TLAPS checks for every value
of the constants: any number of calls, goroutines, threads, contexts, arguments,
blocks, plans, and signatures of any length. Each proves an `IndInv`, stated in
parts at the end of the component's module, inductive, with one lemma per part and
in it one step per action; every property then follows from it. They assume only
the named `ASSUME`s:

* bounds are natural numbers, error numbers are not zero, and the tokens for
  "none" are none of the things they stand beside;
* `Blocks`: actors are finitely many, because references are counted, and a
  client can hold at least one reference;
* `SyscallN`: `2^WordBits` is a positive multiple of `2^IntBits`. This is
  arithmetic, true whenever `IntBits <= WordBits`, but the provers have no facts
  about exponents; TLC evaluates it for the runs' widths;
* `FastPath`: signatures are sequences of kinds;
* `ObjcClass`: plans are records with lists of some length and names made of the
  words `Capital` knows, and a callback can pass an `ID` and a `SEL`, the
  parameters every method begins with; the plans' types, an `ID` and a `SEL` are
  among `Types` (`SignaturesAssumption`);
* `Encode`: every type is made of types of a smaller `Height` (`TypesAssumption`).
  There are any number of types, with structs of any name and any number of fields
  and pointers to pointers of any depth.

### Calls

`ReflectCall`. None of the properties is inductive. `IndInv` adds, and needs:

* `FreshFrames`, a call without a context has packed nothing, so `Get` starts
  with counters at zero;
* `Stacked`, calls under the innermost one of a goroutine are in C and each has
  one child: a panic that `Put` passes on finds the outer closure in C, and
  nobody else has moved it;
* `Packed`, the context holds exactly what its call packed so far, and keeps
  nothing alive beyond: from it follow `ArgsIntact` and, when the deferred loop
  has run, `CleanPool`. It needs `CtxExclusive`, or another call's `PackArg`
  could write there;
* `LockSteps` and `LockBalanced`, which say when a goroutine cannot migrate;
* `ErrnoTracked`, no two goroutines share a thread, and from clearing errno to
  reading it the call's thread is the one whose location it took, with errno
  what C left: `ErrnoOwn` is what `GetErr` makes of it;
* `OutcomeTracked`, what a call will return is what its C function produced.

The theorems are `Induction`, `TypeCorrect`, `ContextsSafe`, `PoolSafe`,
`ArgumentsSafe`, `ErrorsSafe`, `LocksSafe` and `Refinement`.

`SyscallN`. `IndInv` adds `OnceFirst` (the once is over only when the table is
complete, nobody is past it before, and whoever asks for a context fits it),
`ResultTracked` (the context's result is zero before the call, then what C
returned, and `r1` is that), `Passed` (the arguments goffi reads are the call's
own, and an errno is there only once C has returned) and `Reported` (it is passed
on with an int -1). From it follow `TypeCorrect`, `ContextsSafe`, `TableSafe`,
`ResultsSafe`, `FailuresSafe` and `Refinement`. `FailuresSafe` rests on the lemma
`MinusOneFound`: the test of the low half finds -1 in both forms in which an int
can fill a word, for any two widths.

`FastCall`. `IndInv` adds `Started` (a call comes to the loop with nothing
linked), `Linked` (up to the call, the context holds this call's arrays and the
links made so far) and `ResultTracked`. That a link leads to its argument rests on
lemmas about the counters of the loop: `IndexTyped` and `IndexInjective`, by
cardinality. The theorems are `TypeCorrect`, `ContextsSafe`, `ArgumentsSafe` and
`Refinement`.

`Refinement` is `Spec => ImplementsForeignCall` in each of the three: the initial
states map to an initial state of `ForeignCall` (`InitRefines`), and every step
under `IndInv` is a step of it or changes none of its variables (`NextRefines`,
one step per action, with the lemmas `PhaseMoves` and `OutcomeSame` for the calls
that stay where they are).

`Dlopen`. `IndInv` adds `OnceFirst` (nobody is past the once before it is done,
and whoever runs `initDlopen` stands at it), `DlerrorTracked` (no shared
threads; between clearing and reading, a goroutine's thread holds its own
message or none) and `NotYet` (a call under way has no result). `NextTypes` and
`NextRest` go through the actions; the theorems are `Induction`, `TypeCorrect`,
`MessagesSafe`, `OpeningSafe` and `UnlocksSafe`.

### Registration

`Register`. A registration is one run through its steps, so `IndInv` says for each
stage what has been made: `Bounded` (the fixed parameters lie behind a marker and
in front of the tail), `Described` (the descriptors so far), `Prepared` (the
interface calls start from), `Packed` (the arguments so far, and the descriptors
of the tail's) and `NotVariadic`. `InterfaceDescribesMemory`, `TailBehindFixed` and
`MsgSendNotVariadic` follow, for any number of parameters and tail arguments.

`FastPath`. `Scanned` says what the locals of the scan tell of the parameters
passed so far: `Counted` (how many, and whether pointers are among them) and
`FloatsSeen` (no float, one and where, or at least two). The mask's bits count
integers, so they are positions only up to the first float: `MaskOfPointers` is
part of `FloatsSeen` and lost when an integer follows a float, where the code
no longer uses it but to ask whether it is zero. The decision then takes lemmas on
the tables (`CasesTable`, `InterleavedTable`: every case a look-up can
reach is there and is the right one), on what is installed (`TrailingInstalled`,
`InterleavedInstalled`), on what a call does with it (`TrailingGathered`,
`InterleavedGathered`: spreading over two arrays and gathering again is the
identity, by counting with `BeforeAll`, `BeforeNone` and `BeforeAllButOne`), and on which
signatures are eligible (`EligibleTrailing`, `EligibleAmong`, `EligibleMany`).
The theorems are `TakenMeansWrapped`, `WrapperHasSlots`, `CallKeepsOrder`,
`CallKeepsPointers` and `TakenMeansEligible`.

### Objective-C

`Blocks`. `IndInv` adds `MutexHeld` (who makes a layout holds the mutex, and the
type has none meanwhile), `RefsCounted` (a block's count is the clients' references
and those in flight in `NewBlock` and `InvokeBlock`, and it is live exactly while
the count is not zero), `Entered` (a new block is its maker's alone until its
function is in the map) and `Disposals` (a dying block is disposed of once, by one
actor, and has no function when its memory goes). Without `Disposals` a late
dispose callback could delete the function of a newer block at the same address.
The theorems are `TypeCorrect`, `BlockLeadsToFunction`, `MapOfExistingBlocks`,
`CalledWhileLive` and `CallbackPerType`.

`ObjcClass`. For each attempt `ControlOf` says where it is and what it holds,
`AddedOf`, `MethodsOf` and `AccessorsOf` what is in the class by then,
`SelectorsOf` that no selector is there twice and none that nothing so far asked
for, so that a selector not taken is free, and `PanickedOf` why an attempt
panicked. `FoundComplete`, `OwnAccessors` and `OnlyAccessorsPanic` follow; what
`encodeType` computes does not matter to them.

What it computes matters to the signatures. `TypesOf` says that a method in the
class has the encoding of its own function, of which nothing is refused, and that
the accessors come to theirs with a variable whose type is encoded already. The
rest is about `Encode` alone:

* Induction. `WFMin` of the library, for the order of the natural numbers, gives
  every set of numbers a least element (`Least`); `CourseOfValues` and
  `InductionUpTo` are induction over sets, `Recursion` and `RecursionUpTo` the
  existence of functions defined by recursion. From them `ConcatenatedIs`,
  `ReadingIs`, `PointeeIs`, `EncodeTypeIs`, `ShapeIs` and `ReadableIs`: each
  recursive function of `Encode` is what its body says, for `encodeType` because
  `EncodingLocal` shows that it asks only for smaller types.
* Reading. `AfterConcat`: a reader goes over a concatenation part by part. The
  argument needs two of its states: `At`, at the beginning of a type, and
  `Hidden`, behind a `^`. `Reads(e, w)` says that `e` leads from `At` to `At` and
  shows `w`, `Passes(e)` that it leads from `Hidden` to `At`. `ReadsAll`: a row of
  parts is read one by one; `PointerReads`: a `^` in front of something that
  passes shows a pointer; `StructPasses` and `StructReads`: braces around fields
  that read pass as a whole behind a `^`, and show the fields otherwise.
* Encodings. By induction over `Height`, what `encodeType` answers inside of a
  pointer passes, unless a `uintptr` is at the end of the pointers
  (`EncodeTypePasses`), and what it answers for a readable type is read as the
  shape of that type (`EncodeTypeReads`).
* `EncodeFuncReads`: what `encodeFunc` answers for a function of readable types is
  read as the function's signature. So is what a visible class holds, whatever
  other attempts register (`SignaturesRead`), and `SignaturesReadBack` holds when
  all plans are readable (`ReadablePlansReadBack`). With a number of 64 bits it does
  not: `objc_numbers`. The hypothesis is what is left of the comments' claim, not a
  convenience of the proof.

### Only model-checked

Liveness (`CallsEnd`, `DlopenEnds`, `LayoutsAnswered`), which needs fairness. Every
safety property that a passing run checks is proved.

The invariants of the proofs are not runs of their own; TLC has found no
violation of them on the instances of the runs.

## Not modelled

* goffi, C functions, the Go runtime and the Objective-C runtime: external,
  modelled by the effects the code relies on (`CReturn`, `CSetErrno`, `Pending`,
  `BlockCopy`, `Drop`, `Migrate`, `DropPooled`).
* Pointer types that point to themselves (`type P *P`), for which `encodeType` calls
  itself without end; `Types` are trees.
* Layout in memory: sizes and alignment of descriptors, spill areas, block
  headers, and conversions of a raw word to a Go result.
* Of `objc_runtime_darwin.go`: message sending, the getters of classes,
  protocols, properties and variables, and `init`, which are single calls of
  registered functions; size, alignment and offset of instance variables.
* `NewCallback`'s wrapper for functions with a marker, and C strings: conversions
  without state. `mallocOnce` and `dladdrOnce` have the shape of `dlopenOnce`.
* `dlfcn` on macOS, BSD and Windows, and `SyscallN` on Windows: one call of goffi
  each, no state. The 32-bit ARM stubs panic.
* A `Variadic` marker on a signature without a tail changes nothing in the code
  and in `Register`; the documentation does not say what it should do.
* A callback that a Go function argument costs at every call is never given
  back; the exhaustion it leads to is one of the panics of `PackArg`.

## How far the properties reach

* `ErrnoOwn` and `ImplementsForeignCall` follow the errno of the thread through
  what nested calls do to it, their clearing included. They say that the value is
  read from the thread the call ran on, after C returned, and not that a callback
  left errno alone.
* `VisibleComplete` speaks of each attempt's own class. What another goroutine
  does with a class of the same name meanwhile is the runtime's business.
* `AccessorsOwn` leaves out the accessors whose selector a method or an earlier
  variable of the plan has used (a selector for setting counts for a read-only
  variable too): there the refusal of `AddMethod` is ignored and the accessor is
  the earlier one's.
* `FastWrappers` has the thousand cases of `zz_fast_func.go` as one formula over
  masks. The file was compared with it, but no property would notice one wrong case
  in a later version of the file.
* `OnceBeforeUse` says that nobody is past `dlopenOnce` before it is over and
  nobody is past it after a failed look-up. After an `initDlopen` that panicked,
  later callers go on with functions that are nil, and panic in turn
  (`Panic` of `Dlopen`); `UnlocksSafe` and `DlopenEnds` cover that.
* In `Register` arguments are words, floats, aggregates; a `float32` in a C vararg
  and the limit for `float64` tails on System V (`purego.go:34-38`) are not told
  apart from the others. Panics while packing, the 33rd argument's among them, are
  in `ReflectCall`.
* In `ReflectCall` a panic comes out of C when a nested registered call panics; a
  callback that panics by itself has no step there, `SyscallN` and `FastCall` have
  one (`CPanic`). `SyscallN` takes a number of arguments whose interface could not
  be prepared like one that is too large: both panic.
* `NewCallback` in `Blocks` panics when callbacks are used up; the panic over a type
  that encodes but cannot be passed takes the same way as that of a refused
  type. `objc_allocateClassPair` fails in `ObjcClass` for a name that is taken
  only.

## Plan

1. A composition of `Dlopen` with `ReflectCall`: `dlopenFn` and `dlerrorFn` are
   themselves registered functions that nest in the locked thread.
2. `Callbacks`: `NewCallback` with its marker wrapper and the bounded supply, and
   `packArg` of functions, composed with `ReflectCall`'s panics.
3. Proofs about these two, once they are there; of the present runs, what is
   left to TLC is liveness.
