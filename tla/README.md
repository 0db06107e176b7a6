# A TLA+ verification of Bytecoder

Bytecoder compiles Java bytecode to JavaScript, WebAssembly and OpenCL. This
directory holds TLA+ modules that model its core, the TLC configurations that
check them on small instances, and TLAPS proofs of the results that matter most
for every value of the constants. `PROJECT.json` lists components, runs,
mutants, findings, hazards and theorems, and maps every definition to the lines
it was translated from.

Paths below are relative to the repository; `core/` stands for
`core/src/main/java/de/mirkosertic/bytecoder/` and `classlib/` for
`classlib/java.base/src/main/java/de/mirkosertic/bytecoder/classlib/`.

## 1. The system

A compilation is sequential: a class file parser feeds a linker that pulls in
every class a program needs; for each method an SSA generator makes a control
flow graph of expressions, optimizers rewrite it, the relooper turns it into
structured code, and a backend prints that. What is concurrent, or long lived,
or driven by an unknown order of calls, lives mostly in the code that *runs
later*: the memory manager compiled into each WebAssembly module, the generated
initialisation checks, the loops and labels of the generated code, and the
OpenCL emulation with its thread pool.

| Component | State | Operations | Talks to | Correct if |
|---|---|---|---|---|
| Memory manager (`classlib/MemoryManager.java`) | two linked lists of blocks in linear memory | `malloc`, `free`, `newObject`, `newArray`, `GC`, `freeMem`, `usedMem` | generated code calls it; it reads the shadow stack | lists partition the heap; GC frees nothing that is in use, and ends |
| Control flow graph (`core/ssa/ControlFlowGraph`, `RegionNode`, `GraphNodePath`) | nodes, typed edges, paths every node is reached by | mark back edges, delete a node, dominance | shared by generator, optimizers and relooper | dominance and back edges stay right while nodes go |
| Optimizers (`core/optimizer/*`) | the graph they rewrite | inline a goto's target, drop assignments, bind virtual calls | read the graph, the linker's classes | the method behaves as before; they end |
| Relooper (`core/relooper/Relooper.java`) | tree of blocks, traversal stack | `reloop`, `replaceGotosIn` | graph in, structured blocks out | each node once; every jump lands where its goto pointed |
| JavaScript backend (`core/backend/js`) | text | print classes, blocks, checks, bootstrap | linker, relooper | structured code keeps its meaning; class initialisation order |
| WebAssembly backend (`core/backend/wasm`) | text, object layout, globals, shadow stack frames | the same; vtable functions, stack enter and exit | linker, relooper, memory manager | roots are visible to the collector; calls reach the right method |
| Class initialisation (generated by both backends) | a mark per class, the call stack of checks | `classInitCheck`, `bootstrap`, static initialisers | one check calls those of referenced classes | once each, needed classes first, ends |
| Linker (`core/core/BytecodeLinkerContext`, `BytecodeLinkedClass`, `graph/*`) | graph of classes, methods, fields | `resolveClass`, `resolve*Method`, the pass over abstract methods | re-entrant: a method's body links classes, a class's static initialiser links methods | all that the program refers to is linked and nothing else; it ends |
| Virtual calls (`core/core/BytecodeResolvedMethods`, both backends, `InvokeVirtualOptimizer`) | the methods a class inherits | merge, prototype, vtable function, binding of a call | reads the linker's graph | a call runs the method Java runs |
| SSA generator (`core/ssa/NaiveProgramGenerator`, `TypeRef`, `Variable`) | abstract stack and locals per block, PHIs | one translation per instruction, propagation along edges | linker (resolves what it meets), graph | values and types agree on every path |
| Class file parser (`core/core/Bytecode5xClassParser` and others) | read position | decode constants, attributes, instructions, signatures | loader | decodes the format |
| OpenCL emulation (`core/backend/opencl/CPUContext.java`, `GlobalFunctions.java`) | latch per call, pool and queue, a thread local per thread | `compute`, `close`, `get_global_id` | any thread calls; pool threads run kernels | each work item once, with its own id, before the return |
| OpenCL on a device (`core/backend/opencl/OpenCLContext.java`) | caches of kernels, device buffers | compile, bind arguments, enqueue, read back | driver | arguments belong to the call; buffers are released |
| Arithmetic (printed by `JSSSAWriter`, `WASMSSAWriter`) with the host library (`core/src/main/resources/runtime.ts`, `runtime.js`) | registers of the compiled program | int and double instructions, calls of `java.lang.Math` | generated code calls the library through an import | the three machines agree where they can, and what differs stays bounded |
| Runtime library (`classlib/java/**`) | ordinary Java objects | collections, strings, numbers, streams | compiled with the program | what the JDK classes promise |
| Exceptions (`classlib/ExceptionRethrower.java`, handler edges) | one static register | save, take, rethrow | generated code | reaches the right handler once |
| Web API, unit test runner, Maven plugin | configuration | glue | browser, JUnit, Maven | |

Hard behaviours, each listed with its line under `hazards` in `PROJECT.json`:

* **order of calls nobody wrote a test for**: allocation, stale or double
  `free`, and collection in every order; class references in cycles; calls of
  `compute` that overlap, are interrupted or meet `close`;
* **state used after it changed**: the sweep frees the block it stands on; the
  inliner uses paths recorded before it deleted nodes; `__label__` keeps older
  values; a thread local outlives its work item; the linker sees classes that are
  half linked;
* **boundaries**: the split threshold of blocks, the words of a block that are
  scanned and wiped, the end of the stack and of memory; ints that overflow in
  numbers that do not wrap, quotients that lose bits in an `f32`;
* **termination**: an optimizer that starts over, a recursion over a cyclic
  graph, a latch that has to reach zero.

## 2. Modules

```
Heap <--refines-- MemoryManager           ControlFlow <--refines-- Relooper
 |                    |                     (Walk)              |
HeapProofs <--- MemoryManagerProofs ---> Induction <--- RelooperProofs
                                          ClassInit --- MCClassInit
ParallelFor <--refines-- CPUContext          |
                          |     |         ClassInitProofs
            CPUContextProofs  MCCPUContext
                                          HostRuntime --- Numbers --- MCNumbers
ReferencedCode <--refines-- Linker                           |
                            |                          NumbersProofs
                        Dispatch --- MCLinker
                            |
                      LinkerProofs ---> Induction
```

Operators whose name ends in `_mutant` are faulty variants of the definition
after them. They are in no specification; replacing the definition by them must
make the property that `PROJECT.json` names fail.

### 2.1 Heap, MemoryManager

`Heap` is what a client of the manager relies on: one region cut into free and
used blocks; `Allocate` takes a free block or the front of one, `Release` gives
one back. Blocks are never joined, as in the code.

`MemoryManager` is the code. A linked list is the sequence of its blocks from
the head on (`free`, `used`); `word` is the content of linear memory, `root`
the slots of the shadow stack in use.

| Action | Code |
|---|---|
| `Init` | `initInternal`: one free block at 28, of the size of the whole memory |
| `NewObject` = `FirstFit`, `Reserve`, wipe, type and vtable words | `newObject`, `malloc` |
| `OutOfMemory` | `Address.unreachable()` at the end of `malloc` |
| `Free` = `InternalFree` | `free`, for any address at all |
| `StartGC`, `SweepBlock`, `SweepTraps` | one turn of the loop in `GC` each; `isUsed` is `OnStack`, `InBlock` and `ScanOverruns` |
| `PutField`, `GetField`, `Forget` | generated code between two calls of the manager |

A collection is split into the turns of its loop so that the state between them
is visible; nothing else happens in between (`cursor = 0` guards everything
else), as there is one thread. `freeMem` and `usedMem` are the sums
`MemoryConserved` is about.

*Data abstraction*: header words are the records of the lists. So a client
that writes into a block's header after it was freed is outside the model; the
generated code writes fields of objects only. The type word holds the
instance's size, which tells the fields of an object. Negative and overflowing
sizes are excluded.

*Platforms*: with `Platform = "jvm"` the manager runs on the JVM as in its unit
tests, where there is no shadow stack to scan. With `"wasm"` there is one, and
`StackTopSkew` is the number of bytes between its first slot and the end of
memory: the bootstrap leaves 1 (`WASMSSACompilerBackend.java:724`), and this is
what `mm_client` uses. With 1 the scan for any block that no stack slot refers to
reads across the end of memory and traps (`ScanOverruns`). So as compiled no
collection frees anything, and that garbage is freed some day is not claimed.
`mm_program` uses 0: what a collection must not do is worth saying of one that does
free blocks.

### 2.2 ControlFlow, Relooper

`ControlFlow` is what compiled code owes to the bytecode: execution is a walk
(`Walk`) along the jumps of the basic blocks. It also generates the methods that
are checked: *every* method of `N` blocks without dead code in which each block
ends with a return, a jump, a conditional jump with fall through, or a switch,
and which is reducible. `javac` emits reducible code only; the relooper throws
on anything else. `ReachableBy` and `IsBackEdge` are the traversal of
`calculateReachabilityAndMarkBackEdges`.

`Relooper` carries such a method through the three phases of the code:

1. *optimize*: `InlineGotoOptimizer`. `InlineGoto` is one inlining with all it
   does to nodes, edges, gotos and the paths; `Optimize` starts over at the
   first node after each. `Inlining` says whether the optimizer runs
   (`KnownOptimizer.ALL`) or not (`NONE`).
2. *replace*: `RelooperStarts` builds the blocks, then `ReplaceGotosIn` visits one block at a time and replaces each
   goto in it by a break or a continue. Handlers of a multiple block are visited
   in any order, since they come from a `HashSet` of objects with identity
   hashes. An exception (no block to jump to) is phase `failed`.
3. *run*: the structured code in execution, as `JSSSAWriter` prints it: labels
   that enclose a block's body or only its expressions, silent breaks at the end
   of a block, the switch over `__label__`. Conditions are abstract: `Step` takes
   any goto of the basic block in execution. Code with a jump to a label that is not
   around it is not executed, since JavaScript refuses it (`IsAccepted`).

A block of the relooper is named by its *place*, the path to it in the tree. The
recursion of `Relooper.reloop` is a set of calls, each with the entries, the nodes
and the place it is made for. `CallsFrom` are the calls one makes, for the inner
block, the handlers or the next block; `Reloop` collects them level by level down to
`StackDepth`, and a recursion beyond it fails, like one that overflows the stack.
Code that went astray has no basic block in execution (`node = None`).

### 2.3 ParallelFor, CPUContext

`ParallelFor` is what `Context.compute` promises: the kernel runs once for every
global id, and the call returns only when it has run for all of them.

`CPUContext` has any number of callers, a fixed pool of threads, the pool's
queue, a latch per call and a thread local per pool thread. A caller's steps are
`Compute` (a negative count throws in the latch's constructor), `Submit`,
`Reject` (closed pool), `Await`, `Return`, `Interrupt`; a pool thread's are
`Take`, then the four statements of the task (`SetGlobalId`, `SetGlobalSize`,
`Process`, `CountDown` in the `finally`). `Close` drops the queue. The pool is
`java.util.concurrent`'s: a new thread per task until it has all its threads,
the queue from then on. A kernel that throws is a kernel that returns: the
`finally` counts down, and nobody looks at the task's `Future`.

### 2.4 ClassInit

The generated check functions of both backends and the bootstrap that calls
them. `stack` holds the checks in execution with the references each has left.
`Bootstrap` calls the next check, `CheckReference` is one call out of a check,
`Initialize` the class's static initialiser and the return, `Throw` the same
with an exception, which ends the bootstrap on both platforms and leaves the
marks behind. References come out of a `HashSet` and the linked classes out of
an unordered graph, so both are visited in any order. The JavaScript bootstrap
leaves out interfaces; `bootstrap` is either set of classes.

### 2.5 ReferencedCode, Linker, Dispatch

`ReferencedCode` is what the repository's README promises under "Dead Code
removal": a search from the entry point over references. `Linker` is the code.
Its methods call each other recursively; `todo` is the stack of that recursion,
one record per activation, so that every state the recursion passes through is
visible to whatever it links on the way.

| Action | Code |
|---|---|
| `FindClass`, `AddClass`, `AddSuper`, `InitializeClass`, `NextInterface`, `AddInterface` | `BytecodeLinkerContext.resolveClass`, in its order: the class is in the graph first, its edges come one by one |
| `FindVirtual`, `NextOfInterfaces`, `OwnMethod` with `AskSuper` | `BytecodeLinkedClass.resolveVirtualMethod`: interfaces, the class, its superclass |
| `PrivateMethod`, `StaticMethod`, `StaticField` | `resolvePrivateMethod`, `resolveStaticMethod`, `resolveStaticField` |
| `Provide`, `NextInstruction` | `resolveMethodSignatureAndBody` and the `performLinking` of each instruction |
| `StartAbstract`, `NextClass`, `NextOfHierarchy`, `NextAbstract`, `Finish` | `resolveAbstractMethodsInSubclasses`, `resolveInheritedAbstractMethods` |

An exception of the linker is phase `failed`. Sets of the code are hash sets of
objects with identity hashes: their elements come in any order.

*Data abstraction*: a program is a record of class files; a method name stands
for a name with a signature; a body is its sequence of references. Left out:
exported methods, instance fields, `invokedynamic` and lambdas, class constants,
arrays, `java.lang.Object` above every class, classes the runtime emulates, and
the methods the backends ask for themselves.

`Dispatch` reads a linked program as the backends do: `resolvedMethods` is the
merge of what a class inherits (`register` and `merge` are
`BytecodeResolvedMethods`, `mergeAll` the loop over the interfaces, in any order,
`OwnMethods` what the class itself provides), `Callable` the entries the backends
generate code for, `PrototypeMethod` what JavaScript's prototype
ends up with, `resolvevtableindex` what a vtable function answers; `JavaMethod` is
the selection the Java machine makes. The dispatch properties name where the code
differs from it: a default method replaces one inherited from a superclass on a
JavaScript prototype, and a vtable function finds an overridden method before its
override when both are linked. They speak of every name and of every class that is no
interface, whether its Java method is its own or inherited, and of methods with a
body (`IsConcrete`) that are linked.

`ReferencesResolve` looks at the linker after each instruction (`Current`, of the body
on top of the stack). What the instruction refers to must be linked then: not any
member of the name, but the one in the class nearest to the class named
(`ProvidersOf`), as far as the edges that are there lead to it. Edges may be missing
(`MissingEdges`) only from within a static initialiser that is being linked: one above
the superclass for the edge to a superclass, one above the class for the edge to an
interface. So the harm half linked classes do is bounded by that initialiser. It is
real: an initialiser that calls a default method which its class has from an interface
gets no such method, since `resolveClass` links it before the interfaces. Failures are
explained by the instruction that failed, the one of the innermost body
(`IsInnermost`); `StaticMethodsAreInherited` is the half of that which a test of the
repository contradicts.

### 2.6 HostRuntime, Numbers

`HostRuntime` has the functions of `runtime.math` on doubles that are points of a
grid, NaN or an infinity. `Numbers` executes one sequence of Java instructions on
three machines at once: Java's, that of the printed JavaScript, and that of the
printed WebAssembly with the host library imported. Each machine keeps its own
registers; `ended` says that one has thrown, trapped, or holds no int any more.

* JavaScript: `+ - *` on doubles without wrapping (rounded beyond 2^53), bit
  operations through 32 bits, `>>>` unsigned, `Math.floor` for division and
  conversions.
* WebAssembly: `i32` arithmetic; division in `f32` with a floor and a trapping
  conversion back; conversions between integer types do nothing; the remainder
  of anything but ints and all of `Math` from the host.

The `round` of the class library is `StrictMath.round(float)`, which returns an int
(`RoundToInt`): in Java 0 for NaN, the nearest int for what lies beyond; in WebAssembly
the host rounds the double and its number becomes an `i32`, modulo 2^32; in JavaScript
it stays a number, or a NaN that is no int. `DoubleMethods` are the methods that
return a double.

The widths are constants: proofs are for any, TLC uses 4 bit ints, doubles exact
to 2^6 and floats exact to 2^2. `long`, `float` and `char` are left out; longs are
printed with the same instructions as ints in WebAssembly, except the remainder,
which calls `$float_remainder` with its integer operands (`WASMSSAWriter.java:1507`).

## 3. What the runs check

Most runs finish with TLC in about a minute, `linker` and `relooper_methods` in less than
three.

| Run | Instance | What it shows |
|---|---|---|
| `mm_client` | 72 bytes, requests of 12 and 20, one slot, any client | `ListsDistinct`, `HeapTiled`, `MemoryConserved`: in any order of allocations, frees of *any* address and collections no byte is lost or handed out twice. `ImplementsHeap`: every step is one of `Heap`. |
| `mm_program` | 84 bytes, three objects of 20 and 24, two slots, compiled code only, GC called again and again | `CursorOnUsedBlock`: a sweep never wanders into the free list. `CollectorKeepsScanned`: nothing the program reaches through scanned words is freed, at any depth. `NoReferenceDangles`: every reference in a slot or a scanned field leads to an object, in memory that was recycled too. `CollectionEnds`: a run of GC ends, though it frees the block it stands on. |
| `mm_referenced` | 56 bytes, JVM | *violated* `CollectorKeepsReferenced`: an object that only the last field of another refers to is freed. |
| `relooper_methods` | all methods of 5 blocks with conditionals and loops, and those with at most one jump backward and a switch of 2 or 3 targets or an exception handler; with and without inlining | `CompilationSucceeds`, `OneBlockPerNode`, `JumpsLand`, `LabelsUnambiguous`, `ImplementsWalk` (the structured code walks the bytecode), `CompilationAdvances` (a variant decreases with every step): multiple blocks with several handlers and code behind them; handler edges, which no jump uses, disturb neither dominance nor jumps. `JumpsLand` leaves out the gotos of finding 3 (`LeadsBack`). |
| `relooper_default_case` | 5 blocks with a switch | *violated* `LabelsInScope`: where two cases go on to common code, and that goes on to where the default case leads, the code continues a block it is not inside of. |
| `relooper_loop_at_start` | 3 blocks, the first one a loop head | *violated* `CompilationSucceeds`: the start node is inlined away. |
| `cpu_context` | two callers, two threads, -1 to 3 streams | `NothingRunsAfterReturn`, `WorkItemSeesItsCall`, `ImplementsParallelFor`, `CallsEnd`. |
| `class_init` | every program of three classes, one an interface, self references and cycles included | `InitializersRunOnce`, `ReferencesAreReady`, `ReadyAfterBootstrap`, `BootstrapEnds`. |
| `linker` | some 3000 programs of four classes, one an interface, in every order of sets | `ReferencesResolve`: after every instruction what it refers to is linked, half linked classes are seen only from within the initialiser that is in the way, and linking fails nowhere but where its comment says. `ImplementsReferencedCode`: nothing else is linked. `JavaScriptCallsJavaMethod`, `WebAssemblyCallsJavaMethod`: a virtual call runs Java's method. `LinkingEnds`. |
| `linker_abstract` | the same | *violated* `AbstractMethodsAreImplemented`: an implementation is missed that is asked for while implementations are looked for. |
| `linker_statics` | the same | *violated* `StaticMethodsAreInherited`: linking fails at a static method that is called through a subclass. |
| `numbers` | every program of three instructions on two int registers and a double | `SafeProgramsAgree`: on common ground (no overflow, operands of one sign, no NaN compared, ...) the machines compute the same. `JSCongruent`, `BitOpsRepair`, `WasmExact`: what holds beyond it. |

Type invariants (`TypeOK`) are checked along, once per component.

**Why the bounds are enough.** In the memory manager a hazard needs at most three
blocks (one freed while the sweep stands on it, its neighbour, one more that
refers to it), a request that splits a block and one that just fails to leave a
header; 72 bytes with requests of 12 and 20 give all of these. Reachability at
depth two needs three objects, hence 84 bytes. In the relooper every kind of
block appears from three nodes on; a loop with a branch in it and something
behind it that two paths reach takes five. A switch with three targets makes
a multiple block with three handlers; with five blocks there is one behind it that two
of them lead to and that may lead to the third (with four there is not, and finding 3
does not show). `WithinBounds` limits the blocks with a switch or an exception handler
to one, and in a method with such a block those with a jump backward to one
(`MaxBackward`), since there are millions of methods otherwise; no method has both a
switch and a handler, no jump leads to a handler (which `javac` makes start with the
exception on the stack), and the targets of a switch, two at least, come after it, as
`javac` places its cases. `StackDepth` is more than any of
these methods needs, or `CompilationSucceeds` would be violated. In `CPUContext` two
callers and two threads with three streams make threads change calls and leave
items queued. Three classes make a cycle with a class hanging on it.
The linker's hazards take a class, a subclass, an interface and code that names
them in an unlucky order; the programs have recursive methods, default methods,
and static initialisers that link the subclass while its superclass is half
linked. Three instructions are enough to overflow, compute on and cut the result
(`MaxSteps`); `JSBound` keeps JavaScript's numbers finite and lies beyond the
point where they are rounded. What these
bounds cannot show is what the proofs are for.

**Deadlock** is checked in the memory manager's runs, which always can go on. The
other programs end: a method returns, all calls of `compute` end, a bootstrap
ends, a program is linked or its linking fails, a computation is over.

**Fairness.**
* `ExecutedSpec` of the memory manager has weak fairness of `Sweep`: the loop of a
  collection that was called goes on, which on one thread is just execution. Nobody
  needs to call `GC`.
* `CPUContext.FairSpec` has weak fairness for each caller and each pool thread: the
  operating system's scheduler, and kernels that end. `Interrupt` and `Close` are
  not fair; nobody has to do them. `CallsEnd` is stated for a context nobody closes:
  `close()` drops queued work items, and their call then waits forever
  (`CPUContext.java:72`).
* `ClassInit.FairSpec` has weak fairness of the one thread there is. A static
  initialiser is assumed to return or to throw.
* `Linker`'s specification has weak fairness of its one thread, for `LinkingEnds`.
* The relooper's termination needs none: `CompilationAdvances` is a variant. That
  the recursion of `reloop` itself ends is checked by `CompilationSucceeds`.

## 4. What is proved

TLAPS checks the following for *all* values of the constants; the number of
obligations is in the hundreds or thousands per module, none of them assumed.

* `HeapProofs.HeapIsTiled`: blocks of the abstract heap are disjoint, inside the
  region, cover each of its addresses, and are never free and used at once. This
  is inductive as it stands. Assumption: header positive, region large enough for
  one.
* `MemoryManagerProofs`: `TypesStayOK`, `ListsStayDistinct`, `HeapStaysTiled`,
  `ManagerImplementsHeap`, `CursorStaysOnUsed`, `CollectorIsSafe`. The argument:
  the lists refine the *sets* of `Heap` only if no block is on them twice; that the
  rest of a block that is cut is new follows in turn from the tiling. So the
  inductive invariant is the conjunction of both (`ListsOK`, and the heap's
  invariant over the lists' ranges). The collector is safe because the blocks it
  keeps when it frees `b` are a set closed under scanned references that does not
  contain `b`, and what is reachable is in every closed set. Assumptions:
  `MemoryAssumption` (sizes are natural numbers, room for a header).
* `MemoryManagerProofs.NoReferenceEverDangles`: no reference dangles, provided the
  program is one the collector can serve (`SafeProgram`): the WebAssembly platform,
  objects of whole words, no reference in the last two words of an object. The last
  condition is not an assumption about the code but the complement of finding 1.
  The inductive invariant (`DInv`) adds to the one above that blocks are word
  aligned, so that the words the loops step through are the fields, and that each
  object fits into its block. A new object has null in its fields because `malloc`
  clears at least the scanned ones; other objects keep theirs because blocks are
  disjoint; what is freed is on no stack slot and in no scanned word.
* `MemoryManagerProofs.MemoryStaysConserved`: what `freeMem` and `usedMem` report adds
  up to the memory the manager was given. `SumOfSizes` is a recursive function over a
  list; what an action does to it (a block put in front of a list, cut in two, or
  taken out of the middle) is a lemma each, by induction over the length. The
  library's induction theorems take an operator; `Induction.SetInduction` states the
  same with a *set* of numbers, which the provers can instantiate, and follows from
  the least element of a well-founded order.
* `CPUContextProofs`: `TypesStayOK`, `ReturnIsFinal`, `WorkItemsSeeTheirCall`,
  `ContextImplementsParallelFor`. The inductive invariant puts each work item at
  one place (not submitted, queued, with one thread, ended) and says that the
  latch plus the number of items that ended is the number of streams
  (`LatchCounts`). A latch at zero then means that all have ended, by the
  cardinality of an interval. Without "at one place" two threads could count
  down for one item.
* `ClassInitProofs`: `TypesStayOK`, `InitializersRunOnlyOnce`,
  `ReferencesAreInitialisedFirst`, `ProgramIsReady`. The inductive invariant:
  classes on the stack are different and not yet initialised, each is reached
  from all below it (`Waits`), and what a check has left behind has run or is on
  the stack (`Pending`). Reachability is "in every set closed under references",
  which needs no induction on paths.

* `NumbersProofs`: `NumbersInvHolds`, `JSIsCongruent`, `BitOpsDoRepair`,
  `WasmIsExact`, for every width. The inductive invariant (`TypedInv`) has the types
  of the registers with it, since what the host rounds becomes an int. `Wrap` is a ring homomorphism (the lemmas on it
  come first), so JavaScript's unwrapped registers stay congruent to Java's, and a
  bit operation, which wraps its operands, gets Java's operands. Assumptions:
  `WidthAssumption`, and `BitAssumption`, that bit operations map ints to ints.
* `NumbersProofs.SafeProgramsDoAgree`: on common ground the three machines agree, for
  every width, argument and length of the program. While a program is safe the
  registers are equal (`Agree`), so each step is one question about functions: a sum
  without overflow needs neither wrapping nor rounding, a quotient of exact operands
  is its floor, Java's remainder is the only number that satisfies its definition,
  Java's `floor` and `ceil` are the only whole numbers in their interval, and so is the
  int nearest to a number, which Java and the host find in different ways. The
  roundings are `CHOOSE`s; on this ground they are never taken. `ArgsAssumption`: int
  arguments are ints, double arguments are doubles.
* `NumbersProofs.TypesStayOK`: the registers of the three machines stay numbers of
  their types. The work is in the roundings, which choose a power of two: there is
  always one that scales a number to the digits of the format, a greater one for a
  large number (`ScaledUp`), a smaller one for a fraction (`ScaledDown`).
  `BoundAssumption`: the bounds are natural numbers.
* `RelooperProofs`: `TypesStayOK`, `CompilationComesToAnEnd`, `NestedLabelsDiffer`,
  for methods of any number of blocks, with and without the optimizer, and whatever
  the depth of the stack.
  * The traversal that marks back edges and the calls of `reloop` are functions defined
    by their value before. That there are such functions is `IterationExists`, by
    `Induction.SetInduction`; from it follow what a walk is without recursion
    (`WalksAre`), what a path is (`PathsAre`), that a path goes on to each successor of
    its node (`PathExtends`, which counts the nodes of the longest walk), and that
    dominance is transitive and antisymmetric.
  * Compilation ends: the target that the optimizer inlines is still a node of the
    graph (`GotosLead`: a goto to a deleted node stands only where no path with a
    remaining node leads), so each step deletes one. What `replaceGotosIn` has still to
    visit are subtrees without a block in common (`Apart`), so a visit takes one block
    out of them for good (`VisitShrinks`), in whatever order handlers come.
  * Labels: no normal edge leads to a node that dominates the one it leaves. The
    traversal makes this true (`GraphInit`), and inlining keeps it (`EdgesGoForward`
    in `InlineKeepsGraph`), because the node that inherits the edges dominated the
    deleted one. So what `reloop` makes inside a block for an entry is dominated by
    the entry and, but for the block of the entry itself, does not have it among its
    entries (`Inside`). This is kept from level to level of the calls (`TreeGrows`)
    and makes the names of nested blocks differ (`Sound`).

  Assumptions: `ControlFlowAssumption`, `RelooperAssumption`, the types of the
  constants.
* `LinkerProofs`: `TypesStayOK`, `OnlyReferencedCodeIsLinked`. The inductive
  invariant justifies the stack: every activation on it is there because some item
  already found refers to what it asks for (or the entry point does). Half linked
  classes are no obstacle, because edges of the graph are edges of the program: what
  the linker sees above a class is a part of what there is. Reachability is again
  "in every closed set". Assumption: `ProgramAssumption`, class files are well formed.
* `LinkerProofs.LinkedCodeDoesResolve`: when linking ends, a member of the name that
  the linked code asks for is linked in the class it names or above it, unless a static
  initialiser is declared above that class; and a program that has none there and calls
  no static method through a subclass never fails to link. This is about the outcome;
  `ReferencesResolve`, which also says which member it is and bounds what happens below
  an initialiser, is checked by TLC. The inductive invariant (`ResolvesInv`) follows the stack and has six
  parts:
  * `CodeHandled`: each instruction of a linked body is still to come, or is found,
    or an activation on the stack serves it: one that asks a class for the member from
    which a declaring class can be reached;
  * `EdgesCome`: a superclass or interface which a linked class lacks is on the stack;
  * `EdgesLead`: edges lead to linked classes, and the class an edge is added to is
    linked or the next to be linked;
  * `IsNested`: above the activations of a half linked class there are only those of
    what is above it in the hierarchy, unless a static initialiser is declared there;
  * `Purposeful`: why an activation is there, which says what kind of method it finds;
  * `EndsWell`: a program that fails has an instruction of the two kinds.

  `EdgesCome`, `EdgesLead` and `IsNested` make re-entrance harmless: when a body or a
  method is looked at, every class that is linked and has no static initialiser above
  it sees its whole hierarchy (`SeesAllAbove`). With an empty stack nothing serves any
  more, so everything is found. The invariant was checked with TLC on several hundred
  programs of the family before it was proved. Assumption: `CompiledAssumption`, code
  refers to members that exist and are of the kind it asks for; it leaves out Java
  programs in which a static method has the name of a method that is called on an
  instance below it. The exceptions are what the code does, not what the proof lacks:
  below a static initialiser the linker does lose members, and a method a superclass
  inherits is not looked for (section 5).
* `LinkerProofs`: `JavaScriptDoesCallJavaMethod`, `WebAssemblyDoesCallJavaMethod`.
  A virtual call of a linked program over the prototype, or over the vtable function,
  runs the method Java selects, for every family of programs. One invariant is added to those of the linker, `ImplementsInterfaces`:
  an edge to an interface is one of the class file. The rest is about the end, when
  `ResolvesInv` gives that every linked class sees all that is above it
  (`DoneSeesAll`), and about the lists the backends work with:
  * `merge` only adds to the end of a list (`MergeAdds`, `MergeAllAdds`). So the list
    of a class begins with the one of its superclass and ends with its own methods
    (`ResolvedParts`).
  * It has exactly the provided methods of the classes above it (`ListsAreComplete`).
    This is by induction over `Depth`, the number of classes above a class: a parent
    has fewer, since nothing is above itself (`ParentsAbove`). The induction is
    `Induction.SetInduction` again; that the recursive function `resolvedMethods` is
    what its equation says is `ResolvedIsRecursive`.
  * The method Java selects is a class's own, or inherited from the superclass, or a
    default method. In each case no other callable method of the name comes after it
    (`SelectedIsLast`, by the same induction): own methods come last, and what the
    interfaces add is concrete only where a default method is, which the property
    excludes. The last one is what stays on the prototype (`PrototypeOfSelected`).
  * Where no other linked method of the name above the class has a body, there is one
    callable entry, hence the first is the last (`OnlyOneCallable`).

  Assumptions: `CompiledAssumption` and `ProgramAssumption` as above, and
  `HierarchyAssumption`, which is what a Java hierarchy is: classes and names are
  finitely many, no class is above itself, only interfaces are implemented and
  they extend only interfaces.

Only model-checked:
* liveness (`CollectionEnds`, `CallsEnd`, `BootstrapEnds`, `LinkingEnds`), which the
  installed provers do not handle;
* `ReferencesResolve`, of which `LinkedCodeDoesResolve` is the part about the outcome;
* `CompilationSucceeds`, `OneBlockPerNode`, `JumpsLand` and the refinement
  `ImplementsWalk` of `Relooper`. They need that what `reloop` makes covers every node
  an entry dominates, once, in an order in which all forward edges lead on. That rests
  on reducibility, and on dominance in the *remaining* graph, which the optimizer
  changes and the code reads off paths recorded before; the induction that relates the
  two has not been found. The runs check them on all methods within the bounds. Finding
  3 limits what there is to prove: `JumpsLand` has its exception, and `ImplementsWalk`
  speaks of the code that JavaScript accepts.

## 5. Findings

Each is the outcome of a violation run, with the trace to be had by running it.

1. `MemoryManager.java:285`: the last two words of a block are never scanned.
2. `InlineGotoOptimizer.java:63` with `RegionNode.java:98`: a start node that is
   the head of a loop is inlined into the end of the loop, and compilation fails.
3. `Relooper.java:286`: a goto is replaced by a `continue` of any block on the traversal
   stack, but a multiple block is not around the code that comes next to it. JavaScript
   refuses the label. A switch does it whose cases `f(); break;` and `g(); break;` go on
   to `h()`, while the default case skips `h()`; with the optimizer the switch has to
   come after a place where paths join, or its cases are inlined.
4. `BytecodeLinkerContext.java:138`: an implementation of an abstract method that is
   first called from code linked during the pass over abstract methods is left out.
5. `BytecodeLinkedClass.java:327`: a static method called through a subclass is looked
   for in the superclass as a virtual one, and the static method it finds there ends
   linking (`:236`). `StaticInheritanceTest.java:43` expects such a call to return 42.

Seen in the models, without a run of their own: `malloc` clears 8 bytes less than
the data (`MemoryManager.java:235`; the model has the code's loop, and
`NoReferenceDangles` speaks of the other fields); the heap is given the whole
memory, stack included (`:55`); the stack scan crosses the end of memory
(`:267`, action `SweepTraps`); a method that overrides a concrete one is not linked by a
call through the superclass (`BytecodeLinkedClass.java:217`), though
`VirtualMethodTest.testVirtualInvocation` makes no other call and expects the
override's result; a method that `super.m()` asks a superclass for and that
this one inherits is not linked (`BytecodeLinkedClass.java:278`: `resolvePrivateMethod`
looks into the class alone and returns `false`, which nobody reads); both backends round the quotient of ints down
where Java rounds towards zero (`JSSSAWriter.java:287`, `WASMSSAWriter.java:1013`).

## 6. Not modelled

* The text the backends print, apart from labels, jumps, checks, bootstrap and
  arithmetic.
* Exceptions on WebAssembly, which are traps there.
* The class file parser, the SSA generator beyond gotos and arithmetic, object
  layout, shadow stack frames, the Java runtime library: see the plan.
* In the linker: exported methods, instance fields, `invokedynamic`, class constants,
  arrays. The dispatch properties speak of methods that are linked.
* `InvokeVirtualOptimizer`: it binds a call to the only class that has the method linked;
  whether that is the right one is decided by what is linked.
* OpenCL on a device: its state is a driver's, outside the repository. Overlapping
  calls of `compute` on one `OpenCLContext` share its cached kernels' arguments
  (`OpenCLContext.java:241`).
* `libwabt.js`: vendored and generated.
* The web API, the unit test runner and the Maven plugin: glue around a browser,
  JUnit and Maven, with no state of their own.
* OpenCL vector types: arithmetic on floats.
* What a static initialiser does. Calls of static methods are not static references
  (`Program.java:115-157`), so an initialiser may meet a class that is not
  initialised; no document says it may not.

## 7. Plan

Done: 1 to 6. The order is by how much of the system's behaviour depends on it.

1. `Heap`, `MemoryManager` and their proofs.
2. `ControlFlow`, `Relooper`.
3. `ParallelFor`, `CPUContext` and proofs.
4. `ClassInit` and proofs.
5. `ReferencedCode`, `Linker`, `Dispatch` and proofs.
6. `HostRuntime`, `Numbers` and proofs.
7. `ShadowStack`: stack enter and exit, saved variables, traps, globals as roots,
   composed with `MemoryManager`; abstract specification: what a frame in execution
   refers to is a root. Nothing in the repository calls `GC` while compiled code is
   in execution, except a host function that the program imports; so this comes after
   a run time that does.
8. Linker and class initialisation in one run: link, optimize, start; with the
   bodies of static initialisers.
9. `SSA`: abstract execution of bytecode per basic block, PHIs and the widening of
   types; the paths' agreement on every merge, and termination of the propagation.
10. `Peephole`: the remaining optimizers as rewrites of an expression list, refining
    the evaluation of the list.
11. `Collections`: `THashMap`, `TArrayList`, `TStringBuilder` against functions and
    sequences; parsing and formatting at the limits of 32 bits.
12. `ClassFile`: basic blocks of a program, signatures, constant pool indices.
13. Proofs: that the relooper's blocks cover the graph, and with it that the
    structured code walks the bytecode's jumps; shadow stack roots and their composition with the collector.
