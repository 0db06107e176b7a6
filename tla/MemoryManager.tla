--------------------------- MODULE MemoryManager ---------------------------
(***************************************************************************)
(* The heap of a compiled program: de.mirkosertic.bytecoder.classlib.      *)
(* MemoryManager, which Bytecoder compiles into every WebAssembly module   *)
(* and which its unit tests run on the JVM.                                *)
(*                                                                         *)
(* The manager keeps two singly linked lists of blocks, free and used; a   *)
(* block is a header of two words (size, next) followed by its data.  Here *)
(* a list is the sequence of its blocks from the list head on, and "word"  *)
(* holds the data words.  The garbage collector is a loop over the used    *)
(* list: "cursor" is its loop variable, 0 while no collection runs, so     *)
(* that the state after each of its turns is visible.  The collector runs  *)
(* to its end before the program goes on (there is one thread).            *)
(*                                                                         *)
(* The program is the environment: it holds references in the slots of its *)
(* shadow stack and in the fields of its objects.                          *)
(*                                                                         *)
(* A definition whose name ends in "_mutant" is a faulty variant of the    *)
(* one that follows it; it is used only to test that the properties would  *)
(* notice the fault.                                                       *)
(***************************************************************************)
EXTENDS Integers, Sequences, SequencesExt

CONSTANTS
  MemorySize,    (* bytes of linear memory, a multiple of the word size     *)
  RequestSizes,  (* instance sizes of the program's types, in bytes         *)
  FieldOffsets,  (* offsets of the fields the program accesses              *)
  Slots,         (* slots of the shadow stack frames in use                 *)
  Platform,      (* "wasm", or "jvm" for the unit tests on the JVM          *)
  StackTopSkew   (* bytes the bootstrap leaves between the first stack slot *)
                 (* and the end of memory; the WebAssembly backend leaves 1 *)

Word == 4
HeaderSize == 2 * Word      (* size and next                                *)
FirstBlock == 28            (* address of the first block                   *)
FirstField == 2 * Word      (* an object starts with its type and vtable    *)

ASSUME MemoryAssumption ==
  /\ MemorySize \in Nat
  /\ MemorySize >= HeaderSize
  /\ RequestSizes \subseteq Nat
  /\ Platform \in {"wasm", "jvm"}
  /\ StackTopSkew \in Nat

VARIABLES
  free,      (* the free list                                              *)
  used,      (* the list of reserved blocks                                *)
  word,      (* the content of every word of the region                    *)
  root,      (* the content of every stack slot                            *)
  cursor,    (* start of the block the collection looks at next, or 0      *)
  trapped    (* the last call ended in a trap                              *)

vars == <<free, used, word, root, cursor, trapped>>

Null == 0

Block == [start: Nat, size: Nat]
Address == {FirstBlock + Word * i : i \in 0 .. (MemorySize \div Word) - 1}

DataOf(b) == b.start + HeaderSize
BlockEnd(b) == b.start + b.size

-----------------------------------------------------------------------------
(* initInternal: one free block of the size of the whole memory, nothing   *)
(* reserved.  A fresh linear memory is zero.                               *)
Init ==
  /\ free = << [start |-> FirstBlock, size |-> MemorySize] >>
  /\ used = << >>
  /\ word = [a \in Address |-> 0]
  /\ root = [s \in Slots |-> Null]
  /\ cursor = 0
  /\ trapped = FALSE

(* The bytes a request for n takes from the heap. *)
Need_mutant(n) == n
Need(n) == n + HeaderSize

Fits(i, need) == free[i].size >= need

(* The first block of the free list that is large enough. *)
FirstFit(i, need) ==
  /\ i \in DOMAIN free
  /\ Fits(i, need)
  /\ \A j \in DOMAIN free : j < i => ~Fits(j, need)

(* A block is cut only if more than a header is left of it. *)
Splits(b, need) == b.size - need > HeaderSize

(* The bytes malloc sets to zero, counted from the start of the data, when *)
(* it serves a request for n bytes: its loop runs to aSize - 16, and aSize *)
(* includes the header by then.                                            *)
WipedBytes_mutant(n) == n - 16
WipedBytes(n) == Need(n) - 16

Wiped(b, n) ==
  {a \in Address : DataOf(b) <= a /\ a < DataOf(b) + WipedBytes(n)}

Reserve_mutant(i, need) ==
  LET b == free[i]
      tail == [start |-> b.start + need, size |-> b.size - need - need]
  IN  /\ free' = IF Splits(b, need) THEN [free EXCEPT ![i] = tail]
                                   ELSE RemoveAt(free, i)
      /\ used' = << [start |-> b.start, size |-> need] >> \o used

(* malloc on the free block at position i, up to the wipe. *)
Reserve(i, need) ==
  LET b    == free[i]
      tail == [start |-> b.start + need, size |-> b.size - need]
  IN  IF Splits(b, need)
      THEN /\ free' = [free EXCEPT ![i] = tail]
           /\ used' = << [start |-> b.start, size |-> need] >> \o used
      ELSE /\ free' = RemoveAt(free, i)
           /\ used' = << b >> \o used

(* newObject(n, type, vtable), its result put into slot s.  The type word  *)
(* holds the instance size, which stands for the type; it is never the     *)
(* address of an object.                                                   *)
NewObject(s, n) ==
  /\ cursor = 0
  /\ \E i \in DOMAIN free :
       LET data == DataOf(free[i]) IN
       /\ FirstFit(i, Need(n))
       /\ Reserve(i, Need(n))
       /\ word' = [a \in Address |->
                     IF a = data THEN n
                     ELSE IF a = data + Word THEN 0
                     ELSE IF a \in Wiped(free[i], n) THEN 0
                     ELSE word[a]]
       /\ root' = [root EXCEPT ![s] = data]
  /\ trapped' = FALSE
  /\ UNCHANGED cursor

(* malloc finds no block: Address.unreachable(). *)
OutOfMemory(n) ==
  /\ cursor = 0
  /\ \A i \in DOMAIN free : ~Fits(i, Need(n))
  /\ trapped' = TRUE
  /\ UNCHANGED <<free, used, word, root, cursor>>

-----------------------------------------------------------------------------
InternalFree_mutant(a) ==
  \/ \E i \in DOMAIN used :
       /\ used[i].start = a
       /\ free' = << used[i] >> \o free
       /\ used' = IF i = 1 THEN used ELSE RemoveAt(used, i)
  \/ /\ \A i \in DOMAIN used : used[i].start # a
     /\ UNCHANGED <<free, used>>

(* internalFree: the block that starts at address a moves from the used    *)
(* list to the head of the free list; nothing happens if there is none.    *)
InternalFree(a) ==
  \/ \E i \in DOMAIN used :
       /\ used[i].start = a
       /\ free' = << used[i] >> \o free
       /\ used' = RemoveAt(used, i)
  \/ /\ \A i \in DOMAIN used : used[i].start # a
     /\ UNCHANGED <<free, used>>

(* free(a), for whatever address a client passes. *)
Free(a) ==
  /\ cursor = 0
  /\ InternalFree(a - HeaderSize)
  /\ trapped' = FALSE
  /\ UNCHANGED <<word, root, cursor>>

-----------------------------------------------------------------------------
(* The collector.  isUsed looks at the stack slots, then at the words of   *)
(* every other used block from the data on, up to HeaderSize bytes before  *)
(* the end of the block.                                                   *)
ScannedWords(b) ==
  {a \in Address : DataOf(b) <= a /\ a < BlockEnd(b) - HeaderSize}

OnStack(b) ==
  /\ Platform = "wasm"
  /\ \E s \in Slots : root[s] = DataOf(b)

InBlock_mutant(b) ==
  \E i, j \in DOMAIN used :
    /\ i < j /\ used[i].start = b.start
    /\ \E a \in ScannedWords(used[j]) : word[a] = DataOf(b)
InBlock(b) ==
  \E i \in DOMAIN used :
    /\ used[i].start # b.start
    /\ \E a \in ScannedWords(used[i]) : word[a] = DataOf(b)

IsUsed(b) == OnStack(b) \/ InBlock(b)

(* The stack scan steps from the stack top in whole words as long as it is *)
(* below the end of memory.  A first slot that is not word aligned with    *)
(* the end makes the last load reach across the end: a trap, unless the    *)
(* scan found the block before.                                            *)
ScanOverruns(b) ==
  /\ Platform = "wasm"
  /\ StackTopSkew % Word # 0
  /\ ~OnStack(b)

StartGC ==
  /\ cursor = 0
  /\ used # << >>
  /\ cursor' = used[1].start
  /\ trapped' = FALSE
  /\ UNCHANGED <<free, used, word, root>>

\* Mutant: the loop goes on only behind a block that it gives back.
NextOf_mutant(i) ==
  IF IsUsed(used[i]) THEN used[i].start
  ELSE IF i = Len(used) THEN 0 ELSE used[i + 1].start
(* The start of the block after position i of the used list, 0 at its end. *)
NextOf(i) == IF i = Len(used) THEN 0 ELSE used[i + 1].start

SweepBlock_mutant ==
  \E i \in DOMAIN used :
    /\ used[i].start = cursor
    /\ ~ScanOverruns(used[i])
    /\ IF IsUsed(used[i]) THEN UNCHANGED <<free, used>> ELSE InternalFree(cursor)
    /\ cursor' = IF IsUsed(used[i]) THEN NextOf(i)
                 ELSE IF free = << >> THEN 0 ELSE free[1].start
    /\ UNCHANGED <<word, root, trapped>>

(* One turn of the loop in GC: the successor is read before the block is   *)
(* given back.                                                             *)
SweepBlock ==
  \E i \in DOMAIN used :
    /\ used[i].start = cursor
    /\ ~ScanOverruns(used[i])
    /\ cursor' = NextOf(i)
    /\ IF IsUsed(used[i]) THEN UNCHANGED <<free, used>>
                          ELSE InternalFree(cursor)
    /\ UNCHANGED <<word, root, trapped>>

SweepTraps ==
  \E i \in DOMAIN used :
    /\ used[i].start = cursor
    /\ ScanOverruns(used[i])
    /\ cursor' = 0
    /\ trapped' = TRUE
    /\ UNCHANGED <<free, used, word, root>>

-----------------------------------------------------------------------------
(* The running program, between two calls of the manager. *)

(* The fields of the object in slot s, by the size its type gives it. *)
FieldsOf(s) ==
  {a \in Address : /\ a - root[s] \in FieldOffsets
                   /\ FirstField <= a - root[s]
                   /\ a - root[s] < word[root[s]]}

PutField(s, a, t) ==
  /\ cursor = 0
  /\ a \in FieldsOf(s)
  /\ word' = [word EXCEPT ![a] = root[t]]
  /\ UNCHANGED <<free, used, root, cursor, trapped>>

GetField(s, a, t) ==
  /\ cursor = 0
  /\ a \in FieldsOf(s)
  /\ root' = [root EXCEPT ![t] = word[a]]
  /\ UNCHANGED <<free, used, word, cursor, trapped>>

Forget(s) ==
  /\ cursor = 0
  /\ root' = [root EXCEPT ![s] = Null]
  /\ UNCHANGED <<free, used, word, cursor, trapped>>

-----------------------------------------------------------------------------
Mutate ==
  \E s \in Slots :
    \/ Forget(s)
    \/ /\ root[s] # Null
       /\ \E a \in FieldsOf(s), t \in Slots : PutField(s, a, t) \/ GetField(s, a, t)

Sweep == SweepBlock \/ SweepTraps
Collect == StartGC \/ Sweep

(* What compiled code does: it never calls free. *)
ProgramNext ==
  \/ \E s \in Slots, n \in RequestSizes : NewObject(s, n)
  \/ \E n \in RequestSizes : OutOfMemory(n)
  \/ Mutate
  \/ Collect

(* Any client of the exported functions, free included. *)
Next ==
  \/ ProgramNext
  \/ \E a \in Address : Free(a)

Spec == Init /\ [][Next]_vars
ProgramSpec == Init /\ [][ProgramNext]_vars

(* The one thread goes on with the loop of a collection once it is called. *)
ExecutedSpec == ProgramSpec /\ WF_vars(Sweep)

-----------------------------------------------------------------------------
TypeOK ==
  /\ free \in Seq(Block)
  /\ used \in Seq(Block)
  /\ word \in [Address -> Nat]
  /\ root \in [Slots -> Nat]
  /\ cursor \in Nat
  /\ trapped \in BOOLEAN

(* No block is twice on the lists: not on both of them, not twice on one.  *)
(* A block lost to this would be handed out to two objects.                *)
ListsDistinct ==
  /\ IsInjective(free)
  /\ IsInjective(used)
  /\ Range(free) \intersect Range(used) = {}

(* What the manager implements: its lists, read as sets, are the heap. *)
H == INSTANCE Heap WITH
       First <- FirstBlock, Size <- MemorySize, Header <- HeaderSize,
       Requests <- RequestSizes, free <- Range(free), used <- Range(used)

(* Every step of the lists is an allocation, a release or nothing to the   *)
(* heap they stand for.                                                    *)
ImplementsHeap == H!Spec

(* The blocks of the two lists tile the region they were cut from.         *)
HeapTiled == H!Tiled

(* freeMem() + usedMem() is the memory initInternal was given, whatever    *)
(* was allocated, freed and collected: what every unit test asserts after  *)
(* each of its calls.                                                      *)
SumOfSizes(list) ==
  LET theResult[i \in 0 .. Len(list)] ==
        IF i = 0 THEN 0 ELSE theResult[i - 1] + list[i].size
  IN  theResult[Len(list)]

FreeMem == SumOfSizes(free)
UsedMem == SumOfSizes(used)
MemoryConserved == FreeMem + UsedMem = MemorySize

(* A collection stands on a used block or is over: it never wanders off    *)
(* into the free list when the block it looks at is given back.            *)
CursorOnUsedBlock ==
  cursor # 0 => \E i \in DOMAIN used : used[i].start = cursor

-----------------------------------------------------------------------------
(* A set of used blocks is closed if it has every block the stack refers   *)
(* to, and every block that a scanned word of one of its blocks refers to. *)
Closed(S) ==
  \A c \in Range(used) :
    \/ OnStack(c)
    \/ \E d \in S : \E a \in ScannedWords(d) : word[a] = DataOf(c)
    => c \in S

(* The blocks the program gets to from the stack through scanned words.    *)
Reachable ==
  {b \in Range(used) : \A S \in SUBSET Range(used) : Closed(S) => b \in S}

FieldWords(b) ==
  {a \in Address : /\ a >= DataOf(b) + FirstField
                   /\ a < DataOf(b) + word[DataOf(b)]}

Freed == Range(used) \ Range(used')

(* A collection gives back no block that the program can get to through    *)
(* words the collector scans, at whatever depth and in whatever order the  *)
(* used list has the objects.                                              *)
CollectorKeepsScanned ==
  [][cursor # 0 => Freed \intersect Reachable = {}]_vars

(* A collection gives back no block that a field of another used block     *)
(* refers to, whichever field that is (WASM.md:12, a garbage collector).   *)
(* The code does not look at the last two words of a block.                *)
CollectorKeepsReferenced ==
  [][cursor # 0 =>
       \A b \in Freed : \A c \in Range(used) \ {b} :
         \A a \in FieldWords(c) : word[a] # DataOf(b)]_vars

(* A call of GC comes to its end, or traps, though the list it steps       *)
(* through loses blocks under it, the one it stands on among them.         *)
CollectionEnds == (cursor # 0) ~> (cursor = 0)

(* The fields of a block's object but for those in its last two words,     *)
(* which malloc does not clear and the collector does not scan.            *)
SafeFields(b) ==
  {a \in Address : /\ DataOf(b) + FirstField <= a
                   /\ a < DataOf(b) + word[DataOf(b)] - 8}

(* No reference dangles: a stack slot or such a field holds null or an     *)
(* object that has its block, though objects are collected and their       *)
(* memory is handed out again with whatever its last owner left there.     *)
NoReferenceDangles ==
  \A d \in Range(root) \union {word[a] : a \in UNION {SafeFields(b) : b \in Range(used)}} :
    d # Null => \E b \in Range(used) : DataOf(b) = d

=============================================================================
