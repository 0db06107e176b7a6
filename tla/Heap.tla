-------------------------------- MODULE Heap --------------------------------
(***************************************************************************)
(* What Bytecoder's memory manager promises its clients, whatever its      *)
(* lists look like: one contiguous region is at every moment cut into      *)
(* blocks, each of them either free or used.  Allocate takes a free block, *)
(* or the head of one, that has room for the request and the block header; *)
(* Release gives a used block back.  Blocks are cut and never joined.      *)
(***************************************************************************)
EXTENDS Integers

CONSTANTS
  First,    (* address of the first block                                  *)
  Size,     (* bytes in the region                                         *)
  Header,   (* bytes every block spends on its header                      *)
  Requests  (* the sizes a client may ask for                              *)

(* What the values of the constants have to satisfy. *)
HeapAssumption ==
  /\ First \in Nat
  /\ Header \in Nat \ {0}
  /\ Size \in Nat
  /\ Size >= Header
  /\ Requests \subseteq Nat

VARIABLES
  free,     (* the set of free blocks                                      *)
  used      (* the set of used (reserved) blocks                           *)

heapVars == <<free, used>>

Block == [start: Nat, size: Nat]

(* The addresses a block occupies, its header included. *)
Extent(b) == b.start .. b.start + b.size - 1

Init ==
  /\ free = {[start |-> First, size |-> Size]}
  /\ used = {}

(* A block of k bytes is cut off the front of the free block b. *)
Cut(b, k) ==
  /\ used' = used \union {[start |-> b.start, size |-> k]}
  /\ free' = (free \ {b}) \union
             {t \in {[start |-> b.start + k, size |-> b.size - k]} : k # b.size}

Allocate(n) ==
  \E b \in free : \E k \in n + Header .. b.size :
    /\ k = b.size \/ b.size - k >= Header
    /\ Cut(b, k)

Release(b) ==
  /\ b \in used
  /\ used' = used \ {b}
  /\ free' = free \union {b}

Next ==
  \/ \E n \in Requests : Allocate(n)
  \/ \E b \in used : Release(b)

Spec == Init /\ [][Next]_heapVars

-----------------------------------------------------------------------------

TypeOK ==
  /\ free \subseteq Block
  /\ used \subseteq Block

(* Two different blocks never share an address. *)
BlocksDisjoint ==
  \A b, c \in free \union used :
    b # c => \/ b.start + b.size <= c.start
             \/ c.start + c.size <= b.start

(* Every address of the region lies in some block: none is ever lost. *)
RegionCovered ==
  \A a \in First .. First + Size - 1 :
    \E b \in free \union used : a \in Extent(b)

(* Every block has room for its header and stays inside the region. *)
BlocksInRegion ==
  \A b \in free \union used :
    /\ b.size >= Header
    /\ First <= b.start
    /\ b.start + b.size <= First + Size

(* A block is never free and used at the same time. *)
NeverBoth == free \intersect used = {}

(* The blocks tile the region: no address is lost, and none is given out   *)
(* twice.                                                                  *)
Tiled == BlocksDisjoint /\ RegionCovered /\ BlocksInRegion /\ NeverBoth

=============================================================================
