----------------------------- MODULE HeapProofs -----------------------------
(***************************************************************************)
(* The blocks of the heap tile its region in every reachable state, for    *)
(* every region, header size and set of requests.  The invariant is        *)
(* inductive together with the types: cutting a block replaces it by two   *)
(* that occupy exactly its addresses, releasing one moves it.              *)
(***************************************************************************)
EXTENDS Heap, TLAPS

Inv == TypeOK /\ Tiled

LEMMA InitInv == HeapAssumption /\ Init => Inv
<1> SUFFICES ASSUME HeapAssumption, Init PROVE Inv
  OBVIOUS
<1> USE DEF Init, HeapAssumption
<1>1. TypeOK
  BY DEF TypeOK, Block
<1>2. BlocksDisjoint
  BY DEF BlocksDisjoint
<1>3. RegionCovered
  BY DEF RegionCovered, Extent
<1>4. BlocksInRegion
  BY DEF BlocksInRegion
<1>5. NeverBoth
  BY DEF NeverBoth
<1> QED
  BY <1>1, <1>2, <1>3, <1>4, <1>5 DEF Inv, Tiled

(* Cutting k bytes off the free block b keeps the tiling. *)
LEMMA CutInv ==
  ASSUME HeapAssumption, Inv, NEW b \in free, NEW k \in Int,
         Header <= k, k <= b.size,
         k = b.size \/ b.size - k >= Header,
         Cut(b, k)
  PROVE  Inv'
<1> DEFINE head == [start |-> b.start, size |-> k]
           tail == [start |-> b.start + k, size |-> b.size - k]
           rest == (free \union used) \ {b}
<1> USE DEF HeapAssumption
<1>1. /\ b \in Block
      /\ b.start \in Nat /\ b.size \in Nat
      /\ b = [start |-> b.start, size |-> b.size]
      /\ b \notin used
  BY DEF Inv, TypeOK, Block, Tiled, NeverBoth
<1>2. /\ used' = used \union {head}
      /\ free' = (free \ {b}) \union {t \in {tail} : k # b.size}
  BY DEF Cut
<1>3. head \in Block /\ (k # b.size => tail \in Block)
  BY <1>1 DEF Block
<1>4. TypeOK'
  BY <1>2, <1>3 DEF Inv, TypeOK
<1>5. /\ free' \union used' = rest \union {head} \union {t \in {tail} : k # b.size}
      /\ rest \subseteq Block
  BY <1>1, <1>2 DEF Inv, TypeOK
<1>6. \A c \in rest : \/ b.start + b.size <= c.start
                      \/ c.start + c.size <= b.start
  BY DEF Inv, Tiled, BlocksDisjoint
<1>7. \A c \in rest : /\ c.start \in Nat /\ c.size \in Nat
                      /\ c.size >= Header
  BY <1>5 DEF Inv, Tiled, BlocksInRegion, Block
<1>8. BlocksDisjoint'
  <2> SUFFICES ASSUME NEW c \in free' \union used', NEW d \in free' \union used',
                      c # d
               PROVE  \/ c.start + c.size <= d.start
                      \/ d.start + d.size <= c.start
    BY DEF BlocksDisjoint
  <2>1. CASE c \in rest /\ d \in rest
    BY <2>1 DEF Inv, Tiled, BlocksDisjoint
  <2>2. CASE c \in rest /\ d = head
    BY <2>2, <1>1, <1>6, <1>7
  <2>3. CASE c \in rest /\ d = tail
    BY <2>3, <1>1, <1>6, <1>7
  <2>4. CASE c = head /\ d \in rest
    BY <2>4, <1>1, <1>6, <1>7
  <2>5. CASE c = tail /\ d \in rest
    BY <2>5, <1>1, <1>6, <1>7
  <2>6. CASE {c, d} \subseteq {head, tail}
    BY <2>6, <1>1
  <2> QED
    BY <1>5, <2>1, <2>2, <2>3, <2>4, <2>5, <2>6
<1>9. RegionCovered'
  <2> SUFFICES ASSUME NEW a \in First .. First + Size - 1
               PROVE  \E c \in free' \union used' : a \in Extent(c)
    BY DEF RegionCovered
  <2>1. PICK c \in free \union used : a \in Extent(c)
    BY DEF Inv, Tiled, RegionCovered
  <2>2. CASE c # b
    BY <2>1, <2>2, <1>5
  <2>3. CASE c = b /\ a < b.start + k
    <3>1. a \in Extent(head)
      BY <2>1, <2>3, <1>1 DEF Extent
    <3> QED
      BY <3>1, <1>5
  <2>4. CASE c = b /\ a >= b.start + k
    <3>1. k # b.size /\ a \in Extent(tail)
      BY <2>1, <2>4, <1>1 DEF Extent
    <3> QED
      BY <3>1, <1>5
  <2> QED
    BY <2>1, <2>2, <2>3, <2>4, <1>1 DEF Extent
<1>10. BlocksInRegion'
  <2>1. First <= b.start /\ b.start + b.size <= First + Size
    BY DEF Inv, Tiled, BlocksInRegion
  <2> SUFFICES ASSUME NEW c \in free' \union used'
               PROVE  /\ c.size >= Header
                      /\ First <= c.start
                      /\ c.start + c.size <= First + Size
    BY DEF BlocksInRegion
  <2>2. CASE c \in rest
    BY <2>2 DEF Inv, Tiled, BlocksInRegion
  <2>3. CASE c = head
    BY <2>1, <2>3, <1>1
  <2>4. CASE c = tail /\ k # b.size
    BY <2>1, <2>4, <1>1
  <2> QED
    BY <1>5, <2>2, <2>3, <2>4
<1>11. NeverBoth'
  <2>1. head \notin free \ {b}
    BY <1>1, <1>5, <1>6, <1>7
  <2>2. tail \notin used
    BY <1>1, <1>5, <1>6, <1>7
  <2>3. tail # head
    BY <1>1
  <2> QED
    BY <1>2, <2>1, <2>2, <2>3 DEF Inv, Tiled, NeverBoth
<1> QED
  BY <1>4, <1>8, <1>9, <1>10, <1>11 DEF Inv, Tiled

LEMMA NextInv == HeapAssumption /\ Inv /\ [Next]_heapVars => Inv'
<1> SUFFICES ASSUME HeapAssumption, Inv, [Next]_heapVars PROVE Inv'
  OBVIOUS
<1>1. ASSUME NEW n \in Requests, Allocate(n) PROVE Inv'
  <2>0. PICK b \in free : \E k \in n + Header .. b.size :
          /\ k = b.size \/ b.size - k >= Header
          /\ Cut(b, k)
    BY <1>1 DEF Allocate
  <2>1. PICK k \in n + Header .. b.size :
          /\ k = b.size \/ b.size - k >= Header
          /\ Cut(b, k)
    BY <2>0
  <2>2. k \in Int /\ Header <= k /\ k <= b.size
    BY DEF HeapAssumption, Inv, TypeOK, Block
  <2> QED
    BY <2>1, <2>2, CutInv
<1>2. ASSUME NEW b \in used, Release(b) PROVE Inv'
  <2>1. free' \union used' = free \union used
    BY <1>2 DEF Release
  <2>2. (free \intersect used = {}) => (free' \intersect used' = {})
    BY <1>2 DEF Release
  <2> QED
    BY <2>1, <2>2 DEF Inv, TypeOK, Tiled, BlocksDisjoint, RegionCovered,
                      BlocksInRegion, NeverBoth
<1>3. CASE UNCHANGED heapVars
  BY <1>3 DEF heapVars, Inv, TypeOK, Tiled, BlocksDisjoint, RegionCovered,
              BlocksInRegion, NeverBoth
<1> QED
  BY <1>1, <1>2, <1>3 DEF Next

(* Whatever clients ask for and give back, the free and the used blocks    *)
(* are disjoint and together cover the region: an allocation never hands   *)
(* out an address twice, and no address is ever lost.                      *)
THEOREM HeapIsTiled == ASSUME HeapAssumption PROVE Spec => []Tiled
<1>1. Inv => Tiled
  BY DEF Inv
<1>2. Init => Inv
  BY InitInv
<1>3. Inv /\ [Next]_heapVars => Inv'
  BY NextInv
<1> QED
  BY <1>1, <1>2, <1>3, PTL DEF Spec

=============================================================================
