------------------------- MODULE MemoryManagerProofs -------------------------
(***************************************************************************)
(* The memory manager implements the heap: for every memory size, every    *)
(* set of requests and every program, on both platforms.                   *)
(*                                                                         *)
(* The lists refine the sets of blocks only if no block is on them twice,  *)
(* and that in turn needs the tiling of the heap: the rest of a block that *)
(* is cut is a new element of the free list because it lies where no other *)
(* block lies.  So the inductive invariant has both parts.                 *)
(***************************************************************************)
EXTENDS MemoryManager, Induction, SequenceTheorems, TLAPS

HP == INSTANCE HeapProofs WITH
        First <- FirstBlock, Size <- MemorySize, Header <- HeaderSize,
        Requests <- RequestSizes, free <- Range(free), used <- Range(used)

-----------------------------------------------------------------------------
(* Lists without duplicates, read as sets.                                 *)

LEMMA RemoveAtElements ==
  ASSUME NEW S, NEW seq \in Seq(S), NEW i \in DOMAIN seq
  PROVE  /\ RemoveAt(seq, i) \in Seq(S)
         /\ Len(RemoveAt(seq, i)) = Len(seq) - 1
         /\ \A j \in 1 .. Len(seq) - 1 :
              RemoveAt(seq, i)[j] = IF j < i THEN seq[j] ELSE seq[j + 1]
<1>1. i \in 1 .. Len(seq) /\ Len(seq) \in Nat
  OBVIOUS
<1> DEFINE before == SubSeq(seq, 1, i - 1)
           after  == SubSeq(seq, i + 1, Len(seq))
<1>2. /\ before \in Seq(S)
      /\ Len(before) = i - 1
      /\ \A j \in 1 .. i - 1 : before[j] = seq[j]
  BY <1>1, SubSeqProperties
<1>3. /\ after \in Seq(S)
      /\ Len(after) = Len(seq) - i
      /\ \A j \in 1 .. Len(seq) - i : after[j] = seq[j + i]
  BY <1>1, SubSeqProperties
<1>4. /\ before \o after \in Seq(S)
      /\ Len(before \o after) = Len(before) + Len(after)
      /\ \A j \in 1 .. Len(before) + Len(after) :
           (before \o after)[j] = IF j <= Len(before) THEN before[j]
                                  ELSE after[j - Len(before)]
  BY <1>2, <1>3, ConcatProperties
<1>5. RemoveAt(seq, i) = before \o after
  BY DEF RemoveAt
<1> DEFINE rest == before \o after
<1>6. rest \in Seq(S) /\ Len(rest) = Len(before) + Len(after)
  BY <1>4
<1>7. \A j \in 1 .. Len(before) + Len(after) :
        rest[j] = IF j <= Len(before) THEN before[j] ELSE after[j - Len(before)]
  BY <1>4
<1> HIDE DEF before, after, rest
<1>8. Len(rest) = Len(seq) - 1 /\ Len(before) = i - 1
  BY <1>1, <1>2, <1>3, <1>6
<1>9. ASSUME NEW j \in 1 .. Len(seq) - 1
      PROVE  rest[j] = IF j < i THEN before[j] ELSE after[j - (i - 1)]
  BY <1>1, <1>6, <1>7, <1>8
<1>10. ASSUME NEW j \in 1 .. Len(seq) - 1
      PROVE  rest[j] = IF j < i THEN seq[j] ELSE seq[j + 1]
  <2>1. CASE j < i
    <3>1. j \in 1 .. i - 1
      BY <1>1, <2>1
    <3>2. before[j] = seq[j]
      BY <1>2, <3>1
    <3>3. rest[j] = before[j]
      BY <1>9, <2>1
    <3> QED
      BY <2>1, <3>2, <3>3
  <2>2. CASE j >= i
    <3>1. j - (i - 1) \in 1 .. Len(seq) - i /\ (j - (i - 1)) + i = j + 1
      BY <1>1, <2>2
    <3> QED
      BY <1>1, <1>3, <1>9, <2>2, <3>1
  <2> QED
    BY <1>1, <2>1, <2>2
<1> QED
  BY <1>5, <1>10, <1>6, <1>8 DEF rest

LEMMA RemoveAtDistinct ==
  ASSUME NEW S, NEW seq \in Seq(S), IsInjective(seq), NEW i \in DOMAIN seq
  PROVE  /\ RemoveAt(seq, i) \in Seq(S)
         /\ IsInjective(RemoveAt(seq, i))
         /\ Range(RemoveAt(seq, i)) = Range(seq) \ {seq[i]}
<1> DEFINE rest == RemoveAt(seq, i)
<1>1. i \in 1 .. Len(seq) /\ Len(seq) \in Nat
  OBVIOUS
<1>2. /\ rest \in Seq(S)
      /\ Len(rest) = Len(seq) - 1
      /\ \A j \in 1 .. Len(seq) - 1 :
           rest[j] = IF j < i THEN seq[j] ELSE seq[j + 1]
  BY RemoveAtElements
<1> HIDE DEF rest
<1>3. \A j, k \in 1 .. Len(seq) : seq[j] = seq[k] => j = k
  BY DEF IsInjective
<1>4. IsInjective(rest)
  BY <1>1, <1>2, <1>3 DEF IsInjective
<1>5. Range(rest) \subseteq Range(seq) \ {seq[i]}
  BY <1>1, <1>2, <1>3 DEF Range
<1>6. ASSUME NEW x \in Range(seq) \ {seq[i]} PROVE x \in Range(rest)
  <2>1. PICK j \in 1 .. Len(seq) : x = seq[j] /\ j # i
    BY DEF Range
  <2>2. CASE j < i
    BY <1>1, <1>2, <2>1, <2>2 DEF Range
  <2>3. CASE j > i
    <3>1. j - 1 \in 1 .. Len(seq) - 1 /\ rest[j - 1] = seq[j]
      BY <1>1, <1>2, <2>1, <2>3
    <3> QED
      BY <3>1, <1>2, <2>1 DEF Range
  <2> QED
    BY <1>1, <2>1, <2>2, <2>3
<1> QED
  BY <1>2, <1>4, <1>5, <1>6 DEF rest

LEMMA PrependDistinct ==
  ASSUME NEW S, NEW seq \in Seq(S), IsInjective(seq),
         NEW x \in S, x \notin Range(seq)
  PROVE  /\ << x >> \o seq \in Seq(S)
         /\ IsInjective(<< x >> \o seq)
         /\ Range(<< x >> \o seq) = Range(seq) \union {x}
<1> DEFINE list == << x >> \o seq
<1>1. /\ list \in Seq(S)
      /\ Len(list) = Len(seq) + 1
      /\ \A j \in 1 .. Len(seq) + 1 :
           list[j] = IF j = 1 THEN x ELSE seq[j - 1]
  BY ConcatProperties
<1> HIDE DEF list
<1>2. Range(list) = Range(seq) \union {x}
  <2>1. \A j \in DOMAIN seq : /\ j + 1 \in 1 .. Len(seq) + 1
                              /\ list[j + 1] = seq[j]
    BY <1>1
  <2>2. list[1] = x
    BY <1>1
  <2>3. Range(list) \subseteq Range(seq) \union {x}
    BY <1>1 DEF Range
  <2>4. Range(seq) \subseteq Range(list)
    BY <1>1, <2>1 DEF Range
  <2>5. x \in Range(list)
    BY <1>1, <2>2 DEF Range
  <2> QED
    BY <2>3, <2>4, <2>5
<1>3. ASSUME NEW j \in 1 .. Len(seq) + 1, NEW k \in 1 .. Len(seq) + 1,
             list[j] = list[k]
      PROVE  j = k
  <2>1. \A m \in 2 .. Len(seq) + 1 : /\ m - 1 \in DOMAIN seq
                                     /\ list[m] = seq[m - 1]
                                     /\ list[m] # x
    BY <1>1 DEF Range
  <2>2. CASE j = 1 \/ k = 1
    BY <1>1, <1>3, <2>1, <2>2
  <2>3. CASE j # 1 /\ k # 1
    <3>1. seq[j - 1] = seq[k - 1]
      BY <1>3, <2>1, <2>3
    <3>2. j - 1 = k - 1
      BY <3>1, <2>1, <2>3 DEF IsInjective
    <3> QED
      BY <3>2
  <2> QED
    BY <2>2, <2>3
<1>4. IsInjective(list)
  BY <1>1, <1>3 DEF IsInjective
<1> QED
  BY <1>1, <1>2, <1>4 DEF list

LEMMA ReplaceDistinct ==
  ASSUME NEW S, NEW seq \in Seq(S), IsInjective(seq), NEW i \in DOMAIN seq,
         NEW x \in S, x \notin Range(seq)
  PROVE  /\ [seq EXCEPT ![i] = x] \in Seq(S)
         /\ IsInjective([seq EXCEPT ![i] = x])
  BY DEF IsInjective, Range

-----------------------------------------------------------------------------
(* Running sums over a list, and what the manager's operations on lists do *)
(* to the sum of the sizes.                                                *)

IsRunningSum(f, list) ==
  /\ f \in [0 .. Len(list) -> Nat]
  /\ f[0] = 0
  /\ \A i \in 1 .. Len(list) : f[i] = f[i - 1] + list[i].size

(* The loop of freeMem and usedMem comes to a number.                      *)
LEMMA SumIsRunning ==
  ASSUME NEW list \in Seq(Block)
  PROVE  \E f : IsRunningSum(f, list) /\ SumOfSizes(list) = f[Len(list)]
<1> DEFINE Step(f, i) == IF i = 0 THEN 0 ELSE f[i - 1] + list[i].size
           S == {n \in Nat : n <= Len(list) => \E f : f = [i \in 0 .. n |-> Step(f, i)]}
<1>1. 0 \in S
  <2> DEFINE f == [i \in 0 .. 0 |-> 0]
  <2>1. f = [i \in 0 .. 0 |-> Step(f, i)]
    OBVIOUS
  <2> HIDE DEF f
  <2>2. \E h : h = [i \in 0 .. 0 |-> Step(h, i)]
    BY <2>1
  <2> QED
    BY <2>2
<1>2. ASSUME NEW n \in Nat, n \in S PROVE n + 1 \in S
  <2> SUFFICES ASSUME n + 1 <= Len(list)
               PROVE  \E f : f = [i \in 0 .. n + 1 |-> Step(f, i)]
    OBVIOUS
  <2>1. PICK f : f = [i \in 0 .. n |-> Step(f, i)]
    BY <1>2
  <2> DEFINE g == [i \in 0 .. n + 1 |-> IF i = n + 1 THEN f[n] + list[i].size ELSE f[i]]
  <2>2. \A i \in 0 .. n : g[i] = f[i]
    OBVIOUS
  <2>3. ASSUME NEW i \in 0 .. n + 1 PROVE g[i] = Step(g, i)
    <3>1. CASE i = n + 1
      <4>1. g[i] = f[n] + list[i].size /\ g[n] = f[n]
        BY <3>1, <2>2
      <4> HIDE DEF g
      <4> QED
        BY <3>1, <4>1
    <3>2. CASE i # n + 1
      <4>1. i \in 0 .. n /\ (i # 0 => i - 1 \in 0 .. n)
        BY <3>2
      <4>2. g[i] = f[i] /\ (i # 0 => g[i - 1] = f[i - 1])
        BY <2>2, <4>1
      <4>3. f[i] = Step(f, i)
        BY <2>1, <4>1
      <4> HIDE DEF g
      <4> QED
        BY <4>2, <4>3
    <3> QED
      BY <3>1, <3>2
  <2>4. g = [i \in 0 .. n + 1 |-> g[i]]
    OBVIOUS
  <2> HIDE DEF g
  <2> QED
    BY <2>3, <2>4
<1>3. Len(list) \in S
  <2> HIDE DEF S
  <2> QED
    BY <1>1, <1>2, SetInduction
<1>4. \E f : f = [i \in 0 .. Len(list) |-> Step(f, i)]
  BY <1>3
<1>5. PICK f : /\ f = [i \in 0 .. Len(list) |-> Step(f, i)]
               /\ SumOfSizes(list) = f[Len(list)]
  BY <1>4 DEF SumOfSizes
<1>6. ASSUME NEW i \in 1 .. Len(list) PROVE list[i].size \in Nat
  <2>1. list[i] \in Block
    OBVIOUS
  <2> QED
    BY <2>1 DEF Block
<1>7. f[0] = 0 /\ \A i \in 1 .. Len(list) : f[i] = f[i - 1] + list[i].size
  BY <1>5
<1> DEFINE T == {n \in Nat : n <= Len(list) => f[n] \in Nat}
<1>8. 0 \in T /\ \A n \in Nat : n \in T => n + 1 \in T
  <2> HIDE DEF Step
  <2>1. 0 \in T
    BY <1>7
  <2>2. ASSUME NEW n \in Nat, n \in T, n + 1 <= Len(list) PROVE f[n + 1] \in Nat
    <3>1. n + 1 \in 1 .. Len(list) /\ f[n] \in Nat /\ (n + 1) - 1 = n
      BY <2>2
    <3>2. f[n + 1] = f[n] + list[n + 1].size
      BY <1>7, <3>1
    <3> QED
      BY <1>6, <3>1, <3>2
  <2> QED
    BY <2>1, <2>2
<1>9. \A n \in Nat : n \in T
  <2> HIDE DEF T
  <2> QED
    BY <1>8, SetInduction
<1>10. f \in [0 .. Len(list) -> Nat]
  <2>1. \A i \in 0 .. Len(list) : f[i] \in Nat
    BY <1>9
  <2>2. f = [i \in 0 .. Len(list) |-> f[i]]
    BY <1>5
  <2> QED
    BY <2>1, <2>2
<1> QED
  BY <1>5, <1>7, <1>10 DEF IsRunningSum

(* Where two lists agree, their running sums grow alike.                   *)
Alike(list, a, other, b, n) == \A i \in 1 .. n : list[a + i] = other[b + i]
Growth(f, a, n) == f[a + n] - f[a]

LEMMA SumsGrowAlike ==
  ASSUME NEW list \in Seq(Block), NEW other \in Seq(Block),
         NEW f, IsRunningSum(f, list), NEW g, IsRunningSum(g, other),
         NEW a \in Nat, NEW b \in Nat, NEW n \in Nat,
         a + n <= Len(list), b + n <= Len(other), Alike(list, a, other, b, n)
  PROVE  Growth(f, a, n) = Growth(g, b, n)
<1> DEFINE S == {k \in Nat : k <= n => f[a + k] - f[a] = g[b + k] - g[b]}
<1>1. ASSUME NEW k \in 0 .. n PROVE f[a + k] \in Nat /\ g[b + k] \in Nat
  <2>1. a + k \in 0 .. Len(list) /\ b + k \in 0 .. Len(other)
    OBVIOUS
  <2> QED
    BY <2>1 DEF IsRunningSum
<1>2. 0 \in S
  <2>1. f[a + 0] = f[a] /\ g[b + 0] = g[b] /\ f[a] \in Nat /\ g[b] \in Nat
    <3>1. 0 \in 0 .. n /\ a + 0 = a /\ b + 0 = b
      OBVIOUS
    <3> QED
      BY <1>1, <3>1
  <2> QED
    BY <2>1
<1>3. ASSUME NEW k \in Nat, k \in S, k + 1 <= n
      PROVE  f[a + (k + 1)] - f[a] = g[b + (k + 1)] - g[b]
  <2>1. /\ a + (k + 1) \in 1 .. Len(list) /\ (a + (k + 1)) - 1 = a + k
        /\ b + (k + 1) \in 1 .. Len(other) /\ (b + (k + 1)) - 1 = b + k
    BY <1>3
  <2>2. /\ f[a + (k + 1)] = f[a + k] + list[a + (k + 1)].size
        /\ g[b + (k + 1)] = g[b + k] + other[b + (k + 1)].size
    BY <2>1 DEF IsRunningSum
  <2>3. list[a + (k + 1)] = other[b + (k + 1)] /\ other[b + (k + 1)].size \in Nat
    <3>1. k + 1 \in 1 .. n
      BY <1>3
    <3>2. other[b + (k + 1)] \in Block
      BY <2>1
    <3> QED
      BY <3>1, <3>2 DEF Block, Alike
  <2>4. f[a + k] - f[a] = g[b + k] - g[b]
    BY <1>3
  <2>5. f[a] \in Nat /\ f[a + k] \in Nat /\ g[b] \in Nat /\ g[b + k] \in Nat
    <3>1. k \in 0 .. n /\ 0 \in 0 .. n /\ a + 0 = a /\ b + 0 = b
      BY <1>3
    <3> QED
      BY <1>1, <3>1
  <2> QED
    <3> DEFINE x == f[a + k]
               u == g[b + k]
               z == other[b + (k + 1)].size
    <3>1. f[a + (k + 1)] = x + z /\ g[b + (k + 1)] = u + z
      BY <2>2, <2>3
    <3>2. x \in Nat /\ u \in Nat /\ z \in Nat /\ x - f[a] = u - g[b]
      BY <2>3, <2>4, <2>5
    <3> HIDE DEF x, u, z
    <3>3. \A y, v \in Nat : x - y = u - v => (x + z) - y = (u + z) - v
      BY <3>2
    <3>4. (x + z) - f[a] = (u + z) - g[b]
      BY <2>5, <3>2, <3>3
    <3> QED
      BY <3>1, <3>4
<1>4. n \in S
  <2>1. \A k \in Nat : k \in S => k + 1 \in S
    BY <1>3
  <2> HIDE DEF S
  <2> QED
    BY <1>2, <2>1, SetInduction
<1> QED
  BY <1>4 DEF Growth

LEMMA SumOfPrepended ==
  ASSUME NEW list \in Seq(Block), NEW x \in Block
  PROVE  SumOfSizes(<< x >> \o list) = SumOfSizes(list) + x.size
<1> DEFINE other == << x >> \o list
           n == Len(list)
<1>1. /\ other \in Seq(Block) /\ Len(other) = n + 1 /\ other[1] = x
      /\ \A j \in 1 .. n : other[1 + j] = list[0 + j]
  BY ConcatProperties
<1> HIDE DEF other
<1>2. PICK f : IsRunningSum(f, list) /\ SumOfSizes(list) = f[n]
  BY SumIsRunning
<1>3. PICK g : IsRunningSum(g, other) /\ SumOfSizes(other) = g[n + 1]
  BY <1>1, SumIsRunning
<1> HIDE DEF n
<1>4. n \in Nat /\ n = Len(list)
  BY DEF n
<1>5. f[n] - f[0] = g[n + 1] - g[1]
  <2>1. 0 + n <= Len(list) /\ 1 + n <= Len(other) /\ Alike(list, 0, other, 1, n)
    BY <1>1, <1>4 DEF Alike
  <2>2. Growth(f, 0, n) = Growth(g, 1, n)
    BY <1>1, <1>2, <1>3, <1>4, <2>1, SumsGrowAlike
  <2>3. 0 + n = n /\ 1 + n = n + 1
    BY <1>4
  <2> QED
    BY <2>2, <2>3 DEF Growth
<1>6. f[0] = 0 /\ g[1] = x.size /\ f[n] \in Nat /\ g[n + 1] \in Nat /\ x.size \in Nat
  <2>1. g[0] = 0 /\ g[1] = g[1 - 1] + x.size
    BY <1>1, <1>3, <1>4 DEF IsRunningSum
  <2>2. f[0] = 0 /\ f[n] \in Nat /\ g[n + 1] \in Nat
    BY <1>1, <1>2, <1>3, <1>4 DEF IsRunningSum
  <2>3. x.size \in Nat
    BY DEF Block
  <2> QED
    BY <2>1, <2>2, <2>3
<1> QED
  BY <1>2, <1>3, <1>5, <1>6 DEF other

(* Two lists that differ at one place only, where the second one has x     *)
(* instead of a block, or nothing.                                         *)
LEMMA SumOfReplaced ==
  ASSUME NEW list \in Seq(Block), NEW i \in DOMAIN list, NEW x \in Block
  PROVE  SumOfSizes([list EXCEPT ![i] = x]) + list[i].size = SumOfSizes(list) + x.size
<1> DEFINE other == [list EXCEPT ![i] = x]
           n == Len(list)
<1>1. /\ other \in Seq(Block) /\ Len(other) = n /\ other[i] = x
      /\ \A j \in 1 .. n : j # i => other[j] = list[j]
  OBVIOUS
<1>2. n \in Nat /\ i \in 1 .. n /\ n = Len(list)
  OBVIOUS
<1> HIDE DEF other
<1>3. PICK f : IsRunningSum(f, list) /\ SumOfSizes(list) = f[n]
  BY SumIsRunning
<1>4. PICK g : IsRunningSum(g, other) /\ SumOfSizes(other) = g[n]
  BY <1>1, SumIsRunning
<1> HIDE DEF n
<1>5. f[i - 1] = g[i - 1]
  <2>1. \A j \in 1 .. i - 1 : list[0 + j] = other[0 + j]
    BY <1>1, <1>2
  <2>2. f[i - 1] - f[0] = g[i - 1] - g[0]
    <3>1. /\ i - 1 \in Nat /\ 0 + (i - 1) = i - 1
          /\ 0 + (i - 1) <= Len(list) /\ 0 + (i - 1) <= Len(other)
      BY <1>1, <1>2
    <3>2. Alike(list, 0, other, 0, i - 1)
      BY <2>1 DEF Alike
    <3>3. Growth(f, 0, i - 1) = Growth(g, 0, i - 1)
      BY <1>1, <1>3, <1>4, <3>1, <3>2, SumsGrowAlike
    <3> QED
      BY <3>1, <3>3 DEF Growth
  <2>3. /\ f[0] = 0 /\ g[0] = 0
        /\ f[i - 1] \in Nat /\ g[i - 1] \in Nat
    BY <1>1, <1>2, <1>3, <1>4 DEF IsRunningSum
  <2> QED
    BY <2>2, <2>3
<1>6. f[n] - f[i] = g[n] - g[i]
  <2>1. \A j \in 1 .. n - i : list[i + j] = other[i + j]
    <3> TAKE j \in 1 .. n - i
    <3>1. i + j \in 1 .. n /\ i + j # i
      BY <1>2
    <3> QED
      BY <1>1, <3>1
  <2>2. /\ i + (n - i) = n /\ n - i \in Nat /\ i \in Nat
        /\ i + (n - i) <= Len(list) /\ i + (n - i) <= Len(other)
    BY <1>1, <1>2
  <2>3. Alike(list, i, other, i, n - i)
    BY <2>1 DEF Alike
  <2>4. Growth(f, i, n - i) = Growth(g, i, n - i)
    BY <1>1, <1>3, <1>4, <2>2, <2>3, SumsGrowAlike
  <2> QED
    BY <2>2, <2>4 DEF Growth
<1>7. f[i] = f[i - 1] + list[i].size /\ g[i] = g[i - 1] + x.size
  BY <1>1, <1>2, <1>3, <1>4 DEF IsRunningSum
<1>8. /\ f[i - 1] \in Nat /\ g[i - 1] \in Nat /\ f[n] \in Nat /\ g[n] \in Nat
  BY <1>1, <1>2, <1>3, <1>4 DEF IsRunningSum
<1>9. list[i].size \in Nat /\ x.size \in Nat
  <2>1. list[i] \in Block
    BY <1>2
  <2> QED
    BY <2>1 DEF Block
<1>10. \A u, v, a, s, t \in Nat : u - (a + s) = v - (a + t) => v + s = u + t
  OBVIOUS
<1>11. g[n] + list[i].size = f[n] + x.size
  <2>1. f[n] - (f[i - 1] + list[i].size) = g[n] - (f[i - 1] + x.size)
    BY <1>5, <1>6, <1>7
  <2> QED
    BY <1>8, <1>9, <1>10, <2>1
<1> QED
  BY <1>3, <1>4, <1>11 DEF other

LEMMA SumOfRemoved ==
  ASSUME NEW list \in Seq(Block), NEW i \in DOMAIN list
  PROVE  SumOfSizes(RemoveAt(list, i)) + list[i].size = SumOfSizes(list)
<1> DEFINE other == RemoveAt(list, i)
           n == Len(list)
<1>1. /\ other \in Seq(Block) /\ Len(other) = n - 1
      /\ \A j \in 1 .. n - 1 : other[j] = IF j < i THEN list[j] ELSE list[j + 1]
  BY RemoveAtElements
<1>2. n \in Nat /\ i \in 1 .. n /\ n = Len(list)
  OBVIOUS
<1> HIDE DEF other
<1>3. PICK f : IsRunningSum(f, list) /\ SumOfSizes(list) = f[n]
  BY SumIsRunning
<1>4. PICK g : IsRunningSum(g, other) /\ SumOfSizes(other) = g[n - 1]
  BY <1>1, SumIsRunning
<1> HIDE DEF n
<1>5. f[i - 1] = g[i - 1]
  <2>1. \A j \in 1 .. i - 1 : list[0 + j] = other[0 + j]
    BY <1>1, <1>2
  <2>2. f[i - 1] - f[0] = g[i - 1] - g[0]
    <3>1. /\ i - 1 \in Nat /\ 0 + (i - 1) = i - 1
          /\ 0 + (i - 1) <= Len(list) /\ 0 + (i - 1) <= Len(other)
      BY <1>1, <1>2
    <3>2. Alike(list, 0, other, 0, i - 1)
      BY <2>1 DEF Alike
    <3>3. Growth(f, 0, i - 1) = Growth(g, 0, i - 1)
      BY <1>1, <1>3, <1>4, <3>1, <3>2, SumsGrowAlike
    <3> QED
      BY <3>1, <3>3 DEF Growth
  <2>3. /\ f[0] = 0 /\ g[0] = 0
        /\ f[i - 1] \in Nat /\ g[i - 1] \in Nat
    BY <1>1, <1>2, <1>3, <1>4 DEF IsRunningSum
  <2> QED
    BY <2>2, <2>3
<1>6. f[n] - f[i] = g[n - 1] - g[i - 1]
  <2>1. \A j \in 1 .. n - i : list[i + j] = other[(i - 1) + j]
    <3> TAKE j \in 1 .. n - i
    <3>1. (i - 1) + j \in 1 .. n - 1 /\ ~((i - 1) + j < i) /\ ((i - 1) + j) + 1 = i + j
      BY <1>2
    <3> QED
      BY <1>1, <3>1
  <2>2. /\ i + (n - i) = n /\ (i - 1) + (n - i) = n - 1 /\ n - i \in Nat
        /\ i \in Nat /\ i - 1 \in Nat
        /\ i + (n - i) <= Len(list) /\ (i - 1) + (n - i) <= Len(other)
    BY <1>1, <1>2
  <2>3. Alike(list, i, other, i - 1, n - i)
    BY <2>1 DEF Alike
  <2>4. Growth(f, i, n - i) = Growth(g, i - 1, n - i)
    BY <1>1, <1>3, <1>4, <2>2, <2>3, SumsGrowAlike
  <2> QED
    BY <2>2, <2>4 DEF Growth
<1>7. f[i] = f[i - 1] + list[i].size
  BY <1>2, <1>3 DEF IsRunningSum
<1>8. /\ f[i - 1] \in Nat /\ f[n] \in Nat /\ g[n - 1] \in Nat
  <2>1. i - 1 \in 0 .. n /\ n \in 0 .. n /\ n - 1 \in 0 .. n - 1
    BY <1>2
  <2> QED
    BY <1>1, <1>2, <1>3, <1>4, <2>1 DEF IsRunningSum
<1>9. list[i].size \in Nat
  <2>1. list[i] \in Block
    BY <1>2
  <2> QED
    BY <2>1 DEF Block
<1>10. \A u, v, a, s \in Nat : u - (a + s) = v - a => v + s = u
  OBVIOUS
<1>11. g[n - 1] + list[i].size = f[n]
  <2>1. f[n] - (f[i - 1] + list[i].size) = g[n - 1] - f[i - 1]
    BY <1>5, <1>6, <1>7
  <2> QED
    BY <1>8, <1>9, <1>10, <2>1
<1> QED
  BY <1>3, <1>4, <1>11 DEF other

LEMMA SumType == ASSUME NEW list \in Seq(Block) PROVE SumOfSizes(list) \in Nat
  BY SumIsRunning DEF IsRunningSum

LEMMA SumOfEmpty == SumOfSizes(<< >>) = 0
<1>1. << >> \in Seq(Block) /\ Len(<< >>) = 0
  OBVIOUS
<1> QED
  BY <1>1, SumIsRunning DEF IsRunningSum

-----------------------------------------------------------------------------
ListsOK ==
  /\ free \in Seq(Block)
  /\ used \in Seq(Block)
  /\ ListsDistinct

(* The inductive invariant. *)
IInv == ListsOK /\ HP!Inv

(* A free block is apart from every other block. *)
LEMMA FreeBlockApart ==
  ASSUME IInv, NEW i \in DOMAIN free
  PROVE  /\ free[i].start \in Nat /\ free[i].size \in Nat
         /\ free[i] = [start |-> free[i].start, size |-> free[i].size]
         /\ free[i] \in Range(free) /\ free[i] \notin Range(used)
         /\ \A c \in (Range(free) \union Range(used)) \ {free[i]} :
              /\ c.start \in Nat /\ c.size \in Nat /\ c.size >= HeaderSize
              /\ \/ c.start + c.size <= free[i].start
                 \/ free[i].start + free[i].size <= c.start
<1>1. free[i] \in Block /\ free[i] \in Range(free)
  BY DEF IInv, ListsOK, Range
<1>2. Range(free) \union Range(used) \subseteq Block
  BY DEF IInv, HP!Inv, HP!TypeOK, HP!Block, Block
<1>3. ASSUME NEW c \in (Range(free) \union Range(used)) \ {free[i]}
      PROVE  /\ c.start \in Nat /\ c.size \in Nat /\ c.size >= HeaderSize
             /\ \/ c.start + c.size <= free[i].start
                \/ free[i].start + free[i].size <= c.start
  BY <1>1, <1>2 DEF IInv, HP!Inv, HP!Tiled, HP!BlocksDisjoint, HP!BlocksInRegion,
                    Block
<1> QED
  BY <1>1, <1>3 DEF IInv, ListsOK, ListsDistinct, Block

(* malloc on a block that is large enough cuts the heap at that block and  *)
(* keeps the lists free of duplicates.                                     *)
LEMMA ReserveCuts ==
  ASSUME IInv, NEW i \in DOMAIN free, NEW need \in Nat, need >= HeaderSize,
         Fits(i, need), Reserve(i, need)
  PROVE  /\ free' \in Seq(Block) /\ used' \in Seq(Block)
         /\ IsInjective(free') /\ IsInjective(used')
         /\ \E k \in need .. free[i].size :
              /\ \/ k = free[i].size
                 \/ k = need /\ free[i].size - k >= HeaderSize
              /\ HP!Cut(free[i], k)
<1> DEFINE b    == free[i]
           head == [start |-> b.start, size |-> need]
           tail == [start |-> b.start + need, size |-> b.size - need]
<1>1. /\ b.start \in Nat /\ b.size \in Nat /\ b \in Block
      /\ b = [start |-> b.start, size |-> b.size]
      /\ b \in Range(free) /\ b \notin Range(used)
      /\ \A c \in (Range(free) \union Range(used)) \ {b} :
           /\ c.start \in Nat /\ c.size \in Nat /\ c.size >= HeaderSize
           /\ c.start + c.size <= b.start \/ b.start + b.size <= c.start
  BY FreeBlockApart DEF IInv, ListsOK
<1>2. need <= b.size /\ HeaderSize = 8
  BY <1>1 DEF Fits, HeaderSize, Word
<1>3. /\ free \in Seq(Block) /\ used \in Seq(Block)
      /\ IsInjective(free) /\ IsInjective(used)
  BY DEF IInv, ListsOK, ListsDistinct
<1>4. CASE Splits(b, need)
  <2>1. /\ free' = [free EXCEPT ![i] = tail]
        /\ used' = << head >> \o used
    BY <1>4 DEF Reserve
  <2>2. head \in Block /\ tail \in Block /\ b.size - need > 8
    BY <1>1, <1>2, <1>4 DEF Block, Splits
  <2>3. tail \notin Range(free)
    <3>1. tail # b
      BY <1>1, <1>2, <2>2
    <3> QED
      BY <1>1, <1>2, <2>2, <3>1
  <2>4. head \notin Range(used)
    BY <1>1, <1>2, <2>2
  <2>5. /\ free' \in Seq(Block) /\ IsInjective(free')
        /\ Range(free') = (Range(free) \ {b}) \union {tail}
    <3> HIDE DEF tail
    <3>1. /\ free \in Seq(Block) /\ IsInjective(free) /\ i \in DOMAIN free
          /\ tail \in Block /\ tail \notin Range(free)
          /\ free' = [free EXCEPT ![i] = tail]
      BY <1>3, <2>1, <2>2, <2>3
    <3> QED
      <4>1. free' \in Seq(Block) /\ IsInjective(free')
        BY <3>1, ReplaceDistinct
      <4>2. Range(free') = (Range(free) \ {free[i]}) \union {tail}
        BY <3>1 DEF Range, IsInjective
      <4> QED
        BY <4>1, <4>2
  <2>6. /\ used' \in Seq(Block) /\ IsInjective(used')
        /\ Range(used') = Range(used) \union {head}
    BY <1>3, <2>1, <2>2, <2>4, PrependDistinct
  <2>7. HP!Cut(b, need)
    BY <2>2, <2>5, <2>6 DEF HP!Cut
  <2> QED
    BY <1>1, <1>2, <2>2, <2>5, <2>6, <2>7
<1>5. CASE ~Splits(b, need)
  <2>1. free' = RemoveAt(free, i) /\ used' = << b >> \o used
    BY <1>5 DEF Reserve
  <2>2. /\ free' \in Seq(Block) /\ IsInjective(free')
        /\ Range(free') = Range(free) \ {b}
    BY <1>3, <2>1, RemoveAtDistinct
  <2>3. /\ used' \in Seq(Block) /\ IsInjective(used')
        /\ Range(used') = Range(used) \union {b}
    BY <1>1, <1>3, <2>1, PrependDistinct
  <2>4. HP!Cut(b, b.size)
    BY <1>1, <2>2, <2>3 DEF HP!Cut
  <2> QED
    BY <1>1, <1>2, <2>2, <2>3, <2>4
<1> QED
  BY <1>4, <1>5

(* internalFree releases a block of the heap or leaves the lists alone. *)
LEMMA InternalFreeReleases ==
  ASSUME IInv, NEW a, InternalFree(a)
  PROVE  /\ free' \in Seq(Block) /\ used' \in Seq(Block)
         /\ IsInjective(free') /\ IsInjective(used')
         /\ \/ \E b \in Range(used) : HP!Release(b)
            \/ UNCHANGED <<free, used>>
<1>1. /\ free \in Seq(Block) /\ used \in Seq(Block)
      /\ IsInjective(free) /\ IsInjective(used)
      /\ Range(free) \intersect Range(used) = {}
  BY DEF IInv, ListsOK, ListsDistinct
<1>2. ASSUME NEW i \in DOMAIN used,
             free' = << used[i] >> \o free, used' = RemoveAt(used, i)
      PROVE  /\ free' \in Seq(Block) /\ used' \in Seq(Block)
             /\ IsInjective(free') /\ IsInjective(used')
             /\ HP!Release(used[i]) /\ used[i] \in Range(used)
  <2>1. used[i] \in Block /\ used[i] \in Range(used) /\ used[i] \notin Range(free)
    BY <1>1 DEF Range
  <2>2. /\ free' \in Seq(Block) /\ IsInjective(free')
        /\ Range(free') = Range(free) \union {used[i]}
    BY <1>1, <1>2, <2>1, PrependDistinct
  <2>3. /\ used' \in Seq(Block) /\ IsInjective(used')
        /\ Range(used') = Range(used) \ {used[i]}
    BY <1>1, <1>2, RemoveAtDistinct
  <2> QED
    BY <2>1, <2>2, <2>3 DEF HP!Release
<1>3. CASE UNCHANGED <<free, used>>
  BY <1>1, <1>3
<1> QED
  BY <1>2, <1>3 DEF InternalFree

-----------------------------------------------------------------------------
LEMMA InitIInv == Init => IInv /\ HP!Init
<1> SUFFICES ASSUME Init PROVE IInv /\ HP!Init
  OBVIOUS
<1> DEFINE all == [start |-> FirstBlock, size |-> MemorySize]
<1>1. all \in Block
  BY MemoryAssumption DEF Block, FirstBlock
<1>2. Range(free) = {all} /\ Range(used) = {}
  BY DEF Init, Range
<1>3. ListsOK
  BY <1>1, <1>2 DEF ListsOK, ListsDistinct, Init, IsInjective
<1>4. HP!Init
  BY <1>2 DEF HP!Init
<1>5. HP!Inv
  BY <1>4, HP!InitInv, MemoryAssumption
     DEF HP!HeapAssumption, FirstBlock, HeaderSize, Word
<1> QED
  BY <1>3, <1>4, <1>5 DEF IInv

(* Every step of the manager is a step of the heap or leaves it alone. *)
LEMMA StepRefines ==
  ASSUME IInv, [Next]_vars
  PROVE  /\ free' \in Seq(Block) /\ used' \in Seq(Block)
         /\ IsInjective(free') /\ IsInjective(used')
         /\ [HP!Next]_(HP!heapVars)
<1> DEFINE Goal == /\ free' \in Seq(Block) /\ used' \in Seq(Block)
                   /\ IsInjective(free') /\ IsInjective(used')
                   /\ [HP!Next]_(HP!heapVars)
<1>1. ASSUME UNCHANGED <<free, used>> PROVE Goal
  BY <1>1 DEF IInv, ListsOK, ListsDistinct, HP!heapVars
<1>2. ASSUME NEW a, InternalFree(a) PROVE Goal
  BY <1>1, <1>2, InternalFreeReleases DEF HP!Next
<1>3. ASSUME NEW s \in Slots, NEW n \in RequestSizes, NewObject(s, n) PROVE Goal
  <2>1. PICK i \in DOMAIN free : Fits(i, Need(n)) /\ Reserve(i, Need(n))
    BY <1>3 DEF NewObject, FirstFit
  <2>2. n \in Nat /\ Need(n) \in Nat /\ Need(n) = n + HeaderSize
        /\ Need(n) >= HeaderSize
    BY MemoryAssumption DEF Need, HeaderSize, Word
  <2>3. free[i] \in Range(free)
    BY DEF Range
  <2>4. HP!Allocate(n)
    BY <2>1, <2>2, <2>3, ReserveCuts DEF HP!Allocate
  <2> QED
    BY <2>1, <2>2, <2>4, ReserveCuts DEF HP!Next
<1>4. ASSUME NEW n \in RequestSizes, OutOfMemory(n) PROVE Goal
  BY <1>1, <1>4 DEF OutOfMemory
<1>5. ASSUME Mutate PROVE Goal
  BY <1>1, <1>5 DEF Mutate, Forget, PutField, GetField
<1>6. ASSUME Collect PROVE Goal
  <2>1. CASE StartGC
    BY <1>1, <2>1 DEF StartGC
  <2>2. CASE SweepBlock
    BY <1>1, <1>2, <2>2 DEF SweepBlock
  <2>3. CASE SweepTraps
    BY <1>1, <2>3 DEF SweepTraps
  <2> QED
    BY <1>6, <2>1, <2>2, <2>3 DEF Collect, Sweep
<1>7. ASSUME NEW a \in Address, Free(a) PROVE Goal
  BY <1>2, <1>7 DEF Free
<1>8. CASE UNCHANGED vars
  BY <1>1, <1>8 DEF vars
<1> QED
  BY <1>3, <1>4, <1>5, <1>6, <1>7, <1>8 DEF Next, ProgramNext

LEMMA NextIInv == IInv /\ [Next]_vars => IInv'
<1> SUFFICES ASSUME IInv, [Next]_vars PROVE IInv'
  OBVIOUS
<1>1. HP!Inv'
  BY StepRefines, HP!NextInv, MemoryAssumption
     DEF IInv, HP!HeapAssumption, FirstBlock, HeaderSize, Word
<1>2. ListsOK'
  BY StepRefines, <1>1
     DEF ListsOK, ListsDistinct, HP!Inv, HP!Tiled, HP!NeverBoth
<1> QED
  BY <1>1, <1>2 DEF IInv

(* Whatever the program does and whenever it collects, the lists hold      *)
(* every block exactly once.                                               *)
THEOREM ListsStayDistinct == Spec => []ListsDistinct
<1>1. IInv => ListsDistinct
  BY DEF IInv, ListsOK
<1> QED
  BY InitIInv, NextIInv, <1>1, PTL DEF Spec

(* The blocks of the lists tile the heap: malloc never hands out an        *)
(* address that is in use, and neither free nor GC loses one.              *)
THEOREM HeapStaysTiled == Spec => []HeapTiled
<1>1. IInv => HeapTiled
  BY DEF IInv, HP!Inv, HP!Tiled, HP!BlocksDisjoint, HP!RegionCovered,
         HP!BlocksInRegion, HP!NeverBoth, HP!Extent,
         HeapTiled, H!Tiled, H!BlocksDisjoint, H!RegionCovered,
         H!BlocksInRegion, H!NeverBoth, H!Extent
<1> QED
  BY InitIInv, NextIInv, <1>1, PTL DEF Spec

(* The two lists implement the heap. *)
THEOREM ManagerImplementsHeap == Spec => ImplementsHeap
<1>1. Init => H!Init
  BY InitIInv DEF HP!Init, H!Init
<1>2. IInv /\ [Next]_vars => [H!Next]_(H!heapVars)
  BY StepRefines
     DEF HP!Next, HP!heapVars, HP!Allocate, HP!Release, HP!Cut,
         H!Next, H!heapVars, H!Allocate, H!Release, H!Cut
<1> QED
  BY InitIInv, NextIInv, <1>1, <1>2, PTL DEF Spec, ImplementsHeap, H!Spec

-----------------------------------------------------------------------------
(* The sum of the sizes on the two lists: malloc moves what it cuts off    *)
(* from one list to the other, internalFree a whole block.                 *)
LEMMA ReserveConserves ==
  ASSUME IInv, NEW i \in DOMAIN free, NEW need \in Nat, Fits(i, need), Reserve(i, need)
  PROVE  FreeMem' + UsedMem' = FreeMem + UsedMem
<1> DEFINE b    == free[i]
           head == [start |-> b.start, size |-> need]
           tail == [start |-> b.start + need, size |-> b.size - need]
<1>1. free \in Seq(Block) /\ used \in Seq(Block) /\ b \in Block
  BY DEF IInv, ListsOK
<1>2. b.start \in Nat /\ b.size \in Nat /\ need <= b.size
  BY <1>1 DEF Block, Fits
<1>3. SumOfSizes(free) \in Nat /\ SumOfSizes(used) \in Nat
  BY <1>1, SumType
<1>4. CASE Splits(b, need)
  <2>1. free' = [free EXCEPT ![i] = tail] /\ used' = << head >> \o used
    BY <1>4 DEF Reserve
  <2>2. head \in Block /\ tail \in Block /\ [free EXCEPT ![i] = tail] \in Seq(Block)
    BY <1>1, <1>2 DEF Block
  <2>3. SumOfSizes(free') + b.size = SumOfSizes(free) + (b.size - need)
    <3>1. tail.size = b.size - need
      OBVIOUS
    <3> HIDE DEF tail
    <3>2. SumOfSizes([free EXCEPT ![i] = tail]) + free[i].size = SumOfSizes(free) + tail.size
      BY <1>1, <2>2, SumOfReplaced
    <3> QED
      BY <2>1, <3>1, <3>2
  <2>4. SumOfSizes(used') = SumOfSizes(used) + need
    <3>1. head.size = need
      OBVIOUS
    <3> HIDE DEF head
    <3> QED
      BY <1>1, <2>1, <2>2, <3>1, SumOfPrepended
  <2>5. SumOfSizes(free') \in Nat
    BY <2>1, <2>2, SumType
  <2> HIDE DEF b, head, tail
  <2> QED
    BY <1>2, <1>3, <2>3, <2>4, <2>5 DEF FreeMem, UsedMem
<1>5. CASE ~Splits(b, need)
  <2>1. free' = RemoveAt(free, i) /\ used' = << b >> \o used
    BY <1>5 DEF Reserve
  <2>2. SumOfSizes(free') + b.size = SumOfSizes(free)
    BY <1>1, <2>1, SumOfRemoved
  <2>3. SumOfSizes(used') = SumOfSizes(used) + b.size
    BY <1>1, <2>1, SumOfPrepended
  <2>4. SumOfSizes(free') \in Nat
    BY <1>1, <2>1, RemoveAtElements, SumType
  <2> HIDE DEF b
  <2> QED
    BY <1>2, <1>3, <2>2, <2>3, <2>4 DEF FreeMem, UsedMem
<1> QED
  BY <1>4, <1>5

LEMMA InternalFreeConserves ==
  ASSUME IInv, NEW a, InternalFree(a)
  PROVE  FreeMem' + UsedMem' = FreeMem + UsedMem
<1>1. free \in Seq(Block) /\ used \in Seq(Block)
  BY DEF IInv, ListsOK
<1>2. ASSUME NEW i \in DOMAIN used,
             free' = << used[i] >> \o free, used' = RemoveAt(used, i)
      PROVE  FreeMem' + UsedMem' = FreeMem + UsedMem
  <2> DEFINE b == used[i]
  <2>1. b \in Block /\ b.size \in Nat
    <3>1. b \in Block
      BY <1>1
    <3> QED
      BY <3>1 DEF Block
  <2>2. SumOfSizes(free') = SumOfSizes(free) + b.size
    BY <1>1, <1>2, <2>1, SumOfPrepended
  <2>3. SumOfSizes(used') + b.size = SumOfSizes(used)
    BY <1>1, <1>2, SumOfRemoved
  <2>4. /\ SumOfSizes(free) \in Nat /\ SumOfSizes(used) \in Nat
        /\ SumOfSizes(used') \in Nat
    BY <1>1, <1>2, RemoveAtElements, SumType
  <2> HIDE DEF b
  <2> QED
    BY <2>1, <2>2, <2>3, <2>4 DEF FreeMem, UsedMem
<1>3. ASSUME UNCHANGED <<free, used>>
      PROVE  FreeMem' + UsedMem' = FreeMem + UsedMem
  BY <1>3 DEF FreeMem, UsedMem
<1> QED
  BY <1>2, <1>3 DEF InternalFree

LEMMA StepConserves == IInv /\ [Next]_vars => FreeMem' + UsedMem' = FreeMem + UsedMem
<1> SUFFICES ASSUME IInv, [Next]_vars PROVE FreeMem' + UsedMem' = FreeMem + UsedMem
  OBVIOUS
<1> DEFINE Goal == FreeMem' + UsedMem' = FreeMem + UsedMem
<1>1. ASSUME UNCHANGED <<free, used>> PROVE Goal
  BY <1>1 DEF FreeMem, UsedMem
<1>2. ASSUME NEW a, InternalFree(a) PROVE Goal
  BY <1>2, InternalFreeConserves
<1>3. ASSUME NEW s \in Slots, NEW n \in RequestSizes, NewObject(s, n) PROVE Goal
  <2>1. PICK i \in DOMAIN free : Fits(i, Need(n)) /\ Reserve(i, Need(n))
    BY <1>3 DEF NewObject, FirstFit
  <2>2. Need(n) \in Nat
    BY MemoryAssumption DEF Need, HeaderSize, Word
  <2> QED
    BY <2>1, <2>2, ReserveConserves
<1> HIDE DEF Goal
<1>4. ASSUME NEW n \in RequestSizes, OutOfMemory(n) PROVE Goal
  BY <1>1, <1>4 DEF OutOfMemory
<1>5. ASSUME Mutate PROVE Goal
  BY <1>1, <1>5 DEF Mutate, Forget, PutField, GetField
<1>6. ASSUME Collect PROVE Goal
  BY <1>1, <1>2, <1>6 DEF Collect, Sweep, StartGC, SweepBlock, SweepTraps
<1>7. ASSUME NEW a \in Address, Free(a) PROVE Goal
  BY <1>2, <1>7 DEF Free
<1>8. ASSUME UNCHANGED vars PROVE Goal
  BY <1>1, <1>8 DEF vars
<1>9. Goal
  BY <1>3, <1>4, <1>5, <1>6, <1>7, <1>8 DEF Next, ProgramNext
<1> QED
  BY <1>9 DEF Goal

(* freeMem() + usedMem() stays the memory the manager was given: what the  *)
(* unit tests assert after a dozen of calls holds after any calls at all.  *)
THEOREM MemoryStaysConserved == Spec => []MemoryConserved
<1>1. Init => MemoryConserved
  <2> SUFFICES ASSUME Init PROVE FreeMem + UsedMem = MemorySize
    BY DEF MemoryConserved
  <2> DEFINE all == [start |-> FirstBlock, size |-> MemorySize]
  <2>1. all \in Block /\ all.size = MemorySize /\ MemorySize \in Nat
    BY MemoryAssumption DEF Block, FirstBlock
  <2>2. free = << all >> \o << >> /\ used = << >> /\ << >> \in Seq(Block)
    BY DEF Init
  <2> HIDE DEF all
  <2>3. SumOfSizes(free) = 0 + MemorySize /\ SumOfSizes(used) = 0
    BY <2>1, <2>2, SumOfPrepended, SumOfEmpty
  <2> QED
    BY <2>1, <2>3 DEF FreeMem, UsedMem
<1>2. MemoryConserved /\ IInv /\ [Next]_vars => MemoryConserved'
  BY StepConserves DEF MemoryConserved
<1> QED
  BY InitIInv, NextIInv, <1>1, <1>2, PTL DEF Spec

-----------------------------------------------------------------------------
(* Types.  The lists' part comes from IInv. *)
LEMMA StepTypes == TypeOK /\ IInv /\ [Next]_vars => TypeOK'
<1> SUFFICES ASSUME TypeOK, IInv, [Next]_vars PROVE TypeOK'
  OBVIOUS
<1> DEFINE Rest == /\ word' \in [Address -> Nat]
                   /\ root' \in [Slots -> Nat]
                   /\ cursor' \in Nat
                   /\ trapped' \in BOOLEAN
<1>1. free' \in Seq(Block) /\ used' \in Seq(Block)
  BY StepRefines
<1>2. ASSUME NEW s \in Slots, NEW n \in RequestSizes, NewObject(s, n) PROVE Rest
  <2>1. PICK i \in DOMAIN free :
          LET data == DataOf(free[i]) IN
          /\ word' = [a \in Address |->
                        IF a = data THEN n
                        ELSE IF a = data + Word THEN 0
                        ELSE IF a \in Wiped(free[i], n) THEN 0
                        ELSE word[a]]
          /\ root' = [root EXCEPT ![s] = data]
    BY <1>2 DEF NewObject
  <2>2. n \in Nat /\ DataOf(free[i]) \in Nat
    BY MemoryAssumption, FreeBlockApart DEF DataOf, HeaderSize, Word
  <2> QED
    BY <1>2, <2>1, <2>2 DEF NewObject, TypeOK
<1>3. ASSUME NEW n \in RequestSizes, OutOfMemory(n) PROVE Rest
  BY <1>3 DEF OutOfMemory, TypeOK
<1>4. ASSUME Mutate PROVE Rest
  BY <1>4 DEF Mutate, Forget, PutField, GetField, FieldsOf, TypeOK, Null
<1>5. ASSUME NEW i \in DOMAIN used
      PROVE  used[i].start \in Nat /\ NextOf(i) \in Nat
  <2>1. used \in Seq(Block) /\ Len(used) \in Nat /\ i \in 1 .. Len(used)
    BY DEF TypeOK
  <2>2. used[i].start \in Nat
    <3>1. used[i] \in Block
      BY <2>1
    <3> QED
      BY <3>1 DEF Block
  <2>3. CASE i = Len(used)
    BY <2>2, <2>3 DEF NextOf
  <2>4. CASE i # Len(used)
    <3>1. used[i + 1] \in Block
      BY <2>1, <2>4
    <3> QED
      BY <2>2, <2>4, <3>1 DEF NextOf, Block
  <2> QED
    BY <2>3, <2>4
<1>6. ASSUME Collect PROVE Rest
  <2>1. CASE StartGC
    <3>1. 1 \in DOMAIN used
      BY <2>1 DEF StartGC, TypeOK
    <3> QED
      BY <2>1, <3>1, <1>5 DEF StartGC, TypeOK
  <2>2. CASE SweepBlock
    BY <2>2, <1>5 DEF SweepBlock, TypeOK
  <2>3. CASE SweepTraps
    BY <2>3 DEF SweepTraps, TypeOK
  <2> QED
    BY <1>6, <2>1, <2>2, <2>3 DEF Collect, Sweep
<1>7. ASSUME NEW a \in Address, Free(a) PROVE Rest
  BY <1>7 DEF Free, TypeOK
<1>8. ASSUME UNCHANGED vars PROVE Rest
  BY <1>8 DEF vars, TypeOK
<1> HIDE DEF Rest
<1>9. Rest
  BY <1>2, <1>3, <1>4, <1>6, <1>7, <1>8 DEF Next, ProgramNext
<1> QED
  BY <1>1, <1>9 DEF TypeOK, Rest

LEMMA InitTypes == Init => TypeOK
<1> SUFFICES ASSUME Init PROVE TypeOK
  OBVIOUS
<1>1. word \in [Address -> Nat]
  BY DEF Init
<1>2. root \in [Slots -> Nat]
  BY DEF Init, Null
<1>3. cursor \in Nat /\ trapped \in BOOLEAN
  BY DEF Init
<1> QED
  BY <1>1, <1>2, <1>3, InitIInv DEF IInv, ListsOK, TypeOK

(* The types of the manager's state. *)
THEOREM TypesStayOK == Spec => []TypeOK
  BY InitTypes, InitIInv, NextIInv, StepTypes, PTL DEF Spec

-----------------------------------------------------------------------------
(* No two used blocks start at the same address. *)
LEMMA UsedStartsDiffer ==
  ASSUME IInv, NEW i \in DOMAIN used, NEW j \in DOMAIN used,
         used[i].start = used[j].start
  PROVE  i = j
<1>1. used[i] \in Range(used) /\ used[j] \in Range(used)
  BY DEF Range
<1>2. /\ used[i].start \in Nat /\ used[i].size \in Nat
      /\ used[j].start \in Nat /\ used[j].size \in Nat
      /\ used[i].size >= 8 /\ used[j].size >= 8
  <2>1. used[i] \in Block /\ used[j] \in Block
    BY DEF IInv, ListsOK
  <2>2. used[i].size >= HeaderSize /\ used[j].size >= HeaderSize
    BY <1>1 DEF IInv, HP!Inv, HP!Tiled, HP!BlocksInRegion
  <2> QED
    BY <2>1, <2>2 DEF Block, HeaderSize, Word
<1>3. used[i] = used[j]
  BY <1>1, <1>2 DEF IInv, HP!Inv, HP!Tiled, HP!BlocksDisjoint
<1> QED
  BY <1>3 DEF IInv, ListsOK, ListsDistinct, IsInjective

(* The loop in GC reads the successor of a block before it gives the block *)
(* back, so that it stands on a used block until it has seen them all.     *)
THEOREM CursorStaysOnUsed == Spec => []CursorOnUsedBlock
<1>1. Init => CursorOnUsedBlock
  BY DEF Init, CursorOnUsedBlock
<1>2. ASSUME TypeOK, IInv, CursorOnUsedBlock, [Next]_vars
      PROVE  CursorOnUsedBlock'
  <2>1. CASE UNCHANGED <<used, cursor>>
    BY <1>2, <2>1 DEF CursorOnUsedBlock
  <2>2. ASSUME cursor' = 0 PROVE CursorOnUsedBlock'
    BY <2>2 DEF CursorOnUsedBlock
  <2>3. ASSUME NEW s \in Slots, NEW n \in RequestSizes, NewObject(s, n)
        PROVE  cursor' = 0
    BY <2>3 DEF NewObject
  <2>4. CASE StartGC
    <3>1. 1 \in DOMAIN used
      BY <1>2, <2>4 DEF StartGC, TypeOK
    <3> QED
      BY <2>4, <3>1 DEF StartGC, CursorOnUsedBlock
  <2>5. CASE SweepBlock
    <3>1. PICK i \in DOMAIN used :
            /\ used[i].start = cursor
            /\ cursor' = NextOf(i)
            /\ UNCHANGED <<free, used>> \/ InternalFree(cursor)
      BY <2>5 DEF SweepBlock
    <3>2. used \in Seq(Block) /\ i \in 1 .. Len(used) /\ Len(used) \in Nat
      BY <1>2 DEF TypeOK
    <3>3. CASE i = Len(used)
      BY <2>2, <3>1, <3>3 DEF NextOf
    <3>4. CASE i # Len(used)
      <4>1. i + 1 \in DOMAIN used /\ cursor' = used[i + 1].start
        BY <3>1, <3>2, <3>4 DEF NextOf
      <4>2. CASE UNCHANGED <<free, used>>
        BY <4>1, <4>2 DEF CursorOnUsedBlock
      <4>3. CASE InternalFree(cursor)
        <5>1. PICK j \in DOMAIN used : /\ used[j].start = cursor
                                       /\ used' = RemoveAt(used, j)
          BY <3>1, <4>3 DEF InternalFree
        <5>2. j = i
          BY <1>2, <3>1, <5>1, UsedStartsDiffer
        <5>3. /\ RemoveAt(used, i) \in Seq(Block)
              /\ Len(RemoveAt(used, i)) = Len(used) - 1
              /\ \A k \in 1 .. Len(used) - 1 :
                   RemoveAt(used, i)[k] = IF k < i THEN used[k] ELSE used[k + 1]
          BY <3>2, RemoveAtElements
        <5>4. i \in DOMAIN used' /\ used'[i] = used[i + 1]
          BY <3>2, <3>4, <5>1, <5>2, <5>3
        <5> QED
          BY <4>1, <5>4 DEF CursorOnUsedBlock
      <4> QED
        BY <3>1, <4>2, <4>3
    <3> QED
      BY <3>3, <3>4
  <2>6. CASE SweepTraps
    BY <2>2, <2>6 DEF SweepTraps
  <2>7. ASSUME NEW a \in Address, Free(a) PROVE cursor' = 0
    BY <2>7 DEF Free
  <2>8. ASSUME Mutate \/ (\E n \in RequestSizes : OutOfMemory(n))
        PROVE  UNCHANGED <<used, cursor>>
    BY <2>8 DEF Mutate, Forget, PutField, GetField, OutOfMemory
  <2>9. CASE UNCHANGED vars
    BY <2>1, <2>9 DEF vars
  <2> QED
    BY <1>2, <2>1, <2>2, <2>3, <2>4, <2>5, <2>6, <2>7, <2>8, <2>9
       DEF Next, ProgramNext, Collect, Sweep
<1> QED
  BY InitIInv, NextIInv, TypesStayOK, <1>1, <1>2, PTL DEF Spec

-----------------------------------------------------------------------------
(* A block that internalFree takes off the used list at address a starts   *)
(* there, and the other blocks stay on the list.                           *)
LEMMA OnlyCursorFreed ==
  ASSUME IInv, NEW i \in DOMAIN used, InternalFree(used[i].start)
  PROVE  Freed \subseteq {used[i]}
<1>1. CASE UNCHANGED <<free, used>>
  BY <1>1 DEF Freed
<1>2. CASE \E j \in DOMAIN used : /\ used[j].start = used[i].start
                                 /\ used' = RemoveAt(used, j)
  <2>1. used' = RemoveAt(used, i)
    BY <1>2, UsedStartsDiffer
  <2>2. used \in Seq(Block) /\ IsInjective(used)
    BY DEF IInv, ListsOK, ListsDistinct
  <2>3. Range(used') = Range(used) \ {used[i]}
    BY <2>1, <2>2, RemoveAtDistinct
  <2> QED
    BY <2>3 DEF Freed
<1> QED
  BY <1>1, <1>2 DEF InternalFree

(* A collection never gives back what the program gets to through scanned  *)
(* words: all used blocks but the one that is given back form a closed set.*)
THEOREM CollectorIsSafe == Spec => CollectorKeepsScanned
<1>1. ASSUME IInv, [Next]_vars, cursor # 0
      PROVE  Freed \intersect Reachable = {}
  <2>1. ASSUME UNCHANGED used PROVE Freed \intersect Reachable = {}
    BY <2>1 DEF Freed
  <2>2. CASE SweepBlock
    <3>1. PICK i \in DOMAIN used :
            /\ used[i].start = cursor
            /\ IF IsUsed(used[i]) THEN UNCHANGED <<free, used>>
                                  ELSE InternalFree(cursor)
      BY <2>2 DEF SweepBlock
    <3>2. CASE IsUsed(used[i])
      BY <2>1, <3>1, <3>2
    <3>3. CASE ~IsUsed(used[i])
      <4> DEFINE others == Range(used) \ {used[i]}
      <4>1. Freed \subseteq {used[i]}
        BY <1>1, <3>1, <3>3, OnlyCursorFreed
      <4>2. ASSUME NEW d \in others, NEW a \in ScannedWords(d)
            PROVE  word[a] # DataOf(used[i])
        <5>1. PICK k \in DOMAIN used : d = used[k]
          BY DEF Range
        <5>2. used[k].start # used[i].start
          BY <1>1, <5>1, UsedStartsDiffer
        <5> QED
          BY <3>3, <5>1, <5>2 DEF IsUsed, InBlock
      <4>3. Closed(others)
        BY <3>3, <4>2 DEF Closed, IsUsed
      <4>4. used[i] \notin Reachable
        BY <4>3 DEF Reachable
      <4> QED
        BY <4>1, <4>4
    <3> QED
      BY <3>2, <3>3
  <2>3. ASSUME NEW s \in Slots, NEW n \in RequestSizes, NewObject(s, n)
        PROVE  FALSE
    BY <1>1, <2>3 DEF NewObject
  <2>4. ASSUME NEW a \in Address, Free(a) PROVE FALSE
    BY <1>1, <2>4 DEF Free
  <2>5. ASSUME \/ Mutate \/ StartGC \/ SweepTraps
               \/ (\E n \in RequestSizes : OutOfMemory(n))
        PROVE  UNCHANGED used
    BY <2>5 DEF Mutate, Forget, PutField, GetField, OutOfMemory, StartGC, SweepTraps
  <2>6. CASE UNCHANGED vars
    BY <2>1, <2>6 DEF vars
  <2> QED
    BY <1>1, <2>1, <2>2, <2>3, <2>4, <2>5, <2>6 DEF Next, ProgramNext, Collect, Sweep
<1>2. IInv /\ [Next]_vars => [cursor # 0 => Freed \intersect Reachable = {}]_vars
  BY <1>1
<1> QED
  BY InitIInv, NextIInv, <1>2, PTL DEF Spec, CollectorKeepsScanned

-----------------------------------------------------------------------------
(* No reference dangles.  What it takes: a program whose objects consist   *)
(* of whole words, that keeps its references in fields the collector       *)
(* scans, and runs where there is a stack to scan.                         *)

Words == {Word * i : i \in Nat}

SafeProgram ==
  /\ Platform = "wasm"
  /\ MemorySize \in Words
  /\ RequestSizes \subseteq Words
  /\ \A n \in RequestSizes : n >= FirstField
  /\ \A n \in RequestSizes, o \in FieldOffsets : o < n => o < n - 8

(* The object in a block fits into it.                                     *)
ObjectIn(b) ==
  /\ word[DataOf(b)] \in RequestSizes
  /\ Need(word[DataOf(b)]) <= b.size

(* The inductive invariant. *)
DInv ==
  /\ TypeOK
  /\ IInv
  /\ \A b \in Range(free) \union Range(used) : b.start \in Words /\ b.size \in Words
  /\ \A b \in Range(used) : ObjectIn(b)
  /\ NoReferenceDangles

LEMMA WordsAdd ==
  ASSUME NEW x \in Words, NEW y \in Words
  PROVE  /\ x \in Nat /\ x + y \in Words
         /\ x <= y => y - x \in Words
<1>1. PICK i \in Nat : x = 4 * i
  BY DEF Words, Word
<1>2. PICK j \in Nat : y = 4 * j
  BY DEF Words, Word
<1>3. x \in Nat
  BY <1>1
<1>4. x + y \in Words
  <2>1. x + y = 4 * (i + j) /\ i + j \in Nat
    BY <1>1, <1>2
  <2> QED
    BY <2>1 DEF Words, Word
<1>5. ASSUME x <= y PROVE y - x \in Words
  <2>1. y - x = 4 * (j - i) /\ j - i \in Nat
    BY <1>1, <1>2, <1>5
  <2> QED
    BY <2>1 DEF Words, Word
<1> QED
  BY <1>3, <1>4, <1>5

LEMMA AddressOfWord ==
  ASSUME SafeProgram, NEW a \in Words, FirstBlock <= a, a < FirstBlock + MemorySize
  PROVE  a \in Address
<1>1. PICK k \in Nat : a = 4 * k
  BY DEF Words, Word
<1>2. PICK m \in Nat : MemorySize = 4 * m
  BY DEF SafeProgram, Words, Word
<1>3. k - 7 \in 0 .. m - 1 /\ a = 28 + 4 * (k - 7)
  BY <1>1, <1>2 DEF FirstBlock
<1>4. MemorySize \div 4 = m
  BY <1>2
<1> QED
  BY <1>3, <1>4 DEF Address, FirstBlock, Word

(* A block lies in the region, its data start at a word of the memory, and *)
(* it shares no address with another block.                                *)
LEMMA BlockFacts ==
  ASSUME SafeProgram, DInv, NEW b \in Range(free) \union Range(used)
  PROVE  /\ b.start \in Nat /\ b.size \in Nat /\ b.size >= 8
         /\ FirstBlock <= b.start /\ b.start + b.size <= FirstBlock + MemorySize
         /\ b.size > 8 => DataOf(b) \in Address
         /\ \A c \in Range(free) \union Range(used) : c # b =>
              c.start + c.size <= b.start \/ b.start + b.size <= c.start
<1>1. b \in Block /\ Range(free) \union Range(used) \subseteq Block
  BY DEF DInv, IInv, HP!Inv, HP!TypeOK, HP!Block, Block
<1>2. /\ b.start \in Nat /\ b.size \in Nat /\ b.size >= 8
      /\ FirstBlock <= b.start /\ b.start + b.size <= FirstBlock + MemorySize
  BY <1>1 DEF DInv, IInv, HP!Inv, HP!Tiled, HP!BlocksInRegion, Block, HeaderSize, Word
<1>3. ASSUME b.size > 8 PROVE DataOf(b) \in Address
  <2>1. b.start \in Words /\ 8 \in Words
    BY DEF DInv, Words, Word
  <2>2. b.start + 8 \in Words
    BY <2>1, WordsAdd
  <2> QED
    BY <1>2, <1>3, <2>2, AddressOfWord, MemoryAssumption DEF DataOf, HeaderSize, Word, FirstBlock
<1>4. \A c \in Range(free) \union Range(used) : c # b =>
        c.start + c.size <= b.start \/ b.start + b.size <= c.start
  BY <1>1 DEF DInv, IInv, HP!Inv, HP!Tiled, HP!BlocksDisjoint, Block
<1> QED
  BY <1>2, <1>3, <1>4

(* The type word and the fields of an object lie in its block, which       *)
(* includes the words the collector scans.                                 *)
LEMMA ObjectFacts ==
  ASSUME SafeProgram, DInv, NEW b \in Range(used)
  PROVE  /\ word[DataOf(b)] \in Nat /\ word[DataOf(b)] >= 8
         /\ word[DataOf(b)] + 8 <= b.size
         /\ DataOf(b) = b.start + 8 /\ DataOf(b) \in Address
         /\ SafeFields(b) \subseteq ScannedWords(b)
         /\ \A a \in SafeFields(b) : /\ a \in Address /\ a \in Int
                                      /\ b.start + 16 <= a /\ a < b.start + b.size
<1>1. /\ word[DataOf(b)] \in RequestSizes
      /\ word[DataOf(b)] + 8 <= b.size
  BY DEF DInv, ObjectIn, Need, HeaderSize, Word
<1>2. word[DataOf(b)] \in Nat /\ word[DataOf(b)] >= 8
  <2>1. FirstField = 8
    BY DEF FirstField, Word
  <2> QED
    BY <1>1, <2>1, MemoryAssumption DEF SafeProgram
<1>3. b.start \in Nat /\ b.size \in Nat /\ DataOf(b) \in Address
  BY <1>1, <1>2, BlockFacts
<1>4. DataOf(b) = b.start + 8
  BY DEF DataOf, HeaderSize, Word
<1>5. Address \subseteq Int
  BY MemoryAssumption DEF Address, FirstBlock, Word
<1>6. \A a \in SafeFields(b) :
        /\ a \in Address /\ a \in Int /\ b.start + 16 <= a
        /\ a < b.start + word[DataOf(b)]
  BY <1>2, <1>3, <1>4, <1>5 DEF SafeFields, FirstField, Word
<1>7. SafeFields(b) \subseteq ScannedWords(b)
  BY <1>1, <1>2, <1>3, <1>4, <1>6 DEF ScannedWords, BlockEnd, HeaderSize, Word
<1> QED
  BY <1>1, <1>2, <1>3, <1>4, <1>6, <1>7

(* What a reference is to be. *)
IsReference(d) == d # Null => \E b \in Range(used) : DataOf(b) = d

LEMMA NoReferenceDanglesIff ==
  ASSUME TypeOK
  PROVE  NoReferenceDangles <=>
           /\ \A s \in Slots : IsReference(root[s])
           /\ \A b \in Range(used) : \A a \in SafeFields(b) : IsReference(word[a])
<1>1. Range(root) = {root[s] : s \in Slots}
  BY DEF TypeOK, Range
<1> QED
  BY <1>1 DEF NoReferenceDangles, IsReference

(* What it will have to be after the step.                                 *)
WillBeReference(d) == d # Null => \E b \in Range(used') : DataOf(b) = d

LEMMA NextReferences ==
  ASSUME TypeOK',
         \A s \in Slots : WillBeReference(root'[s]),
         \A b \in Range(used') : \A a \in SafeFields(b)' : WillBeReference(word'[a])
  PROVE  NoReferenceDangles'
<1>1. Range(root') = {root'[s] : s \in Slots}
  BY DEF TypeOK, Range
<1> QED
  BY <1>1 DEF NoReferenceDangles, WillBeReference, DataOf

LEMMA InitDInv == SafeProgram /\ Init => DInv
<1> SUFFICES ASSUME SafeProgram, Init PROVE DInv
  OBVIOUS
<1>1. TypeOK
  BY InitTypes
<1>2. Range(free) = {[start |-> FirstBlock, size |-> MemorySize]} /\ Range(used) = {}
  BY DEF Init, Range
<1>3. FirstBlock \in Words
  <2>1. FirstBlock = 4 * 7
    BY DEF FirstBlock
  <2> QED
    BY <2>1 DEF Words, Word
<1>4. NoReferenceDangles
  BY <1>1, <1>2, NoReferenceDanglesIff DEF Init, IsReference
<1> QED
  BY <1>1, <1>2, <1>3, <1>4, InitIInv DEF DInv, SafeProgram

(* A new object has null in its fields, other objects keep theirs.         *)
LEMMA NewObjectKeepsReferences ==
  ASSUME SafeProgram, DInv, IInv', TypeOK',
         NEW s \in Slots, NEW n \in RequestSizes, NewObject(s, n)
  PROVE  DInv'
<1>1. PICK i \in DOMAIN free :
        /\ Fits(i, Need(n)) /\ Reserve(i, Need(n))
        /\ word' = [a \in Address |->
                      IF a = DataOf(free[i]) THEN n
                      ELSE IF a = DataOf(free[i]) + Word THEN 0
                      ELSE IF a \in Wiped(free[i], n) THEN 0
                      ELSE word[a]]
        /\ root' = [root EXCEPT ![s] = DataOf(free[i])]
  BY DEF NewObject, FirstFit
<1> DEFINE b == free[i]
<1>2. n \in Nat /\ n >= 8 /\ n \in Words /\ Need(n) = n + 8 /\ Need(n) \in Words
  <2>1. 8 \in Words /\ FirstField = 8
    BY DEF Words, Word, FirstField
  <2>2. n \in Nat /\ n >= 8 /\ n \in Words
    BY <2>1, MemoryAssumption DEF SafeProgram
  <2> QED
    BY <2>1, <2>2, WordsAdd DEF Need, HeaderSize, Word
<1>3. /\ b \in Range(free) /\ b.start \in Nat /\ b.size \in Nat
      /\ b.start \in Words /\ b.size \in Words
      /\ \A c \in Range(used) :
           c.start + c.size <= b.start \/ b.start + b.size <= c.start
  BY BlockFacts DEF DInv, IInv, ListsOK, ListsDistinct, Range
<1>4. PICK k \in Need(n) .. b.size :
        /\ k = b.size \/ (k = Need(n) /\ b.size - k >= HeaderSize)
        /\ HP!Cut(b, k)
  BY <1>1, <1>2, ReserveCuts DEF DInv, HeaderSize, Word
<1>5. /\ k \in Nat /\ k \in Words /\ n + 8 <= k /\ k <= b.size
      /\ b.start + k \in Words
      /\ k # b.size => b.size - k \in Words
  <2>1. k \in Nat /\ k \in Words /\ n + 8 <= k /\ k <= b.size
    BY <1>2, <1>3, <1>4
  <2>2. b.start + k \in Words
    BY <1>3, <2>1, WordsAdd
  <2>3. b.size - k \in Words
    BY <1>3, <2>1, WordsAdd
  <2> QED
    BY <2>1, <2>2, <2>3
<1> PICK new : new = [start |-> b.start, size |-> k]
  OBVIOUS
<1>6. /\ Range(used') = Range(used) \union {new}
      /\ \A c \in Range(free') :
           c \in Range(free) \/ (c.start \in Words /\ c.size \in Words)
  BY <1>5, <1>4 DEF HP!Cut
<1>7. DataOf(b) = b.start + 8 /\ DataOf(new) = DataOf(b)
  BY DEF DataOf, HeaderSize, Word
<1>8. DataOf(b) \in Address
  BY <1>2, <1>3, <1>5, BlockFacts
<1>9. word'[DataOf(b)] = n
  BY <1>1, <1>8
<1> HIDE DEF b
<1>10. ASSUME NEW a \in Address, a < b.start + 8 \/ b.start + b.size <= a
       PROVE  word'[a] = word[a]
  <2>1. a \in Int
    BY MemoryAssumption DEF Address, FirstBlock, Word
  <2>2. a # DataOf(b) /\ a # DataOf(b) + Word
    BY <1>2, <1>3, <1>5, <1>7, <1>10, <2>1 DEF Word
  <2>3. a \notin Wiped(b, n)
    BY <1>2, <1>3, <1>5, <1>7, <1>10, <2>1 DEF Wiped, WipedBytes
  <2> QED
    BY <1>1, <2>2, <2>3 DEF b
<1>11. ASSUME NEW c \in Range(used)
       PROVE  ObjectIn(c)' /\ SafeFields(c)' = SafeFields(c)
              /\ \A a \in SafeFields(c) : word'[a] = word[a]
  <2>1. /\ DataOf(c) = c.start + 8 /\ DataOf(c) \in Address
        /\ c.start \in Nat /\ c.size \in Nat /\ c.size >= 16
        /\ \A a \in SafeFields(c) : /\ a \in Address /\ a \in Int
                                    /\ c.start + 16 <= a /\ a < c.start + c.size
    BY ObjectFacts, BlockFacts
  <2>2. c.start + c.size <= b.start \/ b.start + b.size <= c.start
    BY <1>3
  <2>3. word'[DataOf(c)] = word[DataOf(c)]
    BY <1>3, <1>10, <2>1, <2>2
  <2>4. \A a \in SafeFields(c) : word'[a] = word[a]
    BY <1>3, <1>10, <2>1, <2>2
  <2>5. ObjectIn(c)' /\ SafeFields(c)' = SafeFields(c)
    BY <2>3 DEF DInv, ObjectIn, SafeFields, DataOf
  <2> QED
    BY <2>4, <2>5
<1>12. ObjectIn(new)' /\ \A a \in SafeFields(new)' : word'[a] = 0
  <2>1. word'[DataOf(new)] = n
    BY <1>7, <1>9
  <2>2. ObjectIn(new)'
    <3>1. new.size = k /\ Need(n) <= k
      BY <1>2, <1>5
    <3> QED
      BY <2>1, <3>1 DEF ObjectIn, DataOf, HeaderSize, Word
  <2>3. ASSUME NEW a \in SafeFields(new)' PROVE word'[a] = 0
    <3>1. a \in Address /\ b.start + 16 <= a /\ a < b.start + 8 + n - 8
      <4>1. /\ a \in Address /\ DataOf(new) + FirstField <= a
            /\ a < DataOf(new) + n - 8
        BY <2>1, <2>3 DEF SafeFields, DataOf
      <4>2. DataOf(new) = b.start + 8 /\ FirstField = 8
        BY <1>7 DEF FirstField, Word
      <4> QED
        BY <1>2, <1>3, <4>1, <4>2
    <3>2. a \in Int
      BY <3>1, MemoryAssumption DEF Address, FirstBlock, Word
    <3>3. a # DataOf(b) /\ a \in Wiped(b, n)
      BY <1>2, <1>3, <1>7, <3>1, <3>2 DEF Wiped, WipedBytes
    <3> QED
      BY <1>1, <3>1, <3>3 DEF b
  <2> QED
    BY <2>2, <2>3
<1>13. ASSUME NEW d, IsReference(d) PROVE WillBeReference(d)
  BY <1>6, <1>13 DEF IsReference, WillBeReference
<1>14. ASSUME NEW t \in Slots PROVE WillBeReference(root'[t])
  <2>1. WillBeReference(DataOf(b))
    BY <1>6, <1>7 DEF WillBeReference
  <2>2. IsReference(root[t])
    BY NoReferenceDanglesIff DEF DInv
  <2> QED
    BY <1>1, <1>13, <2>1, <2>2 DEF b, DInv, TypeOK
<1>15. ASSUME NEW c \in Range(used'), NEW a \in SafeFields(c)'
       PROVE  WillBeReference(word'[a])
  <2>1. CASE c \in Range(used)
    <3>1. a \in SafeFields(c) /\ word'[a] = word[a]
      BY <1>11, <1>15, <2>1
    <3>2. IsReference(word[a])
      BY <2>1, <3>1, NoReferenceDanglesIff DEF DInv
    <3> QED
      BY <1>13, <3>1, <3>2
  <2>2. CASE c = new
    BY <1>12, <1>15, <2>2 DEF WillBeReference, Null
  <2> QED
    BY <1>6, <2>1, <2>2
<1>16. NoReferenceDangles'
  BY <1>14, <1>15, NextReferences
<1>17. \A c \in Range(used') : ObjectIn(c)'
  BY <1>6, <1>11, <1>12
<1>18. \A c \in Range(free') \union Range(used') : c.start \in Words /\ c.size \in Words
  BY <1>3, <1>5, <1>6 DEF DInv
<1> QED
  BY <1>16, <1>17, <1>18 DEF DInv

(* The collector gives back no block that a reference leads to.            *)
LEMMA SweepKeepsReferences ==
  ASSUME SafeProgram, DInv, IInv', TypeOK', SweepBlock
  PROVE  DInv'
<1>1. PICK i \in DOMAIN used :
        /\ used[i].start = cursor
        /\ IF IsUsed(used[i]) THEN UNCHANGED <<free, used>>
                              ELSE InternalFree(used[i].start)
        /\ UNCHANGED <<word, root>>
  BY DEF SweepBlock
<1>2. ASSUME UNCHANGED <<free, used>> PROVE DInv'
  <2>1. NoReferenceDangles'
    BY <1>1, <1>2 DEF DInv, NoReferenceDangles, SafeFields, DataOf
  <2>2. \A c \in Range(used') : ObjectIn(c)'
    BY <1>1, <1>2 DEF DInv, ObjectIn, DataOf
  <2> QED
    BY <1>2, <2>1, <2>2 DEF DInv
<1>3. CASE ~IsUsed(used[i])
  <2>1. PICK j \in DOMAIN used : /\ used[j].start = used[i].start
                                /\ free' = << used[j] >> \o free
                                /\ used' = RemoveAt(used, j)
    BY <1>1, <1>3 DEF InternalFree
  <2>2. j = i
    BY <2>1, UsedStartsDiffer DEF DInv
  <2> DEFINE b == used[i]
  <2>3. /\ b \in Range(used) /\ b \in Block
        /\ Range(used') = Range(used) \ {b}
        /\ Range(free') = Range(free) \union {b}
    <3>1. /\ used \in Seq(Block) /\ IsInjective(used)
          /\ free \in Seq(Block) /\ IsInjective(free)
          /\ Range(free) \intersect Range(used) = {}
      BY DEF DInv, IInv, ListsOK, ListsDistinct
    <3>2. b \in Range(used) /\ b \in Block /\ b \notin Range(free)
      BY <3>1 DEF Range
    <3> QED
      BY <2>1, <2>2, <3>1, <3>2, RemoveAtDistinct, PrependDistinct
  <2>4. ASSUME NEW d, IsReference(d), d # DataOf(b) PROVE WillBeReference(d)
    BY <2>3, <2>4 DEF IsReference, WillBeReference
  <2>5. ASSUME NEW t \in Slots PROVE WillBeReference(root'[t])
    <3>1. IsReference(root[t])
      BY NoReferenceDanglesIff DEF DInv
    <3>2. root[t] # DataOf(b)
      BY <1>3 DEF IsUsed, OnStack, SafeProgram
    <3> QED
      BY <1>1, <2>4, <3>1, <3>2
  <2>6. ASSUME NEW c \in Range(used'), NEW a \in SafeFields(c)'
        PROVE  WillBeReference(word'[a])
    <3>1. c \in Range(used) /\ c # b
      BY <2>3
    <3>2. a \in SafeFields(c) /\ a \in ScannedWords(c)
      BY <1>1, <2>6, <3>1, ObjectFacts DEF SafeFields, DataOf
    <3>3. IsReference(word[a])
      BY <3>1, <3>2, NoReferenceDanglesIff DEF DInv
    <3>4. word[a] # DataOf(b)
      <4>1. PICK k \in DOMAIN used : c = used[k]
        BY <3>1 DEF Range
      <4>2. used[k].start # b.start
        BY <3>1, <4>1, UsedStartsDiffer DEF DInv
      <4> QED
        BY <1>3, <3>2, <4>1, <4>2 DEF IsUsed, InBlock
    <3> QED
      BY <1>1, <2>4, <3>3, <3>4
  <2>7. NoReferenceDangles'
    BY <2>5, <2>6, NextReferences
  <2>8. \A c \in Range(used') : ObjectIn(c)'
    BY <1>1, <2>3 DEF DInv, ObjectIn, DataOf
  <2>9. \A c \in Range(free') \union Range(used') : c.start \in Words /\ c.size \in Words
    BY <2>3 DEF DInv
  <2> QED
    BY <2>7, <2>8, <2>9 DEF DInv
<1> QED
  BY <1>1, <1>2, <1>3

(* The program copies references, and only to fields that are scanned.     *)
LEMMA MutateKeepsReferences ==
  ASSUME SafeProgram, DInv, IInv', TypeOK', Mutate
  PROVE  DInv'
<1>1. UNCHANGED <<free, used>>
  BY DEF Mutate, Forget, PutField, GetField
<1>2. \A d : IsReference(d) => WillBeReference(d)
  BY <1>1 DEF IsReference, WillBeReference
<1>3. /\ \A t \in Slots : IsReference(root[t])
      /\ \A c \in Range(used) : \A a \in SafeFields(c) : IsReference(word[a])
  BY NoReferenceDanglesIff DEF DInv
<1>4. ASSUME UNCHANGED word,
             NEW t \in Slots, NEW d, IsReference(d), root' = [root EXCEPT ![t] = d]
      PROVE  DInv'
  <2>1. \A r \in Slots : WillBeReference(root'[r])
    BY <1>2, <1>3, <1>4 DEF DInv, TypeOK
  <2>2. ASSUME NEW c \in Range(used'), NEW a \in SafeFields(c)'
        PROVE  WillBeReference(word'[a])
    BY <1>1, <1>2, <1>3, <1>4, <2>2 DEF SafeFields, DataOf
  <2>3. NoReferenceDangles'
    BY <2>1, <2>2, NextReferences
  <2>4. \A c \in Range(used') : ObjectIn(c)'
    BY <1>1, <1>4 DEF DInv, ObjectIn, DataOf
  <2> QED
    BY <1>1, <2>3, <2>4 DEF DInv
<1>5. ASSUME NEW s \in Slots, root[s] # Null, NEW a \in FieldsOf(s)
      PROVE  \E b \in Range(used) : a \in SafeFields(b)
  <2>1. PICK b \in Range(used) : DataOf(b) = root[s]
    BY <1>3, <1>5 DEF IsReference
  <2>2. /\ a \in Address /\ a - DataOf(b) \in FieldOffsets
        /\ FirstField <= a - DataOf(b) /\ a - DataOf(b) < word[DataOf(b)]
    BY <1>5, <2>1 DEF FieldsOf
  <2>3. word[DataOf(b)] \in RequestSizes /\ word[DataOf(b)] \in Nat /\ DataOf(b) \in Address
    BY ObjectFacts DEF DInv, ObjectIn
  <2>4. a - DataOf(b) < word[DataOf(b)] - 8
    BY <2>2, <2>3 DEF SafeProgram
  <2>5. a \in Int /\ DataOf(b) \in Int /\ FirstField = 8
    BY <2>2, <2>3, MemoryAssumption DEF Address, FirstBlock, Word, FirstField
  <2>6. DataOf(b) + FirstField <= a /\ a < DataOf(b) + word[DataOf(b)] - 8
    BY <2>2, <2>3, <2>4, <2>5
  <2> QED
    BY <2>2, <2>6 DEF SafeFields
<1>6. ASSUME NEW s \in Slots, Forget(s) PROVE DInv'
  BY <1>4, <1>6 DEF Forget, IsReference
<1>7. ASSUME NEW s \in Slots, root[s] # Null, NEW a \in FieldsOf(s), NEW t \in Slots,
             GetField(s, a, t)
      PROVE  DInv'
  <2>1. IsReference(word[a])
    BY <1>3, <1>5, <1>7
  <2> QED
    BY <1>4, <1>7, <2>1 DEF GetField
<1>8. ASSUME NEW s \in Slots, root[s] # Null, NEW a \in FieldsOf(s), NEW t \in Slots,
             PutField(s, a, t)
      PROVE  DInv'
  <2>1. /\ root' = root /\ word' = [word EXCEPT ![a] = root[t]]
        /\ word \in [Address -> Nat]
    BY <1>8 DEF PutField, DInv, TypeOK
  <2>2. PICK b \in Range(used) : a \in SafeFields(b)
    BY <1>5, <1>8
  <2>3. ASSUME NEW c \in Range(used) PROVE word'[DataOf(c)] = word[DataOf(c)]
    <3>1. /\ DataOf(c) = c.start + 8 /\ DataOf(c) \in Address
          /\ b.start + 16 <= a /\ a < b.start + b.size /\ a \in Int
      BY <2>2, ObjectFacts
    <3>2. /\ b.start \in Nat /\ b.size \in Nat /\ c.start \in Nat
          /\ c.size \in Nat /\ c.size >= 16
      BY BlockFacts, ObjectFacts
    <3>3. c # b => c.start + c.size <= b.start \/ b.start + b.size <= c.start
      BY BlockFacts
    <3>4. a # DataOf(c)
      BY <3>1, <3>2, <3>3
    <3> QED
      BY <2>1, <3>1, <3>4
  <2>4. \A c \in Range(used) : ObjectIn(c)' /\ SafeFields(c)' = SafeFields(c)
    BY <2>3 DEF DInv, ObjectIn, SafeFields, DataOf
  <2>5. ASSUME NEW c \in Range(used'), NEW e \in SafeFields(c)'
        PROVE  WillBeReference(word'[e])
    <3>1. c \in Range(used) /\ e \in SafeFields(c) /\ e \in Address
      BY <1>1, <2>4, <2>5 DEF SafeFields
    <3>2. IsReference(word'[e])
      BY <1>3, <2>1, <3>1
    <3> QED
      BY <1>2, <3>2
  <2>6. \A r \in Slots : WillBeReference(root'[r])
    BY <1>2, <1>3, <2>1
  <2>7. NoReferenceDangles'
    BY <2>5, <2>6, NextReferences
  <2> QED
    BY <1>1, <2>4, <2>7 DEF DInv
<1> QED
  BY <1>6, <1>7, <1>8 DEF Mutate

(* In such a program no reference dangles, however often it is collected   *)
(* and its memory is used again: for every memory, set of types, set of    *)
(* fields and stack.                                                       *)
THEOREM NoReferenceEverDangles ==
  ASSUME SafeProgram
  PROVE  ProgramSpec => []NoReferenceDangles
<1>1. ASSUME DInv, [ProgramNext]_vars PROVE DInv'
  <2>1. [Next]_vars
    BY <1>1 DEF Next
  <2>2. IInv' /\ TypeOK'
    BY <1>1, <2>1, NextIInv, StepTypes DEF DInv
  <2>3. ASSUME UNCHANGED <<free, used, word, root>> PROVE DInv'
    <3>1. NoReferenceDangles
      BY <1>1 DEF DInv
    <3>2. NoReferenceDangles'
      BY <2>3, <3>1 DEF NoReferenceDangles, SafeFields, DataOf
    <3>3. \A c \in Range(used') : ObjectIn(c)'
      BY <1>1, <2>3 DEF DInv, ObjectIn, DataOf
    <3> QED
      BY <1>1, <2>2, <2>3, <3>2, <3>3 DEF DInv
  <2>4. CASE \E s \in Slots, n \in RequestSizes : NewObject(s, n)
    BY <1>1, <2>2, <2>4, NewObjectKeepsReferences
  <2>5. CASE Mutate
    BY <1>1, <2>2, <2>5, MutateKeepsReferences
  <2>6. CASE SweepBlock
    BY <1>1, <2>2, <2>6, SweepKeepsReferences
  <2>7. ASSUME \/ StartGC \/ SweepTraps \/ UNCHANGED vars
               \/ (\E n \in RequestSizes : OutOfMemory(n))
        PROVE  UNCHANGED <<free, used, word, root>>
    BY <2>7 DEF StartGC, SweepTraps, OutOfMemory, vars
  <2> QED
    BY <1>1, <2>3, <2>4, <2>5, <2>6, <2>7 DEF ProgramNext, Collect, Sweep
<1>2. Init => DInv
  BY InitDInv
<1>3. DInv => NoReferenceDangles
  BY DEF DInv
<1> QED
  BY <1>1, <1>2, <1>3, PTL DEF ProgramSpec

=============================================================================
