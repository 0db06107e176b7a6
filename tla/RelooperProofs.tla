--------------------------- MODULE RelooperProofs ---------------------------
(***************************************************************************)
(* Theorems about Relooper: the types of its variables, the end of         *)
(* compilation, and the labels of the printed code.                        *)
(*                                                                         *)
(* The walks that mark back edges and the calls of reloop are functions    *)
(* over an interval, defined by their value before; IterationExists says   *)
(* that there are such functions.  From it follows what a path is          *)
(* (PathsAre), that paths go on (PathExtends), and that dominance is an    *)
(* order (DominatesTransitive, DominatesAntisymmetric).  While the         *)
(* optimizer deletes nodes, no normal edge leads to a dominator of the     *)
(* node it leaves (EdgesGoForward); so whatever reloop makes of the nodes  *)
(* an entry dominates never has that entry again (Inside), by induction    *)
(* over the levels of its calls (ReloopIs).                                *)
(***************************************************************************)
EXTENDS Relooper, Induction, SequenceTheorems, FiniteSetTheorems, TLAPS

-----------------------------------------------------------------------------
(***************************************************************************)
(* A function over 0 .. K that is defined by its value before exists, if a *)
(* step stays in a set.                                                    *)
(***************************************************************************)
Steps(K, S) == [(1 .. K) \X S -> S]

Iterates(f, K, S, a, F) ==
    /\ f \in [0 .. K -> S]
    /\ \A k \in 0 .. K : f[k] = IF k = 0 THEN a ELSE F[<< k, f[k - 1] >>]

LEMMA IterationExists ==
    ASSUME NEW K \in Nat, NEW S, NEW a \in S, NEW F \in Steps(K, S)
    PROVE  \E f : Iterates(f, K, S, a, F)
<1>0. F \in [(1 .. K) \X S -> S]
  BY DEF Steps
<1> DEFINE Follows(f, k) == \A n \in 0 .. k : f[n] = IF n = 0 THEN a ELSE F[<< n, f[n - 1] >>]
           T == {k \in Nat : k <= K => \E f \in [0 .. k -> S] : Follows(f, k)}
<1>1. 0 \in T
  <2>1. [n \in 0 .. 0 |-> a] \in [0 .. 0 -> S] /\ Follows([n \in 0 .. 0 |-> a], 0)
    OBVIOUS
  <2> QED BY <2>1
<1>2. ASSUME NEW k \in Nat, k \in T PROVE k + 1 \in T
  <2> SUFFICES ASSUME k + 1 <= K PROVE \E f \in [0 .. k + 1 -> S] : Follows(f, k + 1)
    OBVIOUS
  <2>1. PICK f \in [0 .. k -> S] : Follows(f, k)
    BY <1>2
  <2>2. f[k] \in S /\ << k + 1, f[k] >> \in (1 .. K) \X S /\ F[<< k + 1, f[k] >>] \in S
    BY <1>0
  <2> DEFINE h == [n \in 0 .. k + 1 |-> IF n = k + 1 THEN F[<< k + 1, f[k] >>] ELSE f[n]]
  <2>3. \A n \in 0 .. k + 1 : n = k + 1 \/ n \in 0 .. k
    OBVIOUS
  <2>4. h \in [0 .. k + 1 -> S]
    BY <2>2, <2>3
  <2>5. \A n \in 0 .. k : h[n] = f[n]
    OBVIOUS
  <2>6. h[k + 1] = F[<< k + 1, h[k] >>]
    <3>1. h[k] = f[k] /\ k + 1 \in 0 .. k + 1
      BY <2>5
    <3>2. h[k + 1] = F[<< k + 1, f[k] >>]
      BY <3>1
    <3> HIDE DEF h
    <3> QED BY <3>1, <3>2
  <2>7. \A n \in 0 .. k : n = 0 \/ n - 1 \in 0 .. k
    OBVIOUS
  <2>8. \A n \in 0 .. k : h[n] = IF n = 0 THEN a ELSE F[<< n, h[n - 1] >>]
    <3> HIDE DEF h
    <3> QED BY <2>1, <2>5, <2>7
  <2> HIDE DEF h
  <2>9. Follows(h, k + 1)
    BY <2>3, <2>6, <2>8
  <2> QED BY <2>4, <2>9
<1>3. K \in T
  <2> HIDE DEF T
  <2> QED BY <1>1, <1>2, SetInduction
<1>4. PICK f \in [0 .. K -> S] : Follows(f, K)
  BY <1>3
<1> QED BY <1>4 DEF Iterates

-----------------------------------------------------------------------------
(***************************************************************************)
(* What the blocks of a method end with.                                   *)
(***************************************************************************)
Endings == [branch : SUBSET Node, fall : Node \union {None}, catch : SUBSET Node]

LEMMA ShapesType ==
    ASSUME NEW n \in Node
    PROVE  Shapes(n) \subseteq Endings
<1> SUFFICES ASSUME NEW s \in Shapes(n) PROVE s \in Endings
  OBVIOUS
<1>0. N \in Nat \ {0} /\ n \in 1 .. N
  BY ControlFlowAssumption DEF Node
<1>1. TargetsFrom(n) \subseteq Node
  BY DEF TargetsFrom
<1> DEFINE Ends ==
        {[branch |-> {}, fall |-> None]}
        \union {[branch |-> {}, fall |-> t] : t \in TargetsFrom(n)}
        \union {[branch |-> {t}, fall |-> n + 1] :
                  t \in {u \in TargetsFrom(n) : n < N}}
        \union {[branch |-> T, fall |-> None] :
                  T \in {U \in SUBSET TargetsFrom(n) :
                           Cardinality(U) \in 2 .. MaxCases}}
           Catches == {{}} \union {{h} : h \in {t \in Node : t > n}}
<1>2. Ends \subseteq [branch : SUBSET Node, fall : Node \union {None}]
  <2>1. n < N => n + 1 \in Node
    BY <1>0 DEF Node
  <2> QED BY <1>1, <2>1
<1>3. Catches \subseteq SUBSET Node
  OBVIOUS
<1>4. PICK e \in Ends, c \in Catches : s = [branch |-> e.branch, fall |-> e.fall, catch |-> c]
  BY DEF Shapes
<1>5. e.branch \in SUBSET Node /\ e.fall \in Node \union {None} /\ c \in SUBSET Node
  BY <1>2, <1>3, <1>4
<1> QED BY <1>4, <1>5 DEF Endings

LEMMA MethodsType ==
    ASSUME NEW g \in Methods, NEW n \in Node
    PROVE  g[n] \in Endings
<1>0. N \in Nat \ {0}
  BY ControlFlowAssumption
<1> DEFINE Q == SUBSET Seq(Endings)
           more(m, B) ==
             {Append(p[1], p[2]) : p \in {q \in B \X Shapes(m) : WithinBounds(Append(q[1], q[2]))}}
           F == [p \in (1 .. N) \X Q |-> more(p[1], p[2])]
           step(f, m) == IF m = 0 THEN {<< >>} ELSE more(m, f[m - 1])
<1>1. ASSUME NEW m \in 1 .. N, NEW B \in Q PROVE more(m, B) \in Q
  <2> SUFFICES ASSUME NEW b \in B, NEW s \in Shapes(m) PROVE Append(b, s) \in Seq(Endings)
    OBVIOUS
  <2> QED BY ShapesType DEF Node
<1>2. \E f \in [0 .. N -> Q] : f = [m \in 0 .. N |-> step(f, m)]
  <2>1. F \in Steps(N, Q)
    BY <1>1 DEF Steps
  <2>2. {<< >>} \in Q
    OBVIOUS
  <2>3. \A m \in 1 .. N, B \in Q : F[<< m, B >>] = more(m, B)
    OBVIOUS
  <2> HIDE DEF F, Q, more
  <2> DEFINE start == {<< >>}
  <2> HIDE DEF start
  <2>4. PICK f : Iterates(f, N, Q, start, F)
    BY <1>0, <2>1, <2>2, IterationExists DEF start
  <2>5. \A m \in 0 .. N : m # 0 => m \in 1 .. N /\ f[m - 1] \in Q
    BY <1>0, <2>4 DEF Iterates
  <2>6. \A m \in 0 .. N : f[m] = step(f, m)
    BY <2>3, <2>4, <2>5 DEF start, Iterates
  <2> HIDE DEF step
  <2> QED BY <2>4, <2>6 DEF Iterates
<1>3. Beginnings = [m \in 0 .. N |-> step(Beginnings, m)]
  <2>1. Beginnings = CHOOSE b : b = [m \in 0 .. N |-> step(b, m)]
    BY DEF Beginnings
  <2> HIDE DEF step
  <2> QED BY <1>2, <2>1
<1> DEFINE S == {k \in Nat : k <= N => \A h \in Beginnings[k] : h \in Seq(Endings) /\ Len(h) = k}
<1>4. 0 \in S
  <2>1. Beginnings[0] = {<< >>}
    <3>1. 0 \in 0 .. N
      BY <1>0
    <3>2. step(Beginnings, 0) = {<< >>}
      <4> HIDE DEF more
      <4> QED OBVIOUS
    <3> HIDE DEF step
    <3> QED BY <1>3, <3>1, <3>2
  <2>2. << >> \in Seq(Endings) /\ Len(<< >>) = 0
    OBVIOUS
  <2> QED BY <2>1, <2>2
<1>5. ASSUME NEW k \in Nat, k \in S PROVE k + 1 \in S
  <2> SUFFICES ASSUME k + 1 <= N, NEW h \in Beginnings[k + 1] PROVE h \in Seq(Endings) /\ Len(h) = k + 1
    OBVIOUS
  <2>1. k + 1 \in Node /\ k + 1 \in 0 .. N /\ k + 1 # 0 /\ k + 1 - 1 = k
    BY <1>0 DEF Node
  <2>2. Beginnings[k + 1] = step(Beginnings, k + 1)
    <3> HIDE DEF step
    <3> QED BY <1>3, <2>1
  <2>3. PICK b \in Beginnings[k], s \in Shapes(k + 1) : h = Append(b, s)
    <3>1. h \in more(k + 1, Beginnings[k])
      BY <2>1, <2>2
    <3> QED BY <3>1
  <2>4. b \in Seq(Endings) /\ Len(b) = k /\ s \in Endings
    BY <1>0, <1>5, <2>1, <2>3, ShapesType
  <2> QED BY <2>3, <2>4, AppendProperties
<1>6. N \in S
  <2> HIDE DEF S
  <2> QED BY <1>0, <1>4, <1>5, SetInduction
<1>7. g \in Seq(Endings) /\ Len(g) = N
  BY <1>0, <1>6 DEF Methods
<1> QED BY <1>7 DEF Node

-----------------------------------------------------------------------------
(***************************************************************************)
(* The walks of the traversal, without the recursion: a walk begins at the *)
(* start, follows the edges, and has gone on at every node but its last.   *)
(***************************************************************************)
IsWalk(g, w) ==
    /\ w \in Seq(Node)
    /\ Len(w) \in 1 .. 2 * N + 1
    /\ w[1] = Start
    /\ \A i \in 1 .. Len(w) - 1 :
         w[i + 1] \in Successors(g, w[i]) /\ \A j \in 1 .. i - 2 : w[j] # w[i]

LEMMA SuccessorsType ==
    ASSUME NEW g \in Methods, NEW n \in Node
    PROVE  Successors(g, n) \subseteq Node
BY MethodsType DEF Endings, Successors, Jumps

LEMMA SubSeqOf ==
    ASSUME NEW S, NEW s \in Seq(S), NEW k \in 0 .. Len(s)
    PROVE  /\ SubSeq(s, 1, k) \in Seq(S)
           /\ Len(SubSeq(s, 1, k)) = k
           /\ \A i \in 1 .. k : SubSeq(s, 1, k)[i] = s[i]
<1>1. Len(s) \in Nat /\ \A i \in 1 .. k : s[i] \in S
  BY ElementOfSeq
<1>2. /\ SubSeq(s, 1, k) \in Seq(S)
      /\ Len(SubSeq(s, 1, k)) = IF 1 <= k THEN k - 1 + 1 ELSE 0
      /\ \A i \in 1 .. k - 1 + 1 : SubSeq(s, 1, k)[i] = s[1 + i - 1]
  BY <1>1, SubSeqProperties
<1> QED BY <1>1, <1>2

LEMMA WalksAre ==
    ASSUME NEW g \in Methods, NEW w
    PROVE  w \in Walks(g) <=> IsWalk(g, w)
<1>0. N \in Nat \ {0} /\ 2 * N \in Nat /\ Start \in Node
  BY ControlFlowAssumption DEF Node, Start
<1> DEFINE K == 2 * N
           Q == SUBSET Seq(Node)
           start == {<< Start >>}
           more(V) == UNION {{Append(v, t) : t \in Successors(g, Last(v))} : v \in {u \in V : GoesOn(u)}}
           F == [p \in (1 .. K) \X {V \in Q : << >> \notin V} |-> more(p[2])]
           step(f, k) == IF k = 0 THEN start ELSE more(f[k - 1])
<1>1. ASSUME NEW V \in Q, << >> \notin V PROVE more(V) \in Q /\ << >> \notin more(V)
  <2> SUFFICES ASSUME NEW v \in V, NEW t \in Successors(g, Last(v))
               PROVE Append(v, t) \in Seq(Node) /\ Append(v, t) # << >>
    OBVIOUS
  <2>1. v \in Seq(Node) /\ v # << >>
    BY <1>1
  <2>2. Last(v) \in Node
    BY <2>1, EmptySeq, ElementOfSeq DEF Last
  <2>3. t \in Node
    BY <2>2, SuccessorsType
  <2> QED BY <2>1, <2>3, AppendProperties
<1>2. \E f : f = [k \in 0 .. K |-> step(f, k)]
  <2> DEFINE D == {V \in Q : << >> \notin V}
  <2>1. F \in Steps(K, D)
    BY <1>1 DEF Steps
  <2>2. start \in D
    <3>1. << Start >> \in Seq(Node) /\ << Start >> # << >>
      BY <1>0
    <3> QED BY <3>1
  <2>3. \A k \in 1 .. K, V \in D : F[<< k, V >>] = more(V)
    OBVIOUS
  <2>5. K \in Nat
    BY <1>0
  <2> HIDE DEF F, D, more, start, K
  <2>4. PICK f : Iterates(f, K, D, start, F)
    BY <2>1, <2>2, <2>5, IterationExists
  <2>6. \A k \in 0 .. K : k # 0 => k \in 1 .. K /\ f[k - 1] \in D
    BY <2>4, <2>5 DEF Iterates
  <2>7. \A k \in 0 .. K : f[k] = step(f, k)
    BY <2>3, <2>4, <2>6 DEF Iterates
  <2> HIDE DEF step
  <2> QED BY <2>4, <2>7 DEF Iterates
<1>3. PICK f : f = CHOOSE h : h = [k \in 0 .. K |-> step(h, k)]
  OBVIOUS
<1>4. f = [k \in 0 .. K |-> step(f, k)]
  <2> HIDE DEF step, K
  <2> QED BY <1>2, <1>3
<1>5. Walks(g) = UNION {f[k] : k \in 0 .. K}
  <2>1. Walks(g) = LET walks == CHOOSE h : h = [k \in 0 .. K |-> step(h, k)]
                   IN  UNION {walks[k] : k \in 0 .. K}
    BY DEF Walks
  <2> HIDE DEF step, K
  <2> QED BY <1>3, <2>1
<1> DEFINE P(k) == /\ f[k] \subseteq Seq(Node)
                   /\ \A v \in Seq(Node) : v \in f[k] <=> IsWalk(g, v) /\ Len(v) = k + 1
           S == {k \in Nat : k <= K => P(k)}
<1>6. 0 \in S
  <2>1. f[0] = start
    <3>1. 0 \in 0 .. K /\ step(f, 0) = start
      <4> HIDE DEF more
      <4> QED BY <1>0
    <3> HIDE DEF step, start
    <3> QED BY <1>4, <3>1
  <2>2. << Start >> \in Seq(Node)
    BY <1>0
  <2>3. ASSUME NEW v \in Seq(Node) PROVE v = << Start >> <=> IsWalk(g, v) /\ Len(v) = 0 + 1
    <3>1. CASE v = << Start >>
      BY <1>0, <2>2, <3>1 DEF IsWalk
    <3>2. CASE IsWalk(g, v) /\ Len(v) = 1
      <4>1. v[1] = Start
        BY <3>2 DEF IsWalk
      <4> QED BY <2>2, <3>2, <4>1, SeqEqual
    <3> QED BY <3>1, <3>2
  <2> QED BY <2>1, <2>2, <2>3
<1>7. ASSUME NEW k \in Nat, k \in S PROVE k + 1 \in S
  <2> SUFFICES ASSUME k + 1 <= K PROVE P(k + 1)
    OBVIOUS
  <2>0. K \in Nat
    BY <1>0
  <2>1. f[k + 1] = more(f[k])
    <3>1. k + 1 \in 0 .. K /\ step(f, k + 1) = more(f[k])
      <4>1. k + 1 # 0 /\ k + 1 - 1 = k
        OBVIOUS
      <4> HIDE DEF more, K
      <4> QED BY <2>0, <4>1
    <3> HIDE DEF step, more
    <3> QED BY <1>4, <3>1
  <2>2. P(k)
    BY <1>7, <2>0
  <2> HIDE DEF K, S
  <2>3. f[k] \in Q /\ << >> \notin f[k]
    BY <2>2 DEF IsWalk
  <2>4. f[k + 1] \subseteq Seq(Node)
    BY <1>1, <2>1, <2>3
  <2>5. ASSUME NEW v \in f[k + 1] PROVE IsWalk(g, v) /\ Len(v) = k + 2
    <3>1. PICK u \in f[k] : GoesOn(u) /\ \E t \in Successors(g, Last(u)) : v = Append(u, t)
      BY <2>1
    <3>2. PICK t \in Successors(g, Last(u)) : v = Append(u, t)
      BY <3>1
    <3>3. IsWalk(g, u) /\ Len(u) = k + 1 /\ u \in Seq(Node)
      BY <2>2
    <3>4. Last(u) = u[k + 1] /\ u[k + 1] \in Node
      BY <3>3, ElementOfSeq DEF Last
    <3>5. t \in Node
      BY <3>4, SuccessorsType
    <3>6. /\ v \in Seq(Node) /\ Len(v) = k + 2 /\ v[k + 2] = t
          /\ \A i \in 1 .. k + 1 : v[i] = u[i]
      BY <3>2, <3>3, <3>5, AppendProperties
    <3>7. v[1] = Start
      BY <3>3, <3>6 DEF IsWalk
    <3>8. ASSUME NEW i \in 1 .. k + 1
          PROVE  v[i + 1] \in Successors(g, v[i]) /\ \A j \in 1 .. i - 2 : v[j] # v[i]
      <4>1. CASE i = k + 1
        <5>1. \A j \in 1 .. k - 1 : u[j] # u[k + 1]
          BY <3>1, <3>3, <3>4 DEF GoesOn
        <5>2. v[i] = u[k + 1] /\ \A j \in 1 .. i - 2 : v[j] = u[j]
          BY <3>6, <4>1
        <5> QED BY <3>2, <3>4, <3>6, <4>1, <5>1, <5>2
      <4>2. CASE i # k + 1
        <5>1. i \in 1 .. Len(u) - 1 /\ i \in 1 .. k + 1 /\ i + 1 \in 1 .. k + 1
          BY <3>3, <4>2
        <5>2. u[i + 1] \in Successors(g, u[i]) /\ \A j \in 1 .. i - 2 : u[j] # u[i]
          BY <3>3, <5>1 DEF IsWalk
        <5>3. \A j \in 1 .. i - 2 : j \in 1 .. k + 1
          BY <5>1
        <5> QED BY <3>6, <5>1, <5>2, <5>3
      <4> QED BY <4>1, <4>2
    <3> QED BY <2>0, <3>6, <3>7, <3>8 DEF IsWalk, K
  <2>6. ASSUME NEW v \in Seq(Node), IsWalk(g, v), Len(v) = k + 2 PROVE v \in f[k + 1]
    <3> DEFINE u == SubSeq(v, 1, k + 1)
               t == v[k + 2]
    <3>1. u \in Seq(Node) /\ Len(u) = k + 1 /\ \A i \in 1 .. k + 1 : u[i] = v[i]
      BY <2>6, SubSeqOf
    <3>2. t \in Node
      BY <2>6, ElementOfSeq
    <3> HIDE DEF u
    <3>3. IsWalk(g, u)
      <4>1. u[1] = Start
        BY <2>6, <3>1 DEF IsWalk
      <4>2. ASSUME NEW i \in 1 .. k
            PROVE  u[i + 1] \in Successors(g, u[i]) /\ \A j \in 1 .. i - 2 : u[j] # u[i]
        <5>1. v[i + 1] \in Successors(g, v[i]) /\ \A j \in 1 .. i - 2 : v[j] # v[i]
          BY <2>6 DEF IsWalk
        <5> QED BY <3>1, <5>1
      <4> QED BY <2>0, <3>1, <4>1, <4>2 DEF IsWalk, K
    <3>4. Last(u) = v[k + 1] /\ GoesOn(u)
      <4>1. Last(u) = v[k + 1]
        BY <3>1 DEF Last
      <4>2. \A j \in 1 .. (k + 1) - 2 : v[j] # v[k + 1]
        BY <2>6 DEF IsWalk
      <4> QED BY <3>1, <4>1, <4>2 DEF GoesOn
    <3>5. t \in Successors(g, Last(u))
      <4>1. v[(k + 1) + 1] \in Successors(g, v[k + 1])
        BY <2>6 DEF IsWalk
      <4> QED BY <3>4, <4>1
    <3>6. v = Append(u, t)
      <4>1. /\ Append(u, t) \in Seq(Node) /\ Len(Append(u, t)) = k + 2
            /\ \A i \in 1 .. k + 1 : Append(u, t)[i] = v[i]
            /\ Append(u, t)[k + 2] = v[k + 2]
        BY <3>1, <3>2, AppendProperties
      <4>2. \A i \in 1 .. k + 2 : Append(u, t)[i] = v[i]
        BY <4>1
      <4> HIDE DEF t
      <4> QED BY <2>6, <4>1, <4>2, SeqEqual
    <3>7. u \in f[k]
      BY <2>2, <3>1, <3>3
    <3> QED BY <2>1, <3>4, <3>5, <3>6, <3>7
  <2> QED BY <2>4, <2>5, <2>6
<1>8. \A k \in 0 .. K : P(k)
  <2> HIDE DEF P
  <2>1. Nat \subseteq S
    <3> HIDE DEF S
    <3> QED BY <1>6, <1>7, SetInduction
  <2> QED BY <1>0, <2>1
<1> HIDE DEF step
<1>9. ASSUME w \in Walks(g) PROVE IsWalk(g, w)
  BY <1>5, <1>8, <1>9
<1>10. ASSUME IsWalk(g, w) PROVE w \in Walks(g)
  <2>1. w \in Seq(Node) /\ Len(w) - 1 \in 0 .. K /\ Len(w) = (Len(w) - 1) + 1
    BY <1>0, <1>10 DEF IsWalk
  <2>2. w \in f[Len(w) - 1]
    BY <1>8, <1>10, <2>1
  <2> QED BY <1>5, <2>1, <2>2
<1> QED BY <1>9, <1>10

LEMMA LeastElement ==
    ASSUME NEW T, T \subseteq Nat, T # {}
    PROVE  \E m \in T : \A x \in T : m <= x
<1> DEFINE S == {k \in Nat : \A x \in T : x >= k}
<1>1. SUFFICES ASSUME \A m \in T : \E x \in T : ~(m <= x) PROVE FALSE
  OBVIOUS
<1>2. 0 \in S
  OBVIOUS
<1>3. ASSUME NEW k \in Nat, k \in S PROVE k + 1 \in S
  <2>1. k \notin T
    BY <1>1, <1>3
  <2> QED BY <1>3, <2>1
<1>4. Nat \subseteq S
  <2> HIDE DEF S
  <2> QED BY <1>2, <1>3, SetInduction
<1>5. PICK t \in T : TRUE
  OBVIOUS
<1>6. t + 1 \in S
  BY <1>4
<1> QED BY <1>6

-----------------------------------------------------------------------------
(***************************************************************************)
(* The paths of a node: each is a walk but for its last node.              *)
(***************************************************************************)
Paths(g, n) == ReachableBy(g)[n]

LEMMA AppendOf ==
    ASSUME NEW S, NEW s \in Seq(S), NEW x \in S
    PROVE  /\ Append(s, x) \in Seq(S)
           /\ Len(Append(s, x)) = Len(s) + 1
           /\ \A i \in 1 .. Len(s) : Append(s, x)[i] = s[i]
           /\ Append(s, x)[Len(s) + 1] = x
BY AppendProperties

LEMMA FrontOfAppend ==
    ASSUME NEW S, NEW s \in Seq(S), NEW x \in S
    PROVE  Front(Append(s, x)) = s /\ Last(Append(s, x)) = x
<1>1. Len(s) \in Nat
  OBVIOUS
<1>2. Len(Append(s, x)) - 1 = Len(s) /\ Len(s) \in 0 .. Len(Append(s, x))
  BY <1>1, AppendOf
<1>3. /\ SubSeq(Append(s, x), 1, Len(s)) \in Seq(S)
      /\ Len(SubSeq(Append(s, x), 1, Len(s))) = Len(s)
      /\ \A i \in 1 .. Len(s) : SubSeq(Append(s, x), 1, Len(s))[i] = s[i]
  BY <1>2, AppendOf, SubSeqOf
<1>4. SubSeq(Append(s, x), 1, Len(s)) = s
  BY <1>3, SeqEqual
<1> QED BY <1>1, <1>2, <1>4, AppendOf DEF Front, Last

LEMMA AppendOfFront ==
    ASSUME NEW S, NEW s \in Seq(S), s # << >>
    PROVE  /\ Len(s) \in Nat \ {0}
           /\ Front(s) \in Seq(S) /\ Last(s) \in S
           /\ s = Append(Front(s), Last(s))
<1>1. Len(s) \in Nat \ {0}
  BY EmptySeq
<1>2. Last(s) \in S
  BY <1>1, ElementOfSeq DEF Last
<1>3. /\ Front(s) \in Seq(S) /\ Len(Front(s)) = Len(s) - 1
      /\ \A i \in 1 .. Len(s) - 1 : Front(s)[i] = s[i]
  <2>1. Len(s) - 1 \in 0 .. Len(s)
    BY <1>1
  <2> QED BY <2>1, SubSeqOf DEF Front
<1> DEFINE u == Append(Front(s), Last(s))
<1>4. /\ u \in Seq(S) /\ Len(u) = Len(s) /\ u[Len(s)] = Last(s)
      /\ \A i \in 1 .. Len(s) - 1 : u[i] = s[i]
  BY <1>1, <1>2, <1>3, AppendOf
<1>5. \A i \in 1 .. Len(s) : u[i] = s[i]
  BY <1>1, <1>4 DEF Last
<1> HIDE DEF u
<1>6. u = s
  BY <1>4, <1>5, SeqEqual
<1> QED BY <1>1, <1>2, <1>3, <1>6 DEF u

LEMMA PathsAre ==
    ASSUME NEW g \in Methods, NEW n \in Node, NEW path
    PROVE  path \in Paths(g, n) <=> path \in Seq(Node) /\ IsWalk(g, Append(path, n))
<1>1. Paths(g, n) = {Front(w) : w \in {v \in Walks(g) : Last(v) = n}}
  BY DEF Paths, ReachableBy
<1>2. ASSUME path \in Paths(g, n) PROVE path \in Seq(Node) /\ IsWalk(g, Append(path, n))
  <2>1. PICK w \in Walks(g) : Last(w) = n /\ path = Front(w)
    BY <1>1, <1>2
  <2>2. IsWalk(g, w)
    BY <2>1, WalksAre
  <2>3. w \in Seq(Node) /\ w # << >>
    BY <2>2 DEF IsWalk
  <2> QED BY <2>1, <2>2, <2>3, AppendOfFront
<1>3. ASSUME path \in Seq(Node), IsWalk(g, Append(path, n)) PROVE path \in Paths(g, n)
  <2>1. Append(path, n) \in Walks(g)
    BY <1>3, WalksAre
  <2>2. Front(Append(path, n)) = path /\ Last(Append(path, n)) = n
    BY <1>3, FrontOfAppend
  <2> QED BY <1>1, <2>1, <2>2
<1> QED BY <1>2, <1>3

LEMMA PathPrefix ==
    ASSUME NEW g \in Methods, NEW n \in Node, NEW path \in Paths(g, n), NEW i \in 1 .. Len(path)
    PROVE  path[i] \in Node /\ SubSeq(path, 1, i - 1) \in Paths(g, path[i])
<1>0. N \in Nat \ {0} /\ 2 * N \in Nat
  BY ControlFlowAssumption
<1>1. path \in Seq(Node) /\ IsWalk(g, Append(path, n))
  BY PathsAre
<1>2. Len(path) \in Nat /\ i \in Nat /\ path[i] \in Node
  BY <1>1, ElementOfSeq
<1> DEFINE w == Append(path, n)
           p == SubSeq(path, 1, i - 1)
           u == Append(p, path[i])
<1>3. w \in Seq(Node) /\ Len(w) = Len(path) + 1 /\ \A j \in 1 .. Len(path) : w[j] = path[j]
  BY <1>1, AppendOf
<1>4. p \in Seq(Node) /\ Len(p) = i - 1 /\ \A j \in 1 .. i - 1 : p[j] = path[j]
  BY <1>1, <1>2, SubSeqOf
<1> HIDE DEF p
<1>5. u \in Seq(Node) /\ Len(u) = i /\ u[i] = path[i] /\ \A j \in 1 .. i - 1 : u[j] = path[j]
  BY <1>2, <1>4, AppendOf
<1>6. \A j \in 1 .. i : u[j] = w[j]
  BY <1>2, <1>3, <1>5
<1>7. IsWalk(g, w)
  BY <1>1
<1> HIDE DEF u, w
<1>8. i \in 1 .. 2 * N + 1
  BY <1>0, <1>2, <1>3, <1>7 DEF IsWalk
<1>9. ASSUME NEW k \in 1 .. i - 1
      PROVE  u[k + 1] \in Successors(g, u[k]) /\ \A j \in 1 .. k - 2 : u[j] # u[k]
  <2>1. k \in 1 .. Len(w) - 1 /\ k \in 1 .. i /\ k + 1 \in 1 .. i
    BY <1>2, <1>3
  <2>2. w[k + 1] \in Successors(g, w[k]) /\ \A j \in 1 .. k - 2 : w[j] # w[k]
    BY <1>7, <2>1 DEF IsWalk
  <2>3. \A j \in 1 .. k - 2 : j \in 1 .. i
    BY <2>1
  <2> QED BY <1>6, <2>1, <2>2, <2>3
<1>10. IsWalk(g, u)
  <2>1. u[1] = Start
    BY <1>2, <1>6, <1>7 DEF IsWalk
  <2> QED BY <1>5, <1>8, <1>9, <2>1 DEF IsWalk
<1>11. p \in Paths(g, path[i])
  BY <1>2, <1>4, <1>10, PathsAre DEF u
<1> QED BY <1>2, <1>11 DEF p

LEMMA PathFromStart ==
    ASSUME NEW g \in Methods, NEW n \in Node, NEW path \in Paths(g, n)
    PROVE  /\ path \in Seq(Node) /\ Len(path) \in Nat
           /\ IF Len(path) = 0 THEN n = Start ELSE path[1] = Start
<1>1. path \in Seq(Node) /\ IsWalk(g, Append(path, n)) /\ Len(path) \in Nat
  BY PathsAre
<1>2. Append(path, n)[1] = Start
  BY <1>1 DEF IsWalk
<1> QED BY <1>1, <1>2, AppendOf

LEMMA IntervalIsFinite ==
    ASSUME NEW n \in Nat
    PROVE  IsFiniteSet(1 .. n) /\ Cardinality(1 .. n) = n
<1>1. 1 \in Int /\ n \in Int
  OBVIOUS
<1>2. IsFiniteSet(1 .. n) /\ Cardinality(1 .. n) = IF 1 > n THEN 0 ELSE n - 1 + 1
  BY <1>1, FS_Interval
<1> QED BY <1>2

(***************************************************************************)
(* A walk goes on from a node it has not been to.  There is room for one   *)
(* more node: a walk of 2 * N + 1 nodes that goes on would have N + 1      *)
(* different ones, every other of its nodes.                               *)
(***************************************************************************)
LEMMA PathExtends ==
    ASSUME NEW g \in Methods, NEW n \in Node, NEW path \in Paths(g, n), n \notin ToSet(path),
           NEW b \in Successors(g, n)
    PROVE  Append(path, n) \in Paths(g, b)
<1>0. N \in Nat \ {0} /\ 2 * N \in Nat
  BY ControlFlowAssumption
<1>1. path \in Seq(Node) /\ IsWalk(g, Append(path, n)) /\ Len(path) \in Nat
  BY PathsAre
<1>2. b \in Node
  BY SuccessorsType
<1> DEFINE w == Append(path, n)
           u == Append(w, b)
           L == Len(path)
<1>3. /\ w \in Seq(Node) /\ Len(w) = L + 1 /\ w[L + 1] = n
      /\ \A i \in 1 .. L : w[i] = path[i]
  BY <1>1, AppendOf
<1>4. IsWalk(g, w)
  BY <1>1
<1>5. \A i \in 1 .. L : path[i] # n
  BY <1>1 DEF ToSet
<1> HIDE DEF w
<1>6. ASSUME NEW i \in 1 .. L + 1, NEW j \in 1 .. i - 2 PROVE w[j] # w[i]
  <2>0. L \in Nat
    BY <1>1
  <2>1. CASE i = L + 1
    <3>1. j \in 1 .. L
      BY <2>0, <2>1
    <3> QED BY <1>3, <1>5, <2>1, <3>1
  <2>2. CASE i # L + 1
    <3>1. i \in 1 .. Len(w) - 1
      BY <1>3, <2>0, <2>2
    <3> QED BY <1>4, <3>1 DEF IsWalk
  <2> QED BY <2>1, <2>2
<1>7. L + 1 <= 2 * N
  <2> SUFFICES ASSUME ~(L + 1 <= 2 * N) PROVE FALSE
    OBVIOUS
  <2> DEFINE f == [i \in 1 .. N + 1 |-> w[2 * i - 1]]
  <2>1. \A i \in 1 .. N + 1 : 2 * i - 1 \in 1 .. L + 1
    BY <1>0, <1>1
  <2>2. f \in [1 .. N + 1 -> Node]
    <3>1. \A i \in 1 .. N + 1 : w[2 * i - 1] \in Node
      BY <1>3, <2>1, ElementOfSeq
    <3> QED BY <3>1
  <2>3. IsFiniteSet(1 .. N + 1) /\ Cardinality(1 .. N + 1) = N + 1
    BY <1>0, IntervalIsFinite
  <2>4. IsFiniteSet(Node) /\ Cardinality(Node) = N
    BY <1>0, IntervalIsFinite DEF Node
  <2> DEFINE D == 1 .. N + 1
  <2>5. Cardinality(Node) < Cardinality(D)
    BY <1>0, <2>3, <2>4
  <2>6. f \in [D -> Node] /\ IsFiniteSet(D)
    BY <2>2, <2>3
  <2>7. \A i, j \in D : i # j => w[2 * i - 1] # w[2 * j - 1]
    <3>1. ASSUME NEW i \in D, NEW j \in D, i < j PROVE w[2 * i - 1] # w[2 * j - 1]
      <4>1. 2 * j - 1 \in 1 .. L + 1
        BY <2>1
      <4>2. 2 * i - 1 \in 1 .. (2 * j - 1) - 2
        BY <1>0, <3>1
      <4> QED BY <1>6, <4>1, <4>2
    <3>2. \A i, j \in D : i # j => i < j \/ j < i
      BY <1>0
    <3> QED BY <3>1, <3>2
  <2>8. \A i \in D : f[i] = w[2 * i - 1]
    OBVIOUS
  <2> HIDE DEF f, D
  <2>9. \E i, j \in D : i # j /\ f[i] = f[j]
    BY <2>4, <2>5, <2>6, FS_PigeonHole
  <2> QED BY <2>7, <2>8, <2>9
<1>8. /\ u \in Seq(Node) /\ Len(u) = L + 2 /\ u[L + 2] = b
      /\ \A i \in 1 .. L + 1 : u[i] = w[i]
  <2>1. Len(w) + 1 = L + 2
    BY <1>1, <1>3
  <2> QED BY <1>2, <1>3, <2>1, AppendOf
<1> HIDE DEF u
<1>9. IsWalk(g, u)
  <2>1. u[1] = Start
    BY <1>1, <1>4, <1>8 DEF IsWalk
  <2>2. Len(u) \in 1 .. 2 * N + 1
    BY <1>0, <1>1, <1>7, <1>8
  <2>3. ASSUME NEW i \in 1 .. L + 1
        PROVE  u[i + 1] \in Successors(g, u[i]) /\ \A j \in 1 .. i - 2 : u[j] # u[i]
    <3>0. L \in Nat
      BY <1>1
    <3>1. \A j \in 1 .. i - 2 : u[j] # u[i]
      <4>1. \A j \in 1 .. i - 2 : j \in 1 .. L + 1
        BY <3>0
      <4> QED BY <1>6, <1>8, <4>1
    <3>2. CASE i = L + 1
      BY <1>3, <1>8, <3>0, <3>1, <3>2
    <3>3. CASE i # L + 1
      <4>1. i \in 1 .. Len(w) - 1 /\ i + 1 \in 1 .. L + 1
        BY <1>3, <3>0, <3>3
      <4>2. w[i + 1] \in Successors(g, w[i])
        BY <1>4, <4>1 DEF IsWalk
      <4> QED BY <1>8, <3>1, <4>1, <4>2
    <3> QED BY <3>2, <3>3
  <2>4. Len(u) - 1 = L + 1
    BY <1>1, <1>8
  <2> QED BY <1>8, <2>1, <2>2, <2>3, <2>4 DEF IsWalk
<1> QED BY <1>2, <1>3, <1>9, PathsAre DEF u, w

LEMMA ShortPath ==
    ASSUME NEW g \in Methods, NEW n \in Node
    PROVE  \E path \in Paths(g, n) : n \notin ToSet(path)
<1>1. PICK path \in Paths(g, n) : TRUE
  BY DEF Methods, WellFormed, NoDeadCode, Paths
<1>2. path \in Seq(Node) /\ Len(path) \in Nat
  BY PathFromStart
<1> DEFINE T == {i \in 1 .. Len(path) : path[i] = n}
<1>3. CASE T = {}
  BY <1>1, <1>2, <1>3 DEF ToSet
<1>4. CASE T # {}
  <2>1. T \subseteq Nat
    OBVIOUS
  <2> HIDE DEF T
  <2>2. PICK i \in T : \A x \in T : i <= x
    BY <1>4, <2>1, LeastElement
  <2>3. i \in 1 .. Len(path) /\ path[i] = n
    BY DEF T
  <2> DEFINE p == SubSeq(path, 1, i - 1)
  <2>4. p \in Paths(g, n)
    BY <2>3, PathPrefix
  <2>5. p \in Seq(Node) /\ Len(p) = i - 1 /\ \A j \in 1 .. i - 1 : p[j] = path[j]
    BY <1>2, <2>3, SubSeqOf
  <2> HIDE DEF p
  <2>6. ASSUME NEW j \in 1 .. i - 1 PROVE p[j] # n
    <3>1. j \in 1 .. Len(path) /\ ~(i <= j)
      BY <1>2, <2>3
    <3> QED BY <2>2, <2>5, <3>1 DEF T
  <2>7. n \notin ToSet(p)
    BY <2>5, <2>6 DEF ToSet
  <2> QED BY <2>4, <2>7
<1> QED BY <1>3, <1>4

-----------------------------------------------------------------------------
(***************************************************************************)
(* Dominance in the method's graph is an order.                            *)
(***************************************************************************)
Dominates(g, a, b) == a = b \/ \A path \in Paths(g, b) : a \in ToSet(path)

LEMMA PathOfNodes ==
    ASSUME NEW g \in Methods, NEW n \in Node, NEW path \in Paths(g, n), NEW a \in ToSet(path)
    PROVE  \E i \in 1 .. Len(path) :
             /\ path[i] = a /\ a \in Node
             /\ SubSeq(path, 1, i - 1) \in Paths(g, a)
             /\ Len(SubSeq(path, 1, i - 1)) = i - 1
             /\ ToSet(SubSeq(path, 1, i - 1)) \subseteq ToSet(path)
<1>1. path \in Seq(Node) /\ Len(path) \in Nat
  BY PathFromStart
<1>2. PICK i \in 1 .. Len(path) : path[i] = a
  BY <1>1 DEF ToSet
<1>3. a \in Node /\ SubSeq(path, 1, i - 1) \in Paths(g, a)
  BY <1>2, PathPrefix
<1> DEFINE p == SubSeq(path, 1, i - 1)
<1>4. p \in Seq(Node) /\ Len(p) = i - 1 /\ \A j \in 1 .. i - 1 : p[j] = path[j]
  BY <1>1, SubSeqOf
<1> HIDE DEF p
<1>5. ToSet(p) \subseteq ToSet(path)
  <2>1. \A j \in 1 .. i - 1 : j \in 1 .. Len(path)
    BY <1>1
  <2> QED BY <1>1, <1>4, <2>1 DEF ToSet
<1> QED BY <1>2, <1>3, <1>4, <1>5 DEF p

LEMMA DominatesTransitive ==
    ASSUME NEW g \in Methods, NEW a \in Node, NEW b \in Node, NEW c \in Node,
           Dominates(g, a, b), Dominates(g, b, c)
    PROVE  Dominates(g, a, c)
<1>1. SUFFICES ASSUME a # b, b # c, NEW path \in Paths(g, c) PROVE a \in ToSet(path)
  BY DEF Dominates
<1>2. b \in ToSet(path)
  BY <1>1 DEF Dominates
<1>3. PICK p \in Paths(g, b) : ToSet(p) \subseteq ToSet(path)
  BY <1>2, PathOfNodes
<1>4. a \in ToSet(p)
  BY <1>1 DEF Dominates
<1> QED BY <1>3, <1>4

LEMMA DominatesAntisymmetric ==
    ASSUME NEW g \in Methods, NEW a \in Node, NEW b \in Node,
           Dominates(g, a, b), Dominates(g, b, a)
    PROVE  a = b
<1> SUFFICES ASSUME a # b PROVE FALSE
  OBVIOUS
<1> DEFINE T == {Len(path) : path \in Paths(g, a) \union Paths(g, b)}
<1>1. T \subseteq Nat
  BY PathFromStart
<1>2. T # {}
  BY ShortPath
<1>3. PICK m \in T : \A x \in T : m <= x
  BY <1>1, <1>2, LeastElement
<1>4. ASSUME NEW c \in {a, b}, NEW d \in {a, b}, c # d, NEW path \in Paths(g, c), Len(path) = m
      PROVE  FALSE
  <2>1. d \in ToSet(path)
    BY <1>4 DEF Dominates
  <2>2. PICK i \in 1 .. Len(path) : /\ SubSeq(path, 1, i - 1) \in Paths(g, d)
                                    /\ Len(SubSeq(path, 1, i - 1)) = i - 1
    BY <1>4, <2>1, PathOfNodes
  <2>3. i - 1 \in T
    BY <1>4, <2>2
  <2>4. Len(path) \in Nat
    BY <1>4, PathFromStart
  <2> QED BY <1>3, <1>4, <2>2, <2>3, <2>4
<1>5. PICK path \in Paths(g, a) \union Paths(g, b) : Len(path) = m
  OBVIOUS
<1> QED BY <1>4, <1>5

-----------------------------------------------------------------------------
(***************************************************************************)
(* The graph while the optimizer deletes nodes from it.                    *)
(***************************************************************************)
GotoType == [from : Node, to : Node, last : BOOLEAN]

EdgeType == [from : Node, to : Node, back : BOOLEAN]

GraphType ==
    /\ graph \in Methods
    /\ reachableBy = ReachableBy(graph)
    /\ nodes \subseteq Node
    /\ edges \subseteq EdgeType
    /\ code \in [Node -> SUBSET GotoType]

(* A goto whose target was deleted is not reached from a remaining node.   *)
GotosLead == \A m \in Node : \A g \in code[m] : g.to \in nodes \/ Predecessors(g.to) = {}

(* A normal edge does not lead to a node that dominates the one it leaves. *)
EdgesGoForward ==
    Start \in nodes => \A e \in edges : ~e.back => ~Dominates(graph, e.to, e.from)

GraphInv == GraphType /\ GotosLead /\ EdgesGoForward

graphVars == <<graph, edges, reachableBy, nodes, code>>

LEMMA GotosType ==
    ASSUME NEW g \in Methods, NEW n \in Node
    PROVE  GotosOf(g, n) \subseteq GotoType
<1>1. g[n] \in Endings
  BY MethodsType
<1> SUFFICES ASSUME NEW h \in GotosOf(g, n) PROVE h \in GotoType
  OBVIOUS
<1>2. g[n].branch \subseteq Node /\ {g[n].fall} \ {None} \subseteq Node
  BY <1>1 DEF Endings
<1>3. \A t \in Node : Goto(n, t, FALSE) \in GotoType /\ Goto(n, t, TRUE) \in GotoType
  BY DEF Goto, GotoType
<1> QED BY <1>2, <1>3 DEF GotosOf

LEMMA GraphInit ==
    ASSUME RInit
    PROVE  GraphInv
<1>0. Start \in Node /\ graph \in Methods /\ reachableBy = ReachableBy(graph) /\ nodes = Node
  BY ControlFlowAssumption DEF RInit, Init, Node, Start
<1>1. code \in [Node -> SUBSET GotoType]
  BY <1>0, GotosType DEF RInit
<1>2. ASSUME NEW e \in edges
      PROVE  \E m \in Node, n \in Node :
                n \in Successors(graph, m) /\ e = Edge(m, n, IsBackEdge(reachableBy, m, n))
  BY DEF RInit
<1>3. edges \subseteq EdgeType
  <2> SUFFICES ASSUME NEW e \in edges PROVE e \in EdgeType
    OBVIOUS
  <2>1. PICK m \in Node, n \in Node : e = Edge(m, n, IsBackEdge(reachableBy, m, n))
    BY <1>2
  <2>2. IsBackEdge(reachableBy, m, n) \in BOOLEAN
    BY DEF IsBackEdge
  <2> QED BY <2>1, <2>2 DEF Edge, EdgeType
<1>4. GotosLead
  BY <1>0, <1>1 DEF GotosLead, GotoType
<1>5. EdgesGoForward
  <2> SUFFICES ASSUME NEW e \in edges, Dominates(graph, e.to, e.from) PROVE e.back
    BY DEF EdgesGoForward
  <2>1. PICK m \in Node, n \in Node :
          n \in Successors(graph, m) /\ e = Edge(m, n, IsBackEdge(reachableBy, m, n))
    BY <1>2
  <2>2. Dominates(graph, n, m) /\ e.back = IsBackEdge(reachableBy, m, n)
    BY <2>1 DEF Edge
  <2>3. PICK p \in Paths(graph, m) : m \notin ToSet(p)
    BY <1>0, ShortPath
  <2>4. Append(p, m) \in Paths(graph, n)
    BY <1>0, <2>1, <2>3, PathExtends
  <2>5. p \in Seq(Node) /\ Len(p) \in Nat
    BY <1>0, PathFromStart
  <2>6. /\ Append(p, m) \in Seq(Node) /\ Len(Append(p, m)) = Len(p) + 1
        /\ Append(p, m)[Len(p) + 1] = m
        /\ \A i \in 1 .. Len(p) : Append(p, m)[i] = p[i]
    BY <2>5, AppendOf
  <2> DEFINE u == Append(p, m)
  <2> HIDE DEF u
  <2>7. u # << >> /\ Last(u) = m
    BY <2>5, <2>6 DEF Last, u
  <2>8. n \in ToSet(u)
    <3>1. DOMAIN u = 1 .. Len(p) + 1 /\ u[Len(p) + 1] = m /\ \A i \in 1 .. Len(p) : u[i] = p[i]
      BY <2>6 DEF u
    <3>2. CASE n = m
      BY <2>5, <3>1, <3>2 DEF ToSet
    <3>3. CASE n # m
      <4>1. n \in ToSet(p)
        BY <2>2, <3>3 DEF Dominates
      <4>2. PICK i \in 1 .. Len(p) : p[i] = n
        BY <2>5, <4>1 DEF ToSet
      <4>3. i \in DOMAIN u /\ u[i] = n
        BY <2>5, <3>1, <4>2
      <4> QED BY <4>3 DEF ToSet
    <3> QED BY <3>2, <3>3
  <2>9. IsBackEdge(reachableBy, m, n)
    BY <1>0, <2>4, <2>7, <2>8 DEF IsBackEdge, Paths, u
  <2> QED BY <2>2, <2>9
<1> QED BY <1>0, <1>1, <1>3, <1>4, <1>5 DEF GraphInv, GraphType

LEMMA InlinedTarget ==
    ASSUME GraphInv, NEW n \in nodes, NEW g, Inlinable(n, g)
    PROVE  /\ g \in GotoType /\ g \in code[n] /\ g.to \in nodes
           /\ \E path \in Paths(graph, g.to) : Predecessors(g.to) = {path} /\ ComesFrom(path, n)
<1>1. n \in Node /\ g \in code[n] /\ code[n] \subseteq GotoType
  BY DEF GraphInv, GraphType, Inlinable
<1>2. PICK path \in reachableBy[g.to] : Predecessors(g.to) = {path} /\ ComesFrom(path, n)
  BY DEF Inlinable, IsStrictlyDominatedBy
<1>3. g.to \in nodes
  BY <1>1, <1>2 DEF GraphInv, GotosLead
<1> QED BY <1>1, <1>2, <1>3 DEF GraphInv, GraphType, Paths

LEMMA InlineKeepsGraph ==
    ASSUME GraphInv, NEW n \in nodes, NEW g, InlineGoto(n, g)
    PROVE  GraphInv'
<1> DEFINE t == g.to
           Renamed(h) == IF h.to = t THEN [h EXCEPT !.to = n] ELSE h
           inlined == [code EXCEPT ![n] = (@ \ {g}) \union code[t]]
<1>1. /\ nodes' = nodes \ {t} /\ graph' = graph /\ reachableBy' = reachableBy
      /\ edges' = {e \in edges : t \notin {e.from, e.to}}
                  \union {[e EXCEPT !.from = n] : e \in {d \in edges : d.from = t /\ d.to # t}}
      /\ code' = [m \in Node |-> {Renamed(h) : h \in inlined[m]}]
  BY DEF InlineGoto
<1>2. g \in GotoType /\ g \in code[n] /\ t \in nodes /\ Inlinable(n, g)
  BY InlinedTarget DEF InlineGoto
<1>3. PICK path \in Paths(graph, t) : Predecessors(t) = {path} /\ ComesFrom(path, n)
  BY <1>2, InlinedTarget
<1>4. GraphType /\ GotosLead /\ EdgesGoForward
  BY DEF GraphInv
<1>5. n \in Node /\ t \in Node /\ Paths(graph, t) = reachableBy[t]
  BY <1>2, <1>4 DEF GraphType, Paths
<1>6. ASSUME NEW m \in Node, NEW h \in inlined[m]
      PROVE  h \in GotoType /\ \E k \in Node : h \in code[k]
  <2>1. inlined[m] \subseteq code[m] \union code[t]
    BY <1>4, <1>5 DEF GraphType
  <2> HIDE DEF inlined
  <2>2. h \in code[m] \/ h \in code[t]
    BY <2>1
  <2> QED BY <1>4, <1>5, <2>2 DEF GraphType
<1>7. ASSUME NEW h \in GotoType
      PROVE  Renamed(h) \in GotoType /\ Renamed(h).to = IF h.to = t THEN n ELSE h.to
  BY <1>5, <1>7 DEF GotoType
<1> HIDE DEF inlined, Renamed
<1>8. code' \in [Node -> SUBSET GotoType]
  BY <1>1, <1>6, <1>7
<1>9. edges' \subseteq EdgeType
  <2> SUFFICES ASSUME NEW e \in {d \in edges : d.from = t /\ d.to # t} PROVE [e EXCEPT !.from = n] \in EdgeType
    BY <1>1, <1>4 DEF GraphType
  <2>1. e \in EdgeType
    BY <1>4 DEF GraphType
  <2> QED BY <1>5, <2>1 DEF EdgeType
<1>10. GraphType'
  BY <1>1, <1>4, <1>8, <1>9 DEF GraphType
<1>11. \A x \in Node : Predecessors(x) = {} => Predecessors(x)' = {}
  BY <1>1 DEF Predecessors
<1>12. t = n => Predecessors(t)' = {}
  <2> SUFFICES ASSUME t = n, NEW q \in reachableBy[t], NEW x \in ToSet(q), x \in nodes, x # t PROVE FALSE
    BY <1>1 DEF Predecessors
  <2>1. q = path
    BY <1>3 DEF Predecessors
  <2>2. path \in Seq(Node) /\ Len(path) \in Nat /\ DOMAIN path = 1 .. Len(path)
    BY <1>4, <1>5, PathFromStart DEF GraphType
  <2>3. PICK i \in 1 .. Len(path) : path[i] = t /\ \A j \in 1 .. Len(path) : j > i => path[j] \notin nodes
    BY <1>3, <2>2 DEF ComesFrom
  <2>4. PICK j \in 1 .. Len(path) : path[j] = x
    BY <2>1, <2>2 DEF ToSet
  <2>5. j \in 1 .. i - 1
    BY <2>2, <2>3, <2>4
  <2> DEFINE p == SubSeq(path, 1, i - 1)
  <2>6. p \in Paths(graph, t)
    BY <1>4, <1>5, <2>3, PathPrefix DEF GraphType
  <2>7. p \in Seq(Node) /\ Len(p) = i - 1 /\ p[j] = x
    <3>1. i - 1 \in 0 .. Len(path)
      BY <2>2
    <3> QED BY <2>2, <2>4, <2>5, <3>1, SubSeqOf
  <2> HIDE DEF p
  <2>8. p \in Predecessors(t)
    BY <1>5, <2>5, <2>6, <2>7 DEF Predecessors, ToSet
  <2>9. p = path
    BY <1>3, <2>8
  <2> QED BY <2>2, <2>7, <2>9
<1>13. GotosLead'
  <2> SUFFICES ASSUME NEW m \in Node, NEW h \in inlined[m]
               PROVE Renamed(h).to \in nodes' \/ Predecessors(Renamed(h).to)' = {}
    BY <1>1 DEF GotosLead
  <2>1. h \in GotoType /\ (h.to \in nodes \/ Predecessors(h.to) = {})
    BY <1>4, <1>6 DEF GotosLead
  <2>2. CASE h.to = t
    <3>1. Renamed(h).to = n
      BY <1>7, <2>1, <2>2
    <3> QED BY <1>1, <1>12, <3>1
  <2>3. CASE h.to # t
    <3>1. Renamed(h).to = h.to /\ h.to \in Node
      BY <1>7, <2>1, <2>3 DEF GotoType
    <3> QED BY <1>1, <1>11, <2>1, <2>3, <3>1
  <2> QED BY <2>2, <2>3
<1>14. EdgesGoForward'
  <2> SUFFICES ASSUME Start \in nodes', NEW e \in edges', ~e.back, Dominates(graph, e.to, e.from) PROVE FALSE
    BY <1>1 DEF EdgesGoForward, Dominates
  <2>1. Start \in nodes /\ t # Start
    BY <1>1
  <2>2. CASE e \in edges
    BY <1>4, <2>1, <2>2 DEF EdgesGoForward
  <2>3. CASE \E d \in edges : d.from = t /\ e = [d EXCEPT !.from = n]
    <3>1. PICK d \in edges : d.from = t /\ e = [d EXCEPT !.from = n]
      BY <2>3
    <3>2. d \in EdgeType /\ e.to = d.to /\ e.from = n /\ e.back = d.back /\ d.to \in Node
      BY <1>4, <3>1 DEF GraphType, EdgeType
    <3>3. Dominates(graph, n, t)
      <4> SUFFICES ASSUME NEW q \in Paths(graph, t) PROVE n \in ToSet(q)
        BY DEF Dominates
      <4>1. q \in Seq(Node) /\ Len(q) \in Nat /\ Len(q) # 0 /\ q[1] = Start
        BY <1>4, <1>5, <2>1, PathFromStart DEF GraphType
      <4>2. 1 \in DOMAIN q
        BY <4>1
      <4>3. q \in Predecessors(t)
        BY <1>5, <2>1, <4>1, <4>2 DEF Predecessors, ToSet
      <4> QED BY <1>3, <4>3 DEF ComesFrom, ToSet
    <3>4. Dominates(graph, d.to, t)
      BY <1>4, <1>5, <3>2, <3>3, DominatesTransitive DEF GraphType
    <3> QED BY <1>4, <2>1, <3>1, <3>2, <3>4 DEF EdgesGoForward
  <2> QED BY <1>1, <2>2, <2>3
<1> QED BY <1>10, <1>13, <1>14 DEF GraphInv

-----------------------------------------------------------------------------
(***************************************************************************)
(* The calls of reloop, level by level.                                    *)
(***************************************************************************)
Moves == Node \union {NextStep, BodyStep}

CallType == [entries : SUBSET nodes, soup : SUBSET nodes, at : Seq(Moves), inLoop : BOOLEAN]

Region(c) == c.soup \union c.entries

(* What a call is made for below an entry of another one is dominated by   *)
(* the entry; the entry itself is not below, but for the first block.      *)
Inside(c, d) ==
    \E e \in c.entries :
      /\ \A n \in Region(d) : Dominates(graph, e, n)
      /\ e \in Region(d) => d.entries = {e} /\ (Kind(c) = "loop" => d.inLoop)

IsInner(p, q) ==
    /\ Len(p) < Len(q)
    /\ \A i \in 1 .. Len(p) : q[i] = p[i]
    /\ q[Len(p) + 1] # NextStep

TreeOf(open, done, k) ==
    /\ open \union done \subseteq {c \in CallType : c.entries # {}}
    /\ IsFiniteSet(open) /\ IsFiniteSet(done)
    /\ \A c \in open : Len(c.at) = k
    /\ \A c \in done : Len(c.at) < k
    /\ \A c, d \in open \union done : c.at = d.at => c = d
    /\ \A c \in done : CallsFrom(c) \subseteq open \union done
    /\ \A c \in open \union done : c.at = << >> \/ \E b \in done : c \in CallsFrom(b)
    /\ \A c \in done, d \in open \union done : IsInner(c.at, d.at) => Inside(c, d)
    /\ \E c \in open \union done : c.at = << >>

LEMMA DominatedNodesAre ==
    ASSUME GraphInv, NEW n \in nodes
    PROVE  DominatedNodes(n) = {m \in nodes : Dominates(graph, n, m)}
<1>1. graph \in Methods /\ nodes \subseteq Node /\ reachableBy = ReachableBy(graph)
  BY DEF GraphInv, GraphType
<1>2. ASSUME NEW m \in nodes PROVE reachableBy[m] = Paths(graph, m) /\ Paths(graph, m) # {}
  BY <1>1, ShortPath DEF Paths
<1> QED BY <1>2 DEF DominatedNodes, Dominates

LEMMA KindsAre ==
    ASSUME GraphInv, NEW c \in CallType, c.entries # {}
    PROVE  /\ Kind(c) \in {"simple", "loop", "multiple"}
           /\ Kind(c) # "multiple" <=> \E x \in nodes : c.entries = {x}
           /\ Kind(c) = "loop" => ~c.inLoop
           /\ IsFiniteSet(c.entries)
<1>1. N \in Nat /\ nodes \subseteq Node /\ c.entries \subseteq nodes
  BY ControlFlowAssumption DEF GraphInv, GraphType, CallType
<1>2. IsFiniteSet(c.entries)
  BY <1>1, IntervalIsFinite, FS_Subset DEF Node
<1>3. Cardinality(c.entries) \in Nat /\ Cardinality(c.entries) # 0
  BY <1>2, FS_CardinalityType, FS_EmptySet
<1>4. Cardinality(c.entries) = 1 <=> \E x : c.entries = {x}
  BY <1>2, FS_Singleton
<1>5. Cardinality(c.entries) > 1 <=> ~\E x \in nodes : c.entries = {x}
  <2>1. (\E x : c.entries = {x}) <=> \E x \in nodes : c.entries = {x}
    BY <1>1
  <2>2. Cardinality(c.entries) > 1 <=> Cardinality(c.entries) # 1
    BY <1>3
  <2> QED BY <1>4, <2>1, <2>2
<1> QED BY <1>2, <1>5 DEF Kind

LEMMA CallsFromAre ==
    ASSUME GraphInv, NEW c \in CallType, c.entries # {}, NEW d \in CallsFrom(c)
    PROVE  /\ d \in CallType /\ d.entries # {}
           /\ \/ /\ Kind(c) = "simple" /\ d.at = NextOf(c.at)
                 /\ \E x \in nodes :
                      /\ c.entries = {x}
                      /\ d.soup = c.soup \ {x}
                      /\ \A n \in d.entries : Dominates(graph, x, n)
                      /\ d.entries \subseteq AllForwardJumpTargetsOf({x})
              \/ /\ Kind(c) = "loop" /\ d.at = BodyOf(c.at)
                 /\ d.inLoop
                 /\ \E x \in nodes :
                      /\ c.entries = {x} /\ d.entries = {x}
                      /\ d.soup = {n \in nodes : Dominates(graph, x, n)}
              \/ /\ Kind(c) = "multiple"
                 /\ \E x \in c.entries :
                      /\ d.at = HandlerOf(c.at, x) /\ d.entries = {x}
                      /\ d.soup = {n \in nodes : Dominates(graph, x, n)}
              \/ /\ Kind(c) # "simple" /\ d.at = NextOf(c.at) /\ ~d.inLoop
                 /\ d.entries \subseteq d.soup /\ d.soup = c.soup \ HandledBy(c)
<1>1. /\ c.entries \subseteq nodes /\ c.soup \subseteq nodes /\ c.at \in Seq(Moves)
      /\ nodes \subseteq Node
  BY DEF CallType, GraphInv, GraphType
<1>2. /\ Kind(c) \in {"simple", "loop", "multiple"}
      /\ Kind(c) # "multiple" <=> \E x \in nodes : c.entries = {x}
  BY KindsAre
<1>3. \A x \in nodes : DominatedNodes(x) = {n \in nodes : Dominates(graph, x, n)}
  BY DominatedNodesAre
<1>4. HandledBy(c) \subseteq nodes
  BY <1>1, <1>3 DEF HandledBy
<1>5. \A s \in Moves : Append(c.at, s) \in Seq(Moves)
  BY <1>1, AppendProperties
<1>6. /\ NextOf(c.at) \in Seq(Moves) /\ BodyOf(c.at) \in Seq(Moves)
      /\ \A x \in nodes : HandlerOf(c.at, x) \in Seq(Moves)
  BY <1>1, <1>5 DEF NextOf, BodyOf, HandlerOf, Moves
<1>7. d.entries # {} /\ d \in InnerCalls(c) \union {NextCall(c)}
  BY DEF CallsFrom
<1>8. CASE Kind(c) = "simple"
  <2>1. PICK x \in nodes : c.entries = {x}
    BY <1>2, <1>8
  <2>2. d = Call(AllForwardJumpTargetsOf(c.entries) \intersect HandledBy(c), c.soup \ c.entries, NextOf(c.at))
    BY <1>7, <1>8 DEF InnerCalls, NextCall
  <2>3. HandledBy(c) = {n \in nodes : Dominates(graph, x, n)}
    BY <1>3, <2>1 DEF HandledBy
  <2>4. /\ d.at = NextOf(c.at) /\ d.soup = c.soup \ {x} /\ d.inLoop = FALSE
        /\ d.entries = AllForwardJumpTargetsOf({x}) \intersect {n \in nodes : Dominates(graph, x, n)}
    BY <2>1, <2>2, <2>3 DEF Call
  <2>5. d \in CallType
    BY <1>1, <1>6, <2>2, <2>4 DEF CallType, Call
  <2> QED BY <1>7, <1>8, <2>1, <2>4, <2>5
<1>9. CASE Kind(c) # "simple" /\ d = NextCall(c)
  <2> DEFINE rest == c.soup \ HandledBy(c)
  <2>1. \E E : d = Call(E \intersect rest, rest, NextOf(c.at))
    <3>1. CASE Kind(c) = "loop"
      BY <1>9, <3>1 DEF NextCall
    <3>2. CASE Kind(c) = "multiple"
      BY <1>9, <3>2 DEF NextCall
    <3> QED BY <1>2, <1>9, <3>1, <3>2
  <2>2. d.at = NextOf(c.at) /\ d.soup = rest /\ d.inLoop = FALSE /\ d.entries \subseteq rest
    BY <2>1 DEF Call
  <2>3. d \in CallType
    <3>1. PICK E : d = Call(E \intersect rest, rest, NextOf(c.at))
      BY <2>1
    <3>2. E \intersect rest \in SUBSET nodes /\ rest \in SUBSET nodes
      BY <1>1
    <3> HIDE DEF rest
    <3> QED BY <1>6, <3>1, <3>2 DEF CallType, Call
  <2> QED BY <1>7, <1>9, <2>2, <2>3
<1>10. CASE Kind(c) = "loop" /\ d \in InnerCalls(c)
  <2>1. PICK x \in nodes : c.entries = {x}
    BY <1>2, <1>10
  <2>2. d = [Call(c.entries, HandledBy(c), BodyOf(c.at)) EXCEPT !.inLoop = TRUE]
    BY <1>10 DEF InnerCalls
  <2>3. HandledBy(c) = {n \in nodes : Dominates(graph, x, n)}
    BY <1>3, <2>1 DEF HandledBy
  <2>4. d = [entries |-> c.entries, soup |-> HandledBy(c), at |-> BodyOf(c.at), inLoop |-> TRUE]
    BY <2>2 DEF Call
  <2>5. d \in CallType
    BY <1>1, <1>4, <1>6, <2>4 DEF CallType
  <2> QED BY <1>7, <1>10, <2>1, <2>3, <2>4, <2>5
<1>11. CASE Kind(c) = "multiple" /\ d \in InnerCalls(c)
  <2>1. PICK x \in c.entries : d = Call({x}, DominatedNodes(x), HandlerOf(c.at, x))
    BY <1>11 DEF InnerCalls
  <2>2. x \in nodes /\ DominatedNodes(x) = {n \in nodes : Dominates(graph, x, n)}
    BY <1>1, <1>3
  <2>3. d \in CallType
    BY <1>6, <2>1, <2>2 DEF CallType, Call
  <2> QED BY <1>7, <1>11, <2>1, <2>2, <2>3 DEF Call
<1> QED BY <1>2, <1>7, <1>8, <1>9, <1>10, <1>11

LEMMA CallsFromDiffer ==
    ASSUME GraphInv, NEW c \in CallType, NEW d \in CallsFrom(c), NEW e \in CallsFrom(c), d.at = e.at
    PROVE  d = e
<1>1. c.at \in Seq(Moves) /\ c.entries \subseteq Node
  BY DEF CallType, GraphInv, GraphType
<1>2. \A s, r \in Moves : Append(c.at, s) = Append(c.at, r) => s = r
  BY <1>1, AppendInjective
<1>3. NextStep \notin Node /\ NextStep # BodyStep /\ Node \subseteq Moves /\ NextStep \in Moves /\ BodyStep \in Moves
  BY ControlFlowAssumption DEF Node, NextStep, BodyStep, Moves
<1>4. NextCall(c).at = NextOf(c.at) \/ Kind(c) \notin {"simple", "loop", "multiple"}
  BY DEF NextCall, Call
<1>5. Kind(c) \in {"simple", "loop", "multiple"}
  BY DEF Kind
<1>6. ASSUME NEW a \in InnerCalls(c)
      PROVE  \/ Kind(c) = "loop" /\ a = [Call(c.entries, HandledBy(c), BodyOf(c.at)) EXCEPT !.inLoop = TRUE]
             \/ Kind(c) = "multiple" /\ \E x \in c.entries : a = Call({x}, DominatedNodes(x), HandlerOf(c.at, x))
  BY <1>5 DEF InnerCalls
<1>7. ASSUME NEW a \in InnerCalls(c)
      PROVE  \E s \in Node \union {BodyStep} : a.at = Append(c.at, s)
  <2>1. CASE a = [Call(c.entries, HandledBy(c), BodyOf(c.at)) EXCEPT !.inLoop = TRUE]
    BY <2>1 DEF Call, BodyOf
  <2>2. CASE \E x \in c.entries : a = Call({x}, DominatedNodes(x), HandlerOf(c.at, x))
    BY <1>1, <2>2 DEF Call, HandlerOf
  <2> QED BY <1>6, <2>1, <2>2
<1>8. ASSUME NEW a \in InnerCalls(c) PROVE a.at # NextCall(c).at
  BY <1>2, <1>3, <1>4, <1>5, <1>7 DEF NextOf
<1>9. ASSUME NEW a \in InnerCalls(c), NEW b \in InnerCalls(c), a.at = b.at PROVE a = b
  <2>1. CASE Kind(c) = "loop"
    BY <1>6, <2>1
  <2>2. CASE Kind(c) = "multiple"
    <3>1. PICK x \in c.entries : a = Call({x}, DominatedNodes(x), HandlerOf(c.at, x))
      BY <1>6, <2>2
    <3>2. PICK y \in c.entries : b = Call({y}, DominatedNodes(y), HandlerOf(c.at, y))
      BY <1>6, <2>2
    <3>3. Append(c.at, x) = Append(c.at, y)
      BY <1>9, <3>1, <3>2 DEF Call, HandlerOf
    <3>4. x = y
      BY <1>1, <1>2, <1>3, <3>3
    <3> QED BY <3>1, <3>2, <3>4
  <2> QED BY <1>6, <2>1, <2>2
<1>10. d \in InnerCalls(c) \union {NextCall(c)} /\ e \in InnerCalls(c) \union {NextCall(c)}
  BY DEF CallsFrom
<1> QED BY <1>8, <1>9, <1>10

LEMMA InnerIsInside ==
    ASSUME GraphInv, NEW c \in CallType, c.entries # {}, NEW d \in CallsFrom(c), d.at # NextOf(c.at)
    PROVE  Inside(c, d)
<1>1. c.entries \subseteq nodes
  BY DEF CallType
<1>2. CASE Kind(c) = "loop" /\ d.inLoop
  <2>1. PICK x \in nodes : /\ c.entries = {x} /\ d.entries = {x}
                           /\ d.soup = {n \in nodes : Dominates(graph, x, n)}
    BY <1>2, CallsFromAre
  <2> QED BY <1>2, <2>1 DEF Inside, Region, Dominates
<1>3. CASE Kind(c) = "multiple"
  <2>1. PICK x \in c.entries : /\ d.entries = {x}
                               /\ d.soup = {n \in nodes : Dominates(graph, x, n)}
    BY <1>3, CallsFromAre
  <2> QED BY <1>3, <2>1 DEF Inside, Region, Dominates
<1> QED BY <1>2, <1>3, CallsFromAre

LEMMA InsideIsKept ==
    ASSUME GraphInv, Start \in nodes,
           NEW b \in CallType, b.entries # {},
           NEW c \in CallType, c.entries # {}, Inside(b, c), NEW d \in CallsFrom(c)
    PROVE  Inside(b, d)
<1>1. /\ c.entries \subseteq nodes /\ c.soup \subseteq nodes /\ b.entries \subseteq nodes
      /\ nodes \subseteq Node /\ graph \in Methods
  BY DEF CallType, GraphInv, GraphType
<1>2. PICK e \in b.entries :
        /\ \A n \in Region(c) : Dominates(graph, e, n)
        /\ e \in Region(c) => c.entries = {e} /\ (Kind(b) = "loop" => c.inLoop)
  BY DEF Inside
<1>3. e \in Node
  BY <1>1
<1>4. d \in CallType /\ d.entries # {}
  BY CallsFromAre
<1>5. ASSUME NEW x \in c.entries, NEW n \in nodes, Dominates(graph, x, n)
      PROVE  Dominates(graph, e, n)
  <2>1. x \in Node /\ n \in Node /\ Dominates(graph, e, x)
    BY <1>1, <1>2 DEF Region
  <2> QED BY <1>1, <1>3, <1>5, <2>1, DominatesTransitive
<1>6. ASSUME NEW x \in c.entries, Dominates(graph, x, e)
      PROVE  x = e
  <2>1. x \in Node /\ Dominates(graph, e, x)
    BY <1>1, <1>2 DEF Region
  <2> QED BY <1>1, <1>3, <1>6, <2>1, DominatesAntisymmetric
<1>7. CASE Kind(c) = "simple"
  <2>1. PICK x \in nodes : /\ c.entries = {x}
                           /\ d.soup = c.soup \ {x}
                           /\ \A n \in d.entries : Dominates(graph, x, n)
                           /\ d.entries \subseteq AllForwardJumpTargetsOf({x})
    BY <1>7, CallsFromAre
  <2>2. ASSUME NEW n \in Region(d) PROVE Dominates(graph, e, n)
    <3>1. CASE n \in d.entries
      <4>1. n \in nodes
        BY <1>4, <3>1 DEF CallType
      <4> QED BY <1>5, <2>1, <3>1, <4>1
    <3>2. CASE n \in d.soup
      BY <1>2, <2>1, <3>2 DEF Region
    <3> QED BY <3>1, <3>2 DEF Region
  <2>3. e \notin d.soup
    <3> SUFFICES ASSUME e \in d.soup PROVE FALSE
      OBVIOUS
    <3>1. e \in Region(c) /\ e # x
      BY <2>1 DEF Region
    <3> QED BY <1>2, <2>1, <3>1
  <2>4. e \notin d.entries
    <3> SUFFICES ASSUME e \in d.entries PROVE FALSE
      OBVIOUS
    <3>1. x = e
      BY <1>6, <2>1
    <3>2. PICK a \in edges : ~a.back /\ a.from = e /\ a.to = e
      BY <2>1, <3>1 DEF AllForwardJumpTargetsOf, NormalEdges
    <3> QED BY <3>2 DEF GraphInv, EdgesGoForward, Dominates
  <2> QED BY <2>2, <2>3, <2>4 DEF Inside, Region
<1>8. CASE Kind(c) = "loop" /\ d.inLoop
  <2>1. PICK x \in nodes : /\ c.entries = {x} /\ d.entries = {x}
                           /\ d.soup = {n \in nodes : Dominates(graph, x, n)}
    BY <1>8, CallsFromAre
  <2>2. ASSUME NEW n \in Region(d) PROVE Dominates(graph, e, n)
    BY <1>1, <1>5, <2>1 DEF Region, Dominates
  <2>3. ASSUME e \in Region(d) PROVE d.entries = {e} /\ (Kind(b) = "loop" => d.inLoop)
    <3>1. Dominates(graph, x, e)
      BY <2>1, <2>3 DEF Region, Dominates
    <3>2. x = e
      BY <1>6, <2>1, <3>1
    <3> QED BY <1>8, <2>1, <3>2
  <2> QED BY <2>2, <2>3 DEF Inside
<1>9. CASE Kind(c) = "multiple" /\ d.at # NextOf(c.at)
  <2>1. PICK x \in c.entries : /\ d.entries = {x}
                               /\ d.soup = {n \in nodes : Dominates(graph, x, n)}
    BY <1>9, CallsFromAre
  <2>2. ASSUME NEW n \in Region(d) PROVE Dominates(graph, e, n)
    BY <1>1, <1>5, <2>1 DEF Region, Dominates
  <2>3. e \notin Region(d)
    <3> SUFFICES ASSUME e \in Region(d) PROVE FALSE
      OBVIOUS
    <3>1. Dominates(graph, x, e)
      BY <2>1 DEF Region, Dominates
    <3>2. x = e
      BY <1>6, <3>1
    <3>3. c.entries = {e}
      BY <1>2, <3>2 DEF Region
    <3> QED BY <1>1, <1>9, <3>3, KindsAre
  <2> QED BY <2>2, <2>3 DEF Inside
<1>10. CASE d.entries \subseteq d.soup /\ d.soup = c.soup \ HandledBy(c)
  <2>1. ASSUME NEW n \in Region(d) PROVE Dominates(graph, e, n)
    BY <1>2, <1>10 DEF Region
  <2>2. e \notin Region(d)
    <3> SUFFICES ASSUME e \in Region(d) PROVE FALSE
      OBVIOUS
    <3>1. e \in c.soup /\ e \notin HandledBy(c)
      BY <1>10 DEF Region
    <3>2. c.entries = {e}
      BY <1>2, <3>1 DEF Region
    <3>3. e \in HandledBy(c)
      BY <3>2 DEF HandledBy, DominatedNodes
    <3> QED BY <3>1, <3>3
  <2> QED BY <2>1, <2>2 DEF Inside
<1>11. \/ Kind(c) = "simple"
       \/ Kind(c) = "loop" /\ d.inLoop
       \/ Kind(c) = "multiple" /\ \E x \in c.entries : d.at = HandlerOf(c.at, x)
       \/ d.entries \subseteq d.soup /\ d.soup = c.soup \ HandledBy(c)
  BY CallsFromAre
<1>12. \A x \in c.entries : HandlerOf(c.at, x) # NextOf(c.at)
  <2>1. c.at \in Seq(Moves) /\ NextStep \notin Node /\ Node \subseteq Moves /\ NextStep \in Moves
    BY ControlFlowAssumption DEF CallType, Node, NextStep, Moves
  <2> QED BY <1>1, <2>1, AppendInjective DEF HandlerOf, NextOf
<1> QED BY <1>7, <1>8, <1>9, <1>10, <1>11, <1>12

LEMMA CallsAreOnPlaces ==
    ASSUME GraphInv, NEW c \in CallType, c.entries # {}, NEW d \in CallsFrom(c)
    PROVE  \E s \in Moves : /\ d.at = Append(c.at, s)
                            /\ s = NextStep => d.at = NextOf(c.at)
<1>1. c.entries \subseteq Node /\ Node \subseteq Moves /\ NextStep \in Moves /\ BodyStep \in Moves
  BY DEF CallType, GraphInv, GraphType, Moves
<1>2. \/ d.at = NextOf(c.at) \/ d.at = BodyOf(c.at)
      \/ \E x \in c.entries : d.at = HandlerOf(c.at, x)
  BY CallsFromAre
<1> QED BY <1>1, <1>2 DEF NextOf, BodyOf, HandlerOf

LEMMA CallsAreFinite ==
    ASSUME GraphInv, NEW c \in CallType, c.entries # {}
    PROVE  IsFiniteSet(CallsFrom(c))
<1>1. IsFiniteSet(c.entries)
  BY KindsAre
<1>2. IsFiniteSet(InnerCalls(c))
  <2> DEFINE body == [Call(c.entries, HandledBy(c), BodyOf(c.at)) EXCEPT !.inLoop = TRUE]
             handler(e) == Call({e}, DominatedNodes(e), HandlerOf(c.at, e))
             f == [e \in c.entries |-> handler(e)]
             T == {handler(e) : e \in c.entries}
  <2>1. IsFiniteSet({}) /\ IsFiniteSet({body})
    BY FS_EmptySet, FS_Singleton
  <2>2. IsFiniteSet(T)
    <3> HIDE DEF handler
    <3>1. f \in Surjection(c.entries, T)
      BY DEF Surjection
    <3> QED BY <1>1, <3>1, FS_Surjection
  <2> HIDE DEF body
  <2>3. InnerCalls(c) \in {{}, {body}, T}
    <3>1. Kind(c) = "simple" \/ Kind(c) = "loop" \/ Kind(c) = "multiple"
      BY DEF Kind
    <3> QED BY <3>1 DEF InnerCalls, body
  <2> QED BY <2>1, <2>2, <2>3
<1>3. IsFiniteSet(InnerCalls(c) \union {NextCall(c)})
  BY <1>2, FS_AddElement
<1> QED BY <1>3, FS_Subset DEF CallsFrom

LEMMA TreeBegins ==
    ASSUME GraphInv, Start \in nodes
    PROVE  TreeOf({Call({Start}, DominatedNodes(Start), << >>)}, {}, 0)
<1> DEFINE c == Call({Start}, DominatedNodes(Start), << >>)
<1>1. DominatedNodes(Start) \subseteq nodes
  BY DominatedNodesAre
<1>2. << >> \in Seq(Moves)
  OBVIOUS
<1>3. c \in CallType /\ c.entries # {} /\ c.at = << >> /\ Len(c.at) = 0
  BY <1>1, <1>2 DEF Call, CallType
<1> HIDE DEF c
<1>4. IsFiniteSet({c}) /\ IsFiniteSet({})
  BY FS_Singleton, FS_EmptySet
<1> QED BY <1>3, <1>4 DEF TreeOf, c

LEMMA TreeGrows ==
    ASSUME GraphInv, Start \in nodes, NEW open, NEW done, NEW k \in Nat, TreeOf(open, done, k)
    PROVE  TreeOf(UNION {CallsFrom(c) : c \in open}, done \union open, k + 1)
<1> DEFINE new == UNION {CallsFrom(c) : c \in open}
           old == done \union open
<1>1. \A c \in old : c \in CallType /\ c.entries # {} /\ c.at \in Seq(Moves) /\ Len(c.at) \in Nat
  BY DEF TreeOf, CallType
<1>2. ASSUME NEW d \in new
      PROVE  \E b \in open : /\ d \in CallsFrom(b)
                             /\ d \in CallType /\ d.entries # {}
                             /\ d.at \in Seq(Moves) /\ Len(d.at) = k + 1
                             /\ \A i \in 1 .. k : d.at[i] = b.at[i]
                             /\ d.at[k + 1] = NextStep => d.at = NextOf(b.at)
  <2>1. PICK b \in open : d \in CallsFrom(b)
    OBVIOUS
  <2>2. b \in CallType /\ b.entries # {} /\ b.at \in Seq(Moves) /\ Len(b.at) = k
    BY <1>1 DEF TreeOf
  <2>3. PICK s \in Moves : d.at = Append(b.at, s) /\ (s = NextStep => d.at = NextOf(b.at))
    BY <2>1, <2>2, CallsAreOnPlaces
  <2>4. d \in CallType /\ d.entries # {}
    BY <2>1, <2>2, CallsFromAre
  <2> QED BY <2>1, <2>2, <2>3, <2>4, AppendOf
<1>3. \A c \in open : Len(c.at) = k
  BY DEF TreeOf
<1>4. \A c \in old : Len(c.at) < k + 1
  BY <1>1 DEF TreeOf
<1>5. \A c \in new : c \in CallType /\ c.entries # {} /\ Len(c.at) = k + 1
  BY <1>2
<1>6. IsFiniteSet(new) /\ IsFiniteSet(old)
  <2>1. IsFiniteSet(open) /\ IsFiniteSet(done)
    BY DEF TreeOf
  <2> DEFINE T == {CallsFrom(c) : c \in open}
             f == [c \in open |-> CallsFrom(c)]
  <2>2. IsFiniteSet(T)
    <3>1. f \in Surjection(open, T)
      BY DEF Surjection
    <3> QED BY <2>1, <3>1, FS_Surjection
  <2>3. \A X \in T : IsFiniteSet(X)
    BY <1>1, CallsAreFinite
  <2>4. IsFiniteSet(UNION T)
    <3> HIDE DEF T
    <3> QED BY <2>2, <2>3, FS_UNION
  <2> QED BY <2>1, <2>4, FS_Union
<1>7. ASSUME NEW c \in new \union old, NEW d \in new \union old, c.at = d.at PROVE c = d
  <2>1. CASE c \in old /\ d \in old
    BY <1>7, <2>1 DEF TreeOf
  <2>2. CASE c \in new /\ d \in new
    <3>1. PICK a \in open : c \in CallsFrom(a) /\ \A i \in 1 .. k : c.at[i] = a.at[i]
      BY <1>2, <2>2
    <3>2. PICK b \in open : d \in CallsFrom(b) /\ \A i \in 1 .. k : d.at[i] = b.at[i]
      BY <1>2, <2>2
    <3>3. a.at \in Seq(Moves) /\ b.at \in Seq(Moves) /\ Len(a.at) = k /\ Len(b.at) = k
      BY <1>1, <1>3
    <3>4. a.at = b.at
      BY <1>7, <3>1, <3>2, <3>3, SeqEqual
    <3>5. a = b
      BY <3>4 DEF TreeOf
    <3> QED BY <1>1, <1>7, <3>1, <3>2, <3>5, CallsFromDiffer
  <2>3. \A x \in new, y \in old : x.at # y.at
    BY <1>1, <1>4, <1>5
  <2> QED BY <1>7, <2>1, <2>2, <2>3
<1>8. ASSUME NEW c \in old PROVE CallsFrom(c) \subseteq new \union old
  BY DEF TreeOf
<1>9. ASSUME NEW c \in new \union old PROVE c.at = << >> \/ \E b \in old : c \in CallsFrom(b)
  <2>1. CASE c \in new
    BY <1>2, <2>1
  <2>2. CASE c \in old
    BY <2>2 DEF TreeOf
  <2> QED BY <2>1, <2>2
<1>10. ASSUME NEW c \in old, NEW d \in new \union old, IsInner(c.at, d.at) PROVE Inside(c, d)
  <2>1. CASE d \in old
    <3>1. c \in done
      <4> SUFFICES ASSUME c \in open PROVE FALSE
        OBVIOUS
      <4>1. Len(d.at) <= k /\ Len(c.at) = k
        BY <1>1, <1>3, <1>4, <2>1
      <4> QED BY <1>1, <1>10, <2>1, <4>1 DEF IsInner
    <3> QED BY <1>10, <2>1, <3>1 DEF TreeOf
  <2>2. CASE d \in new
    <3>1. PICK b \in open : /\ d \in CallsFrom(b)
                            /\ d.at \in Seq(Moves) /\ Len(d.at) = k + 1
                            /\ \A i \in 1 .. k : d.at[i] = b.at[i]
                            /\ d.at[k + 1] = NextStep => d.at = NextOf(b.at)
      BY <1>2, <2>2
    <3>2. b \in CallType /\ b.entries # {} /\ b.at \in Seq(Moves) /\ Len(b.at) = k
      BY <1>1, <1>3
    <3>3. c \in CallType /\ c.entries # {} /\ c.at \in Seq(Moves) /\ Len(c.at) \in Nat
      BY <1>1
    <3>4. CASE c \in open
      <4>1. Len(c.at) = k
        BY <1>3, <3>4
      <4>2. \A i \in 1 .. k : c.at[i] = b.at[i]
        BY <1>10, <3>1, <4>1 DEF IsInner
      <4>3. c.at = b.at
        BY <3>2, <3>3, <4>1, <4>2, SeqEqual
      <4>4. c = b
        BY <3>4, <4>3 DEF TreeOf
      <4>5. NextOf(b.at)[k + 1] = NextStep
        <5>1. NextStep \in Moves
          BY DEF Moves
        <5> QED BY <3>2, <5>1, AppendOf DEF NextOf
      <4>6. d.at # NextOf(b.at)
        BY <1>10, <4>1, <4>5 DEF IsInner
      <4> QED BY <3>1, <3>2, <4>4, <4>6, InnerIsInside
    <3>5. CASE c \in done
      <4>1. Len(c.at) < k
        BY <3>5 DEF TreeOf
      <4>2. IsInner(c.at, b.at)
        <5>1. \A i \in 1 .. Len(c.at) + 1 : i \in 1 .. k
          BY <3>3, <4>1
        <5>2. Len(c.at) + 1 \in 1 .. k /\ \A i \in 1 .. Len(c.at) : i \in 1 .. k
          BY <3>3, <4>1
        <5> QED BY <1>10, <3>1, <3>2, <4>1, <5>1, <5>2 DEF IsInner
      <4>3. Inside(c, b)
        BY <3>5, <4>2 DEF TreeOf
      <4> QED BY <3>1, <3>2, <3>3, <4>3, InsideIsKept
    <3> QED BY <3>4, <3>5
  <2> QED BY <2>1, <2>2
<1>11. \E c \in new \union old : c.at = << >>
  BY DEF TreeOf
<1>12. \A c \in new \union old : c \in CallType /\ c.entries # {}
  BY <1>1, <1>5
<1> HIDE DEF new, old
<1>13. TreeOf(new, old, k + 1)
  BY <1>4, <1>5, <1>6, <1>7, <1>8, <1>9, <1>10, <1>11, <1>12 DEF TreeOf
<1> QED BY <1>13 DEF new, old

LEMMA ReloopIs ==
    ASSUME GraphInv, Start \in nodes, Reloop({Start}, DominatedNodes(Start)).open = {}
    PROVE  TreeOf({}, Reloop({Start}, DominatedNodes(Start)).done, StackDepth)
<1> DEFINE X == {c \in CallType : c.entries # {}}
           Q == [open : SUBSET X, done : SUBSET X]
           root == Call({Start}, DominatedNodes(Start), << >>)
           a == [open |-> {root}, done |-> {}]
           more(r) == [open |-> UNION {CallsFrom(c) : c \in r.open}, done |-> r.done \union r.open]
           K == StackDepth
           F == [p \in (1 .. K) \X Q |-> more(p[2])]
           step(f, k) == IF k = 0 THEN a ELSE more(f[k - 1])
<1>0. K \in Nat
  BY RelooperAssumption
<1>1. TreeOf({root}, {}, 0)
  BY TreeBegins
<1>2. a \in Q
  BY <1>1 DEF TreeOf
<1>3. ASSUME NEW r \in Q PROVE more(r) \in Q
  <2>1. \A c \in r.open : CallsFrom(c) \subseteq X
    BY CallsFromAre
  <2> HIDE DEF X
  <2> QED BY <2>1
<1>4. \E f : f = [k \in 0 .. K |-> step(f, k)]
  <2>1. F \in Steps(K, Q)
    BY <1>3 DEF Steps
  <2>2. \A k \in 1 .. K, r \in Q : F[<< k, r >>] = more(r)
    OBVIOUS
  <2> HIDE DEF F, Q, more, a, K
  <2>3. PICK f : Iterates(f, K, Q, a, F)
    BY <1>0, <1>2, <2>1, IterationExists
  <2>4. \A k \in 0 .. K : k # 0 => k \in 1 .. K /\ f[k - 1] \in Q
    BY <1>0, <2>3 DEF Iterates
  <2>5. \A k \in 0 .. K : f[k] = step(f, k)
    BY <2>2, <2>3, <2>4 DEF Iterates
  <2> HIDE DEF step
  <2> QED BY <2>3, <2>5 DEF Iterates
<1>5. PICK f : f = CHOOSE h : h = [k \in 0 .. K |-> step(h, k)]
  OBVIOUS
<1>6. f = [k \in 0 .. K |-> step(f, k)]
  <2> HIDE DEF step, K
  <2> QED BY <1>4, <1>5
<1>7. Reloop({Start}, DominatedNodes(Start)) = f[K]
  <2>1. Reloop({Start}, DominatedNodes(Start)) =
          LET level == CHOOSE h : h = [k \in 0 .. K |-> step(h, k)] IN level[K]
    BY DEF Reloop
  <2> HIDE DEF step, K
  <2> QED BY <1>5, <2>1
<1> DEFINE S == {k \in Nat : k <= K => TreeOf(f[k].open, f[k].done, k)}
<1>8. 0 \in S
  <2>1. 0 \in 0 .. K /\ step(f, 0) = a
    <3> HIDE DEF more, a
    <3> QED BY <1>0
  <2>2. f[0] = a
    <3> HIDE DEF step, a
    <3> QED BY <1>6, <2>1
  <2> HIDE DEF root
  <2> QED BY <1>1, <2>2
<1>9. ASSUME NEW k \in Nat, k \in S PROVE k + 1 \in S
  <2> SUFFICES ASSUME k + 1 <= K PROVE TreeOf(f[k + 1].open, f[k + 1].done, k + 1)
    OBVIOUS
  <2>1. TreeOf(f[k].open, f[k].done, k)
    BY <1>0, <1>9
  <2>2. k + 1 \in 0 .. K /\ step(f, k + 1) = more(f[k])
    <3>1. k + 1 # 0 /\ k + 1 - 1 = k
      OBVIOUS
    <3> HIDE DEF more, K, a
    <3> QED BY <1>0, <3>1
  <2>3. f[k + 1] = more(f[k])
    <3> HIDE DEF step, more
    <3> QED BY <1>6, <2>2
  <2>4. TreeOf(UNION {CallsFrom(c) : c \in f[k].open}, f[k].done \union f[k].open, k + 1)
    BY <2>1, TreeGrows
  <2> QED BY <2>3, <2>4
<1>10. K \in S
  <2> HIDE DEF S
  <2> QED BY <1>0, <1>8, <1>9, SetInduction
<1> HIDE DEF K
<1>11. TreeOf(f[K].open, f[K].done, K)
  BY <1>0, <1>10
<1> QED BY <1>7, <1>11 DEF K

-----------------------------------------------------------------------------
(***************************************************************************)
(* The blocks: a tree whose inner blocks have names of their own.          *)
(***************************************************************************)
Sound(b) ==
    /\ IsFiniteSet(DOMAIN b) /\ DOMAIN b \subseteq Seq(Moves)
    /\ \A p \in DOMAIN b :
         /\ b[p].kind \in {"simple", "loop", "multiple"}
         /\ b[p].entries \subseteq nodes
         /\ b[p].kind = "simple" => b[p].node \in nodes
         /\ b[p].kind = "loop" => BodyOf(p) \in DOMAIN b
         /\ b[p].kind = "multiple" => \A e \in b[p].entries : HandlerOf(p, e) \in DOMAIN b
    /\ \A p \in DOMAIN b : \A i \in 0 .. Len(p) : SubSeq(p, 1, i) \in DOMAIN b
    /\ \A p, q \in DOMAIN b :
         IsInner(p, q) => \/ b[p].kind = "simple"
                          \/ b[p].kind # b[q].kind
                          \/ b[p].entries # b[q].entries

BlocksInv == Sound(blocks)

LEMMA TreeIsSound ==
    ASSUME GraphInv, NEW calls, NEW k \in Nat, TreeOf({}, calls, k)
    PROVE  /\ Sound([p \in {c.at : c \in calls} |-> BlockOf(CHOOSE c \in calls : c.at = p)])
           /\ << >> \in {c.at : c \in calls}
<1> DEFINE P == {c.at : c \in calls}
           callAt(p) == CHOOSE c \in calls : c.at = p
           b == [p \in P |-> BlockOf(callAt(p))]
<1>1. \A c \in calls : /\ c \in CallType /\ c.entries # {} /\ c.at \in Seq(Moves)
                       /\ Len(c.at) \in Nat /\ c.entries \subseteq nodes /\ CallsFrom(c) \subseteq calls
  BY DEF TreeOf, CallType
<1>2. \A p \in P : callAt(p) \in calls /\ callAt(p).at = p
  OBVIOUS
<1>3. \A c \in calls : callAt(c.at) = c
  BY <1>2 DEF TreeOf
<1>4. DOMAIN b = P /\ \A p \in P : b[p] = BlockOf(callAt(p))
  OBVIOUS
<1>5. IsFiniteSet(P) /\ P \subseteq Seq(Moves)
  <2> DEFINE f == [c \in calls |-> c.at]
  <2>1. f \in Surjection(calls, P)
    BY DEF Surjection
  <2>2. IsFiniteSet(calls)
    BY DEF TreeOf
  <2> HIDE DEF P
  <2>3. IsFiniteSet(P)
    BY <2>1, <2>2, FS_Surjection
  <2> QED BY <1>1, <2>3 DEF P
<1>6. ASSUME NEW c \in calls
      PROVE  /\ BlockOf(c).kind = Kind(c)
             /\ BlockOf(c).entries = c.entries
             /\ Kind(c) \in {"simple", "loop", "multiple"}
             /\ Kind(c) = "simple" => BlockOf(c).node \in nodes
             /\ Kind(c) = "loop" => BodyOf(c.at) \in P
             /\ Kind(c) = "multiple" => \A e \in c.entries : HandlerOf(c.at, e) \in P
  <2>1. BlockOf(c).kind = Kind(c) /\ BlockOf(c).entries = c.entries
    BY DEF BlockOf, Block
  <2>2. Kind(c) \in {"simple", "loop", "multiple"}
    BY <1>1, KindsAre
  <2>3. Kind(c) = "simple" => BlockOf(c).node \in nodes
    <3> SUFFICES ASSUME Kind(c) = "simple" PROVE BlockOf(c).node \in nodes
      OBVIOUS
    <3>1. BlockOf(c).node = CHOOSE e \in c.entries : TRUE
      BY DEF BlockOf, Block
    <3> QED BY <1>1, <3>1
  <2>4. Kind(c) = "loop" => BodyOf(c.at) \in P
    <3> DEFINE d == [Call(c.entries, HandledBy(c), BodyOf(c.at)) EXCEPT !.inLoop = TRUE]
    <3> SUFFICES ASSUME Kind(c) = "loop" PROVE BodyOf(c.at) \in P
      OBVIOUS
    <3>1. d.entries = c.entries /\ d.at = BodyOf(c.at)
      BY DEF Call
    <3>2. d \in InnerCalls(c)
      BY DEF InnerCalls
    <3> HIDE DEF d
    <3>3. d \in calls
      BY <1>1, <3>1, <3>2 DEF CallsFrom
    <3> QED BY <3>1, <3>3
  <2>5. Kind(c) = "multiple" => \A e \in c.entries : HandlerOf(c.at, e) \in P
    <3> SUFFICES ASSUME Kind(c) = "multiple", NEW e \in c.entries PROVE HandlerOf(c.at, e) \in P
      OBVIOUS
    <3> DEFINE d == Call({e}, DominatedNodes(e), HandlerOf(c.at, e))
    <3>1. d.entries = {e} /\ d.at = HandlerOf(c.at, e)
      BY DEF Call
    <3>2. d \in InnerCalls(c)
      BY DEF InnerCalls
    <3> HIDE DEF d
    <3>3. d \in calls
      BY <1>1, <3>1, <3>2 DEF CallsFrom
    <3> QED BY <3>1, <3>3
  <2> QED BY <2>1, <2>2, <2>3, <2>4, <2>5
<1>7. << >> \in P
  BY DEF TreeOf
<1> DEFINE S == {n \in Nat : \A p \in P : Len(p) = n => \A i \in 0 .. Len(p) : SubSeq(p, 1, i) \in P}
<1>8. 0 \in S
  <2> SUFFICES ASSUME NEW p \in P, Len(p) = 0, NEW i \in 0 .. Len(p) PROVE SubSeq(p, 1, i) \in P
    OBVIOUS
  <2>1. SubSeq(p, 1, i) = << >>
    <3>1. i = 0 /\ 1 \in Int /\ 0 \in Int
      OBVIOUS
    <3> QED BY <3>1, SubSeqEmpty
  <2> QED BY <1>7, <2>1
<1>9. ASSUME NEW n \in Nat, n \in S PROVE n + 1 \in S
  <2> SUFFICES ASSUME NEW p \in P, Len(p) = n + 1, NEW i \in 0 .. Len(p) PROVE SubSeq(p, 1, i) \in P
    OBVIOUS
  <2>1. PICK c \in calls : c.at = p
    OBVIOUS
  <2>2. p \in Seq(Moves) /\ p # << >>
    BY <1>1, <2>1
  <2>3. PICK d \in calls : c \in CallsFrom(d)
    BY <2>1, <2>2 DEF TreeOf
  <2>4. d \in CallType /\ d.entries # {} /\ d.at \in Seq(Moves) /\ d.at \in P
    BY <1>1
  <2>5. PICK s \in Moves : p = Append(d.at, s)
    BY <2>1, <2>3, <2>4, CallsAreOnPlaces
  <2>6. Len(d.at) = n /\ \A j \in 1 .. n : p[j] = d.at[j]
    BY <2>4, <2>5, AppendOf
  <2>7. CASE i = n + 1
    BY <2>2, <2>7, SubSeqFull
  <2>8. CASE i # n + 1
    <3>1. i \in 0 .. n
      BY <2>8
    <3>2. /\ SubSeq(p, 1, i) \in Seq(Moves) /\ Len(SubSeq(p, 1, i)) = i
          /\ \A j \in 1 .. i : SubSeq(p, 1, i)[j] = p[j]
      BY <2>2, SubSeqOf
    <3>3. /\ SubSeq(d.at, 1, i) \in Seq(Moves) /\ Len(SubSeq(d.at, 1, i)) = i
          /\ \A j \in 1 .. i : SubSeq(d.at, 1, i)[j] = d.at[j]
      BY <2>4, <2>6, <3>1, SubSeqOf
    <3>4. \A j \in 1 .. i : SubSeq(p, 1, i)[j] = SubSeq(d.at, 1, i)[j]
      <4>1. \A j \in 1 .. i : j \in 1 .. n
        BY <3>1
      <4> QED BY <2>6, <3>2, <3>3, <4>1
    <3>5. SubSeq(p, 1, i) = SubSeq(d.at, 1, i)
      BY <3>2, <3>3, <3>4, SeqEqual
    <3>6. SubSeq(d.at, 1, i) \in P
      BY <1>9, <2>4, <2>6, <3>1
    <3> QED BY <3>5, <3>6
  <2> QED BY <2>7, <2>8
<1>10. ASSUME NEW p \in P PROVE \A i \in 0 .. Len(p) : SubSeq(p, 1, i) \in P
  <2>1. Len(p) \in Nat
    BY <1>5
  <2> HIDE DEF P
  <2>2. Nat \subseteq S
    <3> HIDE DEF S
    <3> QED BY <1>8, <1>9, SetInduction
  <2> QED BY <2>1, <2>2
<1>11. ASSUME NEW c \in calls, NEW d \in calls, IsInner(c.at, d.at)
       PROVE  Kind(c) = "simple" \/ Kind(c) # Kind(d) \/ c.entries # d.entries
  <2> SUFFICES ASSUME Kind(c) # "simple", Kind(c) = Kind(d), c.entries = d.entries PROVE FALSE
    OBVIOUS
  <2>1. Inside(c, d)
    BY <1>11 DEF TreeOf
  <2>2. PICK e \in c.entries : e \in Region(d) => d.entries = {e} /\ (Kind(c) = "loop" => d.inLoop)
    BY <2>1 DEF Inside
  <2>3. d.entries = {e} /\ (Kind(c) = "loop" => d.inLoop)
    BY <2>2 DEF Region
  <2>4. /\ Kind(d) \in {"loop", "multiple"}
        /\ Kind(d) = "loop" => ~d.inLoop
        /\ Kind(d) # "multiple" <=> \E x \in nodes : d.entries = {x}
    BY <1>1, <1>6, KindsAre
  <2>5. e \in nodes
    BY <1>1
  <2> QED BY <2>3, <2>4, <2>5
<1> HIDE DEF callAt, b
<1>12. \A p \in P : callAt(p) \in calls /\ callAt(p).at = p
  BY <1>2
<1>13. \A p \in P :
         /\ b[p].kind \in {"simple", "loop", "multiple"}
         /\ b[p].entries \subseteq nodes
         /\ b[p].kind = "simple" => b[p].node \in nodes
         /\ b[p].kind = "loop" => BodyOf(p) \in P
         /\ b[p].kind = "multiple" => \A e \in b[p].entries : HandlerOf(p, e) \in P
  <2> SUFFICES ASSUME NEW p \in P
               PROVE  /\ b[p].kind \in {"simple", "loop", "multiple"}
                      /\ b[p].entries \subseteq nodes
                      /\ b[p].kind = "simple" => b[p].node \in nodes
                      /\ b[p].kind = "loop" => BodyOf(p) \in P
                      /\ b[p].kind = "multiple" => \A e \in b[p].entries : HandlerOf(p, e) \in P
    OBVIOUS
  <2>1. PICK c \in calls : c.at = p /\ b[p] = BlockOf(c)
    BY <1>4, <1>12
  <2> HIDE DEF P
  <2> QED BY <1>1, <1>6, <2>1
<1>14. ASSUME NEW p \in P, NEW q \in P, IsInner(p, q)
       PROVE  b[p].kind = "simple" \/ b[p].kind # b[q].kind \/ b[p].entries # b[q].entries
  <2>1. PICK c \in calls : c.at = p /\ b[p] = BlockOf(c)
    BY <1>4, <1>12
  <2>2. PICK d \in calls : d.at = q /\ b[q] = BlockOf(d)
    BY <1>4, <1>12
  <2> QED BY <1>6, <1>11, <1>14, <2>1, <2>2
<1> HIDE DEF P
<1>15. Sound(b)
  BY <1>4, <1>5, <1>10, <1>13, <1>14 DEF Sound
<1> QED BY <1>7, <1>15 DEF P, b, callAt

-----------------------------------------------------------------------------
(***************************************************************************)
(* The traversal of the blocks: what is still to be visited are subtrees   *)
(* that have no block in common.                                           *)
(***************************************************************************)
Begins(p, q) == Len(p) <= Len(q) /\ \A i \in 1 .. Len(p) : q[i] = p[i]

Apart(t) ==
    \A i, j \in DOMAIN t : \A p \in t[i], q \in t[j] : Begins(p, q) => i = j /\ p = q

Subtrees(t) == {q \in Places : \E i \in DOMAIN t : \E p \in t[i] : Begins(p, q)}

LEMMA PrefixesBegin ==
    ASSUME NEW p \in Seq(Moves), NEW q \in Seq(Moves)
    PROVE  (p = q \/ IsStrictPrefix(p, q)) <=> Begins(p, q)
<1>1. Len(p) \in Nat /\ Len(q) \in Nat
  OBVIOUS
<1>2. SubSeq(p, 1, Len(p)) = p
  BY SubSeqFull
<1>3. ASSUME Begins(p, q) PROVE IsPrefix(p, q)
  <2>1. Len(p) \in 0 .. Len(q)
    BY <1>1, <1>3 DEF Begins
  <2>2. /\ SubSeq(q, 1, Len(p)) \in Seq(Moves) /\ Len(SubSeq(q, 1, Len(p))) = Len(p)
        /\ \A i \in 1 .. Len(p) : SubSeq(q, 1, Len(p))[i] = q[i]
    BY <2>1, SubSeqOf
  <2>3. SubSeq(q, 1, Len(p)) = p
    BY <1>3, <2>2, SeqEqual DEF Begins
  <2> QED BY <1>2, <1>3, <2>3 DEF IsPrefix, Begins
<1>4. ASSUME IsPrefix(p, q) PROVE Begins(p, q)
  <2>1. Len(p) \in 0 .. Len(q) /\ SubSeq(q, 1, Len(p)) = p
    BY <1>1, <1>2, <1>4 DEF IsPrefix
  <2> QED BY <1>1, <2>1, SubSeqOf DEF Begins
<1>5. p = q => Begins(p, q)
  BY <1>1 DEF Begins
<1> QED BY <1>3, <1>4, <1>5 DEF IsStrictPrefix

LEMMA AppendsToShort ==
    ASSUME NEW x, NEW y
    PROVE  Append(<< >>, y) = << y >> /\ Append(<< x >>, y) = << x, y >>
<1> DEFINE S == {x, y}
<1>1. << >> \in Seq(S) /\ << x >> \in Seq(S) /\ << y >> \in Seq(S) /\ << x, y >> \in Seq(S)
  OBVIOUS
<1>2. /\ Append(<< >>, y) \in Seq(S) /\ Len(Append(<< >>, y)) = 1 /\ Append(<< >>, y)[1] = y
      /\ Append(<< x >>, y) \in Seq(S) /\ Len(Append(<< x >>, y)) = 2
      /\ Append(<< x >>, y)[1] = x /\ Append(<< x >>, y)[2] = y
  OBVIOUS
<1>3. Append(<< >>, y) = << y >>
  BY <1>1, <1>2, SeqEqual
<1>4. Append(<< x >>, y) = << x, y >>
  <2>1. Len(<< x, y >>) = 2 /\ << x, y >>[1] = x /\ << x, y >>[2] = y
    OBVIOUS
  <2>2. \A i \in 1 .. 2 : i = 1 \/ i = 2
    OBVIOUS
  <2> QED BY <1>1, <1>2, <2>1, <2>2, SeqEqual
<1> QED BY <1>3, <1>4

LEMMA ChildrenAre ==
    ASSUME GraphInv, BlocksInv, NEW p \in Places
    PROVE  /\ ChildrenOf(p) \in Seq(SUBSET Places)
           /\ \A i \in DOMAIN ChildrenOf(p) : \A c \in ChildrenOf(p)[i] : \E s \in Moves : c = Append(p, s)
           /\ \A i, j \in DOMAIN ChildrenOf(p) :
                \A c \in ChildrenOf(p)[i], d \in ChildrenOf(p)[j] : c = d => i = j
<1> DEFINE here == CASE blocks[p].kind = "simple" -> << >>
                     [] blocks[p].kind = "loop" -> << {BodyOf(p)} >>
                     [] blocks[p].kind = "multiple" -> << {HandlerOf(p, e) : e \in blocks[p].entries} >>
           next == NextOf(p)
<1>1. /\ p \in Seq(Moves)
      /\ blocks[p].kind \in {"simple", "loop", "multiple"}
      /\ blocks[p].entries \subseteq Node
      /\ blocks[p].kind = "loop" => BodyOf(p) \in Places
      /\ blocks[p].kind = "multiple" => \A e \in blocks[p].entries : HandlerOf(p, e) \in Places
  BY DEF BlocksInv, Sound, Places, GraphInv, GraphType
<1>2. NextStep \notin Node /\ NextStep # BodyStep /\ Node \subseteq Moves /\ NextStep \in Moves /\ BodyStep \in Moves
  BY ControlFlowAssumption DEF Node, NextStep, BodyStep, Moves
<1>3. \A s, r \in Moves : Append(p, s) = Append(p, r) => s = r
  BY <1>1, AppendInjective
<1>4. here = << >> \/ \E C \in SUBSET Places :
        here = << C >> /\ \A c \in C : \E s \in Moves : c = Append(p, s) /\ s # NextStep
  <2>1. CASE blocks[p].kind = "simple"
    BY <2>1
  <2>2. CASE blocks[p].kind = "loop"
    <3>1. {BodyOf(p)} \in SUBSET Places /\ BodyOf(p) = Append(p, BodyStep)
      BY <1>1, <2>2 DEF BodyOf
    <3>2. here = << {BodyOf(p)} >>
      BY <2>2
    <3> HIDE DEF here
    <3> QED BY <1>2, <3>1, <3>2
  <2>3. CASE blocks[p].kind = "multiple"
    <3> DEFINE C == {HandlerOf(p, e) : e \in blocks[p].entries}
    <3>1. C \in SUBSET Places
      BY <1>1, <2>3
    <3>2. here = << C >>
      BY <2>3
    <3>3. \A c \in C : \E s \in Moves : c = Append(p, s) /\ s # NextStep
      BY <1>1, <1>2 DEF HandlerOf
    <3> HIDE DEF here, C
    <3> QED BY <3>1, <3>2, <3>3
  <2> QED BY <1>1, <2>1, <2>2, <2>3
<1>5. ChildrenOf(p) = IF next \in Places THEN Append(here, {next}) ELSE here
  BY DEF ChildrenOf
<1>6. next = Append(p, NextStep)
  BY DEF NextOf
<1> HIDE DEF here, next
<1>7. CASE here = << >>
  <2>1. ChildrenOf(p) = << >> \/ (next \in Places /\ ChildrenOf(p) = << {next} >>)
    <3>1. Append(<< >>, {next}) = << {next} >>
      BY AppendsToShort
    <3>2. next \in Places => ChildrenOf(p) = Append(<< >>, {next})
      BY <1>5, <1>7
    <3>3. next \notin Places => ChildrenOf(p) = << >>
      BY <1>5, <1>7
    <3> QED BY <3>1, <3>2, <3>3
  <2>2. CASE ChildrenOf(p) = << >>
    <3>1. DOMAIN << >> = {} /\ << >> \in Seq(SUBSET Places)
      OBVIOUS
    <3> QED BY <2>2, <3>1
  <2>3. CASE next \in Places /\ ChildrenOf(p) = << {next} >>
    <3>1. DOMAIN << {next} >> = {1} /\ << {next} >>[1] = {next}
      OBVIOUS
    <3>2. << {next} >> \in Seq(SUBSET Places)
      BY <2>3
    <3>3. \A c \in {next} : \E s \in Moves : c = Append(p, s)
      BY <1>2, <1>6
    <3> QED BY <2>3, <3>1, <3>2, <3>3
  <2> QED BY <2>1, <2>2, <2>3
<1>8. ASSUME NEW C \in SUBSET Places, here = << C >>,
             \A c \in C : \E s \in Moves : c = Append(p, s) /\ s # NextStep
      PROVE  /\ ChildrenOf(p) \in Seq(SUBSET Places)
             /\ \A i \in DOMAIN ChildrenOf(p) : \A c \in ChildrenOf(p)[i] : \E s \in Moves : c = Append(p, s)
             /\ \A i, j \in DOMAIN ChildrenOf(p) :
                  \A c \in ChildrenOf(p)[i], d \in ChildrenOf(p)[j] : c = d => i = j
  <2>1. ChildrenOf(p) = << C >> \/ (next \in Places /\ ChildrenOf(p) = << C, {next} >>)
    <3>1. Append(<< C >>, {next}) = << C, {next} >>
      BY AppendsToShort
    <3>2. next \in Places => ChildrenOf(p) = Append(<< C >>, {next})
      BY <1>5, <1>8
    <3>3. next \notin Places => ChildrenOf(p) = << C >>
      BY <1>5, <1>8
    <3> QED BY <3>1, <3>2, <3>3
  <2>2. next \notin C
    BY <1>2, <1>3, <1>6, <1>8
  <2>3. CASE ChildrenOf(p) = << C >>
    BY <1>8, <2>3
  <2>4. CASE next \in Places /\ ChildrenOf(p) = << C, {next} >>
    <3>1. DOMAIN << C, {next} >> = {1, 2} /\ << C, {next} >>[1] = C /\ << C, {next} >>[2] = {next}
      OBVIOUS
    <3>2. << C, {next} >> \in Seq(SUBSET Places)
      BY <2>4
    <3>3. \A c \in C \union {next} : \E s \in Moves : c = Append(p, s)
      BY <1>2, <1>6, <1>8
    <3> QED BY <2>2, <2>4, <3>1, <3>2, <3>3
  <2> QED BY <2>1, <2>3, <2>4
<1> QED BY <1>4, <1>7, <1>8

Rest(t, p) == IF Head(t) = {p} THEN Tail(t) ELSE << Head(t) \ {p} >> \o Tail(t)

LEMMA RestIs ==
    ASSUME NEW S, NEW t \in Seq(SUBSET S), t # << >>, NEW p \in Head(t), Apart(t), Begins(p, p)
    PROVE  /\ Rest(t, p) \in Seq(SUBSET S)
           /\ \E k \in {0, 1} :
                \A j \in DOMAIN Rest(t, p) :
                  j + k \in DOMAIN t /\ Rest(t, p)[j] \subseteq t[j + k] /\ p \notin Rest(t, p)[j]
<1>1. /\ Len(t) \in Nat \ {0} /\ Head(t) = t[1] /\ t[1] \in SUBSET S
      /\ Tail(t) \in Seq(SUBSET S) /\ Len(Tail(t)) = Len(t) - 1
      /\ \A i \in 1 .. Len(t) - 1 : Tail(t)[i] = t[i + 1]
  BY EmptySeq, HeadTailProperties, ElementOfSeq
<1>2. \A i \in DOMAIN t : p \in t[i] => i = 1
  BY <1>1 DEF Apart
<1>3. CASE Head(t) = {p}
  <2>1. Rest(t, p) = Tail(t)
    BY <1>3 DEF Rest
  <2>2. ASSUME NEW j \in DOMAIN Tail(t)
        PROVE  j + 1 \in DOMAIN t /\ Tail(t)[j] \subseteq t[j + 1] /\ p \notin Tail(t)[j]
    BY <1>1, <1>2
  <2> QED BY <1>1, <2>1, <2>2
<1>4. CASE Head(t) # {p}
  <2> DEFINE h == << Head(t) \ {p} >>
             r == h \o Tail(t)
  <2>1. h \in Seq(SUBSET S) /\ Len(h) = 1 /\ h[1] = t[1] \ {p}
    BY <1>1
  <2> HIDE DEF h
  <2>2. /\ r \in Seq(SUBSET S) /\ Len(r) = Len(t)
        /\ \A i \in 1 .. Len(t) : r[i] = IF i <= 1 THEN h[i] ELSE Tail(t)[i - 1]
    <3>1. /\ r \in Seq(SUBSET S) /\ Len(r) = Len(h) + Len(Tail(t))
          /\ \A i \in 1 .. Len(h) + Len(Tail(t)) : r[i] = IF i <= Len(h) THEN h[i] ELSE Tail(t)[i - Len(h)]
      BY <1>1, <2>1, ConcatProperties
    <3>2. Len(h) + Len(Tail(t)) = Len(t)
      BY <1>1, <2>1
    <3> QED BY <2>1, <3>1, <3>2
  <2> HIDE DEF r
  <2>3. ASSUME NEW j \in DOMAIN r
        PROVE  j + 0 \in DOMAIN t /\ r[j] \subseteq t[j + 0] /\ p \notin r[j]
    <3>1. j \in 1 .. Len(t) /\ j + 0 = j
      BY <2>2
    <3>2. CASE j = 1
      BY <1>1, <2>1, <2>2, <3>1, <3>2
    <3>3. CASE j # 1
      <4>1. j - 1 \in 1 .. Len(t) - 1 /\ (j - 1) + 1 = j
        BY <1>1, <3>1, <3>3
      <4>2. r[j] = t[j]
        BY <1>1, <2>2, <3>1, <3>3, <4>1
      <4> QED BY <1>2, <3>1, <3>3, <4>2
    <3> QED BY <3>2, <3>3
  <2>4. Rest(t, p) = r
    BY <1>4 DEF Rest, r, h
  <2> QED BY <2>2, <2>3, <2>4
<1> QED BY <1>3, <1>4

LEMMA VisitShrinks ==
    ASSUME GraphInv, BlocksInv, NEW t \in Seq(SUBSET Places), t # << >>, Apart(t), NEW p \in Head(t)
    PROVE  LET u == ChildrenOf(p) \o Rest(t, p)
           IN  /\ u \in Seq(SUBSET Places) /\ Apart(u)
               /\ Subtrees(u) \subseteq Subtrees(t) \ {p}
               /\ p \in Subtrees(t)
<1> DEFINE ch == ChildrenOf(p)
           rest == Rest(t, p)
           u == ch \o rest
<1>1. Places \subseteq Seq(Moves)
  BY DEF BlocksInv, Sound, Places
<1>2. 1 \in DOMAIN t /\ Head(t) = t[1] /\ t[1] \in SUBSET Places /\ \A i \in DOMAIN t : t[i] \in SUBSET Places
  BY EmptySeq, HeadTailProperties, ElementOfSeq
<1>3. p \in Places /\ p \in Seq(Moves) /\ Len(p) \in Nat /\ Begins(p, p) /\ p \in t[1]
  BY <1>1, <1>2 DEF Begins
<1>4. /\ ch \in Seq(SUBSET Places)
      /\ \A i \in DOMAIN ch : \A c \in ch[i] : \E s \in Moves : c = Append(p, s)
      /\ \A i, j \in DOMAIN ch : \A c \in ch[i], d \in ch[j] : c = d => i = j
  BY <1>3, ChildrenAre
<1>5. rest \in Seq(SUBSET Places)
  BY <1>3, RestIs
<1>6. PICK k \in {0, 1} : \A j \in DOMAIN rest :
          j + k \in DOMAIN t /\ rest[j] \subseteq t[j + k] /\ p \notin rest[j]
  BY <1>3, RestIs
<1> HIDE DEF ch, rest
<1>7. /\ u \in Seq(SUBSET Places) /\ DOMAIN u = 1 .. Len(ch) + Len(rest)
      /\ Len(ch) \in Nat /\ Len(rest) \in Nat
      /\ DOMAIN ch = 1 .. Len(ch) /\ DOMAIN rest = 1 .. Len(rest)
      /\ \A i \in DOMAIN u : u[i] = IF i <= Len(ch) THEN ch[i] ELSE rest[i - Len(ch)]
  BY <1>4, <1>5, ConcatProperties
<1>8. \A i \in DOMAIN u : \/ i \in DOMAIN ch /\ u[i] = ch[i]
                          \/ i - Len(ch) \in DOMAIN rest /\ u[i] = rest[i - Len(ch)]
  BY <1>7
<1> HIDE DEF u
<1>9. \A i \in DOMAIN u : u[i] \subseteq Places
  BY <1>7, ElementOfSeq
<1>10. ASSUME NEW i \in DOMAIN ch, NEW c \in ch[i]
       PROVE  c \in Seq(Moves) /\ Len(c) = Len(p) + 1 /\ \A j \in 1 .. Len(p) : c[j] = p[j]
  <2>1. PICK s \in Moves : c = Append(p, s)
    BY <1>4
  <2> QED BY <1>3, <2>1, AppendOf
<1>11. ASSUME NEW j \in DOMAIN rest, NEW q \in rest[j]
       PROVE  q \in Seq(Moves) /\ Len(q) \in Nat /\ ~Begins(p, q) /\ ~Begins(q, p)
  <2>1. j + k \in DOMAIN t /\ q \in t[j + k] /\ q # p
    BY <1>6
  <2>2. q \in Seq(Moves)
    BY <1>1, <1>2, <2>1
  <2> QED BY <1>2, <1>3, <2>1, <2>2 DEF Apart
<1>12. ASSUME NEW i \in DOMAIN ch, NEW c \in ch[i], NEW j \in DOMAIN rest, NEW q \in rest[j]
       PROVE  ~Begins(c, q) /\ ~Begins(q, c)
  <2>1. c \in Seq(Moves) /\ Len(c) = Len(p) + 1 /\ \A l \in 1 .. Len(p) : c[l] = p[l]
    BY <1>10
  <2>2. q \in Seq(Moves) /\ Len(q) \in Nat /\ ~Begins(p, q) /\ ~Begins(q, p)
    BY <1>11
  <2>3. Begins(c, q) => Begins(p, q)
    <3>1. \A l \in 1 .. Len(p) : l \in 1 .. Len(c)
      BY <1>3, <2>1
    <3> QED BY <1>3, <2>1, <2>2, <3>1 DEF Begins
  <2>4. Begins(q, c) => Begins(p, q) \/ Begins(q, p)
    <3> SUFFICES ASSUME Begins(q, c) PROVE Begins(p, q) \/ Begins(q, p)
      OBVIOUS
    <3>1. CASE Len(q) <= Len(p)
      <4>1. \A l \in 1 .. Len(q) : l \in 1 .. Len(p)
        BY <1>3, <2>2, <3>1
      <4> QED BY <2>1, <3>1, <4>1 DEF Begins
    <3>2. CASE ~(Len(q) <= Len(p))
      <4>1. Len(p) <= Len(q) /\ \A l \in 1 .. Len(p) : l \in 1 .. Len(q)
        BY <1>3, <2>2, <3>2
      <4> QED BY <2>1, <4>1 DEF Begins
    <3> QED BY <3>1, <3>2
  <2> QED BY <2>2, <2>3, <2>4
<1>13. Apart(u)
  <2> SUFFICES ASSUME NEW i \in DOMAIN u, NEW j \in DOMAIN u,
                      NEW c \in u[i], NEW d \in u[j], Begins(c, d)
               PROVE  i = j /\ c = d
    BY DEF Apart
  <2>0. i \in Nat /\ j \in Nat
    BY <1>7
  <2>1. CASE i \in DOMAIN ch /\ u[i] = ch[i] /\ j \in DOMAIN ch /\ u[j] = ch[j]
    <3>1. c \in Seq(Moves) /\ d \in Seq(Moves) /\ Len(c) = Len(d)
      BY <1>10, <2>1
    <3>2. c = d
      BY <3>1, SeqEqual DEF Begins
    <3> QED BY <1>4, <2>1, <3>2
  <2>2. CASE /\ i - Len(ch) \in DOMAIN rest /\ u[i] = rest[i - Len(ch)]
             /\ j - Len(ch) \in DOMAIN rest /\ u[j] = rest[j - Len(ch)]
    <3>1. i - Len(ch) + k \in DOMAIN t /\ c \in t[i - Len(ch) + k]
      BY <1>6, <2>2
    <3>2. j - Len(ch) + k \in DOMAIN t /\ d \in t[j - Len(ch) + k]
      BY <1>6, <2>2
    <3>3. i - Len(ch) + k = j - Len(ch) + k /\ c = d
      BY <3>1, <3>2 DEF Apart
    <3> QED BY <1>7, <2>0, <3>3
  <2>3. CASE /\ i \in DOMAIN ch /\ u[i] = ch[i]
             /\ j - Len(ch) \in DOMAIN rest /\ u[j] = rest[j - Len(ch)]
    BY <1>12, <2>3
  <2>4. CASE /\ i - Len(ch) \in DOMAIN rest /\ u[i] = rest[i - Len(ch)]
             /\ j \in DOMAIN ch /\ u[j] = ch[j]
    BY <1>12, <2>4
  <2> QED BY <1>8, <2>1, <2>2, <2>3, <2>4
<1>14. p \in Subtrees(t)
  BY <1>2, <1>3 DEF Subtrees
<1>15. Subtrees(u) \subseteq Subtrees(t) \ {p}
  <2> SUFFICES ASSUME NEW q \in Places, NEW i \in DOMAIN u, NEW c \in u[i], Begins(c, q)
               PROVE  q \in Subtrees(t) /\ q # p
    BY DEF Subtrees
  <2>0. q \in Seq(Moves) /\ Len(q) \in Nat
    BY <1>1
  <2>1. CASE i \in DOMAIN ch /\ u[i] = ch[i]
    <3>1. Len(c) = Len(p) + 1 /\ \A l \in 1 .. Len(p) : c[l] = p[l]
      BY <1>10, <2>1
    <3>2. \A l \in 1 .. Len(p) : l \in 1 .. Len(c)
      BY <1>3, <3>1
    <3>3. Begins(p, q) /\ q # p
      BY <1>3, <2>0, <3>1, <3>2 DEF Begins
    <3> QED BY <1>2, <1>3, <3>3 DEF Subtrees
  <2>2. CASE i - Len(ch) \in DOMAIN rest /\ u[i] = rest[i - Len(ch)]
    <3>1. i - Len(ch) + k \in DOMAIN t /\ c \in t[i - Len(ch) + k]
      BY <1>6, <2>2
    <3>2. ~Begins(c, p)
      BY <1>11, <2>2
    <3> QED BY <3>1, <3>2 DEF Subtrees
  <2> QED BY <1>8, <2>1, <2>2
<1> QED BY <1>7, <1>13, <1>14, <1>15 DEF u, ch, rest

-----------------------------------------------------------------------------
(***************************************************************************)
(* The invariant: no code runs before there are blocks, what is still to   *)
(* be visited does not overlap, and only code that went astray has no      *)
(* basic block in execution.                                               *)
(***************************************************************************)
StateInv ==
    /\ phase \in {"optimize", "replace", "run", "failed"}
    /\ node \in Node \union {None}
    /\ node = None => phase = "run" /\ at \notin SimplePlaces
    /\ phase = "optimize" => Places = {}
    /\ labelled \subseteq Places
    /\ todo \in Seq(SUBSET Places) /\ Apart(todo)

IInv == GraphInv /\ BlocksInv /\ StateInv

LEMMA GraphKept ==
    ASSUME GraphInv, UNCHANGED graphVars
    PROVE  GraphInv'
BY DEF GraphInv, GraphType, GotosLead, EdgesGoForward, Predecessors, Dominates, Paths, graphVars

LEMMA BlocksKept ==
    ASSUME BlocksInv, UNCHANGED <<nodes, blocks>>
    PROVE  BlocksInv' /\ Places' = Places /\ SimplePlaces' = SimplePlaces
BY DEF BlocksInv, Sound, Places, SimplePlaces

LEMMA NoBlocks ==
    ASSUME DOMAIN blocks = {}
    PROVE  BlocksInv
BY FS_EmptySet DEF BlocksInv, Sound

(***************************************************************************)
(* A goto that can be replaced jumps to a block on the stack.              *)
(***************************************************************************)
LEMMA TargetIsPlace ==
    ASSUME GraphInv, BlocksInv, NEW p \in Places, NEW g, Depths(p, g) # {}
    PROVE  Target(p, g) \in Places
<1>1. p \in Seq(Moves) /\ Len(p) \in Nat /\ \A i \in 0 .. Len(p) : SubSeq(p, 1, i) \in Places
  BY DEF BlocksInv, Sound, Places
<1> DEFINE D == Depths(p, g)
<1>2. D \subseteq 0 .. Len(p) /\ D # {}
  BY DEF Depths
<1> HIDE DEF D
<1>3. Min(D) \in D
  <2>1. D \subseteq Nat
    BY <1>1, <1>2
  <2>2. \E x \in D : \A y \in D : x <= y
    BY <1>2, <2>1, LeastElement
  <2> QED BY <2>2 DEF Min
<1>4. Max(D) \in D
  <2> DEFINE R == {Len(p) - x : x \in D}
  <2>0. \A x \in D : Len(p) - x \in Nat
    BY <1>1, <1>2
  <2>1. R \subseteq Nat /\ R # {}
    BY <1>2, <2>0
  <2>2. PICK z \in R : \A y \in R : z <= y
    BY <2>1, LeastElement
  <2>3. PICK x \in D : z = Len(p) - x
    BY <2>2
  <2>4. \A y \in D : Len(p) - x <= Len(p) - y
    BY <2>2, <2>3
  <2>5. \A y \in D : x >= y
    BY <1>1, <1>2, <2>4
  <2> QED BY <2>5 DEF Max
<1>5. Target(p, g) = SubSeq(p, 1, Max(D)) \/ Target(p, g) = SubSeq(p, 1, Min(D))
  BY DEF Target, StackAt, D
<1> QED BY <1>1, <1>2, <1>3, <1>4, <1>5

LEMMA InvInit ==
    ASSUME RInit
    PROVE  IInv
<1>1. GraphInv
  BY GraphInit
<1>2. Places = {} /\ BlocksInv
  BY NoBlocks DEF RInit, EmptyMap, Places
<1>3. StateInv
  <2>1. node = Start /\ Start \in Node /\ Start # None
    BY ControlFlowAssumption DEF RInit, Init, Start, Node, None
  <2>2. todo = << >> /\ << >> \in Seq(SUBSET Places) /\ DOMAIN << >> = {}
    BY DEF RInit
  <2>3. Apart(todo)
    BY <2>2 DEF Apart
  <2> QED BY <1>2, <2>1, <2>2, <2>3 DEF RInit, StateInv
<1> QED BY <1>1, <1>2, <1>3 DEF IInv

(***************************************************************************)
(* One lemma for every action.                                             *)
(***************************************************************************)
LEMMA OptimizeKeepsInv ==
    ASSUME IInv, Optimize
    PROVE  IInv'
<1>0. PICK n \in nodes : \E g \in code[n] : InlineGoto(n, g)
  BY DEF Optimize
<1>1. PICK g \in code[n] : InlineGoto(n, g)
  BY <1>0
<1>2. GraphInv'
  BY <1>1, InlineKeepsGraph DEF IInv
<1>3. phase = "optimize" /\ UNCHANGED <<node, phase, blocks, todo, labelled, at>>
  BY <1>1 DEF InlineGoto
<1>4. Places = {} /\ Places' = {} /\ SimplePlaces' = SimplePlaces
  BY <1>3 DEF IInv, StateInv, Places, SimplePlaces
<1>5. BlocksInv'
  BY <1>4, FS_EmptySet DEF BlocksInv, Sound, Places
<1>6. StateInv'
  BY <1>3, <1>4 DEF IInv, StateInv, Apart, Begins
<1> QED BY <1>2, <1>5, <1>6 DEF IInv

LEMMA RelooperStartsKeepsInv ==
    ASSUME IInv, RelooperStarts
    PROVE  IInv'
<1> DEFINE result == Reloop({Start}, DominatedNodes(Start))
           calls == result.done
           b == [p \in {c.at : c \in calls} |-> BlockOf(CHOOSE c \in calls : c.at = p)]
<1>1. /\ phase = "optimize"
      /\ UNCHANGED <<graph, node, edges, reachableBy, nodes, code, labelled, at>>
  BY DEF RelooperStarts
<1>2. GraphInv'
  BY <1>1, GraphKept DEF IInv, graphVars
<1>3. Places = {} /\ labelled = {} /\ node \in Node
  BY <1>1 DEF IInv, StateInv
<1>4. node # None
  BY <1>3, ControlFlowAssumption DEF Node, None
<1>5. CASE Start \in nodes /\ result.open = {}
  <2>1. blocks' = b /\ todo' = << {<< >>} >> /\ phase' = "replace"
    BY <1>5 DEF RelooperStarts
  <2>2. TreeOf({}, calls, StackDepth)
    BY <1>5, ReloopIs DEF IInv
  <2>3. Sound(b) /\ << >> \in DOMAIN b
    BY <2>2, RelooperAssumption, TreeIsSound DEF IInv
  <2> HIDE DEF b
  <2>4. BlocksInv' /\ << >> \in Places'
    BY <1>1, <2>1, <2>3 DEF BlocksInv, Sound, Places
  <2>5. DOMAIN << {<< >>} >> = {1} /\ << {<< >>} >>[1] = {<< >>}
    OBVIOUS
  <2>6. todo' \in Seq(SUBSET Places')
    BY <2>1, <2>4
  <2>7. Apart(todo)'
    BY <2>1, <2>5 DEF Apart
  <2>8. StateInv'
    BY <1>1, <1>3, <1>4, <2>1, <2>6, <2>7 DEF StateInv
  <2> QED BY <1>2, <2>4, <2>8 DEF IInv
<1>6. CASE ~(Start \in nodes /\ result.open = {})
  <2>1. phase' = "failed" /\ UNCHANGED <<blocks, todo>>
    BY <1>6 DEF RelooperStarts
  <2>2. BlocksInv' /\ Places' = Places
    BY <1>1, <2>1, BlocksKept DEF IInv
  <2>3. StateInv'
    BY <1>1, <1>3, <1>4, <2>1, <2>2 DEF IInv, StateInv, Apart, Begins
  <2> QED BY <1>2, <2>2, <2>3 DEF IInv
<1> QED BY <1>5, <1>6

LEMMA ReplaceKeepsInv ==
    ASSUME IInv, Replace
    PROVE  IInv'
<1>1. PICK p \in Head(todo) : ReplaceGotosIn(p)
  BY DEF Replace
<1>2. /\ phase = "replace" /\ todo # << >>
      /\ UNCHANGED <<graph, node, edges, reachableBy, nodes, code, blocks, at>>
  BY <1>1 DEF Replace, ReplaceGotosIn
<1>3. GraphInv'
  BY <1>2, GraphKept DEF IInv, graphVars
<1>4. BlocksInv' /\ Places' = Places
  BY <1>2, BlocksKept DEF IInv
<1>5. todo \in Seq(SUBSET Places) /\ Apart(todo) /\ labelled \subseteq Places /\ node # None /\ node \in Node
  BY <1>2 DEF IInv, StateInv
<1>6. p \in Places
  BY <1>2, <1>5, EmptySeq, HeadTailProperties
<1>7. CASE \A g \in GotosAt(p) : Depths(p, g) # {}
  <2>1. /\ labelled' = labelled \union {Target(p, g) : g \in GotosAt(p)}
        /\ todo' = ChildrenOf(p) \o Rest(todo, p)
        /\ phase' = phase
    BY <1>1, <1>7 DEF ReplaceGotosIn, Rest
  <2>2. labelled' \subseteq Places
    BY <1>5, <1>6, <1>7, <2>1, TargetIsPlace DEF IInv
  <2>3. todo' \in Seq(SUBSET Places) /\ Apart(todo')
    BY <1>2, <1>5, <2>1, VisitShrinks DEF IInv
  <2>4. StateInv'
    BY <1>2, <1>4, <1>5, <2>1, <2>2, <2>3 DEF StateInv, Apart
  <2> QED BY <1>3, <1>4, <2>4 DEF IInv
<1>8. CASE ~(\A g \in GotosAt(p) : Depths(p, g) # {})
  <2>1. phase' = "failed" /\ UNCHANGED <<labelled, todo>>
    BY <1>1, <1>8 DEF ReplaceGotosIn
  <2>2. StateInv'
    BY <1>2, <1>4, <1>5, <2>1 DEF StateInv, Apart
  <2> QED BY <1>3, <1>4, <2>2 DEF IInv
<1> QED BY <1>7, <1>8

LEMMA RunKeepsInv ==
    ASSUME IInv, Run
    PROVE  IInv'
<1>1. /\ phase = "replace" /\ phase' = "run"
      /\ UNCHANGED <<graph, node, edges, reachableBy, nodes, code, blocks, labelled, todo>>
  BY DEF Run, compileVars
<1>2. GraphInv'
  BY <1>1, GraphKept DEF IInv, graphVars
<1>3. BlocksInv' /\ Places' = Places
  BY <1>1, BlocksKept DEF IInv
<1>4. StateInv'
  BY <1>1, <1>3 DEF IInv, StateInv, Apart
<1> QED BY <1>2, <1>3, <1>4 DEF IInv

LEMMA ExecuteKeepsInv ==
    ASSUME IInv, Execute
    PROVE  IInv'
<1>1. PICK g \in GotosOf(graph, node) : Step(g)
  BY DEF Execute
<1>2. /\ phase = "run" /\ phase' = phase /\ at \in SimplePlaces
      /\ UNCHANGED <<graph, edges, reachableBy, nodes, code, blocks, labelled, todo>>
  BY <1>1 DEF Execute, Step, compileVars
<1>3. GraphInv'
  BY <1>2, GraphKept DEF IInv, graphVars
<1>4. BlocksInv' /\ Places' = Places /\ SimplePlaces' = SimplePlaces
  BY <1>2, BlocksKept DEF IInv
<1>5. None \notin Node /\ node \in Node /\ graph \in Methods
  BY <1>2, ControlFlowAssumption DEF IInv, StateInv, GraphInv, GraphType, Node, None
<1>6. g.to \in Node
  BY <1>1, <1>5, GotosType DEF GotoType
<1>7. node' \in Node \union {None} /\ (node' = None => at' \notin SimplePlaces)
  <2>1. CASE g \in code[blocks[at].node]
    <3>1. node' = IF at' \in SimplePlaces THEN blocks[at'].node ELSE None
      BY <1>1, <2>1 DEF Step
    <3>2. \A q \in SimplePlaces : blocks[q].node \in Node
      BY DEF IInv, BlocksInv, Sound, SimplePlaces, Places, GraphInv, GraphType
    <3> QED BY <1>5, <3>1, <3>2
  <2>2. CASE g \notin code[blocks[at].node]
    <3>1. node' = g.to
      BY <1>1, <2>2 DEF Step
    <3> QED BY <1>5, <1>6, <3>1
  <2> QED BY <2>1, <2>2
<1>8. StateInv'
  BY <1>2, <1>4, <1>7 DEF IInv, StateInv, Apart
<1> QED BY <1>3, <1>4, <1>8 DEF IInv

LEMMA InvNext ==
    ASSUME IInv, [RNext]_vars
    PROVE  IInv'
<1>1. CASE Optimize
  BY <1>1, OptimizeKeepsInv
<1>2. CASE RelooperStarts
  BY <1>2, RelooperStartsKeepsInv
<1>3. CASE Replace
  BY <1>3, ReplaceKeepsInv
<1>4. CASE Run
  BY <1>4, RunKeepsInv
<1>5. CASE Execute
  BY <1>5, ExecuteKeepsInv
<1>6. CASE UNCHANGED vars
  <2>1. UNCHANGED <<graph, node, edges, reachableBy, nodes, code, blocks, labelled, todo, phase, at>>
    BY <1>6 DEF vars, compileVars
  <2>2. GraphInv'
    BY <2>1, GraphKept DEF IInv, graphVars
  <2>3. BlocksInv' /\ Places' = Places /\ SimplePlaces' = SimplePlaces
    BY <2>1, BlocksKept DEF IInv
  <2>4. StateInv'
    BY <2>1, <2>3 DEF IInv, StateInv, Apart
  <2> QED BY <2>2, <2>3, <2>4 DEF IInv
<1> QED BY <1>1, <1>2, <1>3, <1>4, <1>5, <1>6 DEF RNext, Compile

LEMMA InvHolds == RSpec => []IInv
<1>1. RInit => IInv
  BY InvInit
<1>2. IInv /\ [RNext]_vars => IInv'
  BY InvNext
<1> QED BY <1>1, <1>2, PTL DEF RSpec

-----------------------------------------------------------------------------
(***************************************************************************)
(* The values of the variables are those InlineGotoOptimizer, Relooper and *)
(* the printed code can give them: only code that went astray executes no  *)
(* basic block, all that is labelled or still to be visited is a block.    *)
(***************************************************************************)
THEOREM TypesStayOK == RSpec => []TypeOK
<1>1. IInv => TypeOK
  <2> SUFFICES ASSUME IInv PROVE TypeOK
    OBVIOUS
  <2>1. \A i \in DOMAIN todo : todo[i] \subseteq Places
    BY ElementOfSeq DEF IInv, StateInv
  <2> QED BY <2>1 DEF IInv, StateInv, GraphInv, GraphType, BlocksInv, Sound, Places, EdgeType, TypeOK
<1> QED BY <1>1, InvHolds, PTL

(***************************************************************************)
(* What a step leaves to do.                                               *)
(***************************************************************************)
RankIn(x) == IF x = "failed" THEN 0 ELSE CHOOSE i \in DOMAIN Phases : Phases[i] = x

LEMMA RankOf ==
    /\ Rank = RankIn(phase) /\ Rank' = RankIn(phase')
    /\ RankIn("optimize") = 3
    /\ RankIn("replace") = 2
    /\ RankIn("run") = 1
    /\ RankIn("failed") = 0
<1>1. DOMAIN Phases = {1, 2, 3} /\ Phases[1] = "run" /\ Phases[2] = "replace" /\ Phases[3] = "optimize"
  BY DEF Phases
<1>2. \A x : x # "failed" => RankIn(x) = CHOOSE i \in {1, 2, 3} : Phases[i] = x
  BY <1>1 DEF RankIn
<1>3. RankIn("optimize") = 3
  BY <1>1, <1>2
<1>4. RankIn("replace") = 2
  BY <1>1, <1>2
<1>5. RankIn("run") = 1
  BY <1>1, <1>2
<1>6. RankIn("failed") = 0 /\ Rank = RankIn(phase) /\ Rank' = RankIn(phase')
  BY DEF Rank, RankIn
<1> QED BY <1>3, <1>4, <1>5, <1>6

PendingIn(t) == {q \in Places : \E i \in DOMAIN t : \E p \in t[i] : p = q \/ IsStrictPrefix(p, q)}

LEMMA PendingOf ==
    ASSUME BlocksInv, NEW t \in Seq(SUBSET Places)
    PROVE  PendingIn(t) = Subtrees(t)
<1>1. ASSUME NEW q \in Places, NEW i \in DOMAIN t, NEW p \in t[i]
      PROVE  (p = q \/ IsStrictPrefix(p, q)) <=> Begins(p, q)
  <2>1. p \in Places /\ Places \subseteq Seq(Moves)
    BY ElementOfSeq DEF BlocksInv, Sound, Places
  <2> QED BY <2>1, PrefixesBegin
<1> QED BY <1>1 DEF PendingIn, Subtrees

LEMMA FewerNodes ==
    ASSUME IInv, Optimize
    PROVE  Rank' = Rank /\ Pending' < Pending
<1>0. PICK n \in nodes : \E g \in code[n] : InlineGoto(n, g)
  BY DEF Optimize
<1>1. PICK g \in code[n] : InlineGoto(n, g)
  BY <1>0
<1>2. phase = "optimize" /\ phase' = "optimize" /\ nodes' = nodes \ {g.to} /\ g.to \in nodes
  BY <1>1, InlinedTarget DEF IInv, InlineGoto
<1>3. IsFiniteSet(nodes)
  <2>1. IsFiniteSet(Node)
    BY ControlFlowAssumption, IntervalIsFinite DEF Node
  <2> QED BY <2>1, FS_Subset DEF IInv, GraphInv, GraphType
<1>4. Cardinality(nodes') = Cardinality(nodes) - 1 /\ Cardinality(nodes) \in Nat
  BY <1>2, <1>3, FS_RemoveElement, FS_CardinalityType
<1>5. Pending = Cardinality(nodes) /\ Pending' = Cardinality(nodes')
  BY <1>2 DEF Pending
<1>6. Rank' = Rank
  BY <1>2 DEF Rank
<1> QED BY <1>4, <1>5, <1>6

LEMMA FewerBlocks ==
    ASSUME IInv, Replace
    PROVE  Rank' < Rank \/ (Rank' = Rank /\ Pending' < Pending)
<1>1. PICK p \in Head(todo) : ReplaceGotosIn(p)
  BY DEF Replace
<1>2. phase = "replace" /\ todo # << >> /\ blocks' = blocks /\ nodes' = nodes
  BY <1>1 DEF Replace, ReplaceGotosIn
<1>3. CASE \A g \in GotosAt(p) : Depths(p, g) # {}
  <2>1. todo' = ChildrenOf(p) \o Rest(todo, p) /\ phase' = phase
    BY <1>1, <1>3 DEF ReplaceGotosIn, Rest
  <2>2. /\ Subtrees(todo') \subseteq Subtrees(todo) \ {p} /\ p \in Subtrees(todo)
        /\ todo \in Seq(SUBSET Places) /\ todo' \in Seq(SUBSET Places)
    BY <1>2, <2>1, VisitShrinks DEF IInv, StateInv
  <2>3. IsFiniteSet(Subtrees(todo))
    <3>1. IsFiniteSet(Places) /\ Subtrees(todo) \subseteq Places
      BY DEF IInv, BlocksInv, Sound, Places, Subtrees
    <3> QED BY <3>1, FS_Subset
  <2>4. /\ IsFiniteSet(Subtrees(todo) \ {p})
        /\ Cardinality(Subtrees(todo) \ {p}) = Cardinality(Subtrees(todo)) - 1
        /\ Cardinality(Subtrees(todo)) \in Nat
    BY <2>2, <2>3, FS_RemoveElement, FS_CardinalityType
  <2>5. Cardinality(Subtrees(todo')) <= Cardinality(Subtrees(todo) \ {p}) /\ Cardinality(Subtrees(todo')) \in Nat
    BY <2>2, <2>4, FS_Subset, FS_CardinalityType
  <2>6. Pending = Cardinality(Subtrees(todo))
    <3>1. Pending = Cardinality(PendingIn(todo))
      BY <1>2 DEF Pending, PendingIn
    <3> QED BY <2>2, <3>1, PendingOf DEF IInv
  <2>7. Pending' = Cardinality(Subtrees(todo'))
    <3>1. Places' = Places /\ phase' = "replace"
      BY <1>2, <2>1 DEF Places
    <3>2. Pending' = Cardinality(PendingIn(todo'))
      BY <3>1 DEF Pending, PendingIn
    <3> QED BY <2>2, <3>2, PendingOf DEF IInv
  <2>8. Rank' = Rank
    BY <2>1 DEF Rank
  <2> QED BY <2>4, <2>5, <2>6, <2>7, <2>8
<1>4. CASE ~(\A g \in GotosAt(p) : Depths(p, g) # {})
  <2>1. phase' = "failed"
    BY <1>1, <1>4 DEF ReplaceGotosIn
  <2>2. Rank = 2 /\ Rank' = 0
    BY <1>2, <2>1, RankOf
  <2> QED BY <2>2
<1> QED BY <1>3, <1>4

(***************************************************************************)
(* Compilation cannot go on forever: every step of the optimizer deletes a *)
(* node, every visit of replaceGotosIn leaves fewer blocks to visit, each  *)
(* is visited once, whatever the order.                                    *)
(***************************************************************************)
THEOREM CompilationComesToAnEnd == RSpec => CompilationAdvances
<1>1. ASSUME IInv, RNext, phase # "run"
      PROVE  Rank' < Rank \/ (Rank' = Rank /\ Pending' < Pending)
  <2>1. CASE Optimize
    BY <1>1, <2>1, FewerNodes
  <2>2. CASE RelooperStarts
    <3>1. phase = "optimize" /\ phase' \in {"replace", "failed"}
      BY <2>2 DEF RelooperStarts
    <3>2. Rank = 3 /\ Rank' \in {0, 2}
      BY <3>1, RankOf
    <3> QED BY <3>2
  <2>3. CASE Replace
    BY <1>1, <2>3, FewerBlocks
  <2>4. CASE Run
    <3>1. phase = "replace" /\ phase' = "run"
      BY <2>4 DEF Run
    <3>2. Rank = 2 /\ Rank' = 1
      BY <3>1, RankOf
    <3> QED BY <3>2
  <2>5. CASE Execute
    BY <1>1, <2>5 DEF Execute
  <2> QED BY <1>1, <2>1, <2>2, <2>3, <2>4, <2>5 DEF RNext, Compile
<1>2. IInv /\ [RNext]_vars => [phase # "run" => Rank' < Rank \/ (Rank' = Rank /\ Pending' < Pending)]_vars
  BY <1>1
<1> QED BY <1>2, InvHolds, PTL DEF RSpec, CompilationAdvances

(***************************************************************************)
(* The labels of nested blocks differ: what reloop makes of the nodes an   *)
(* entry dominates has no block with the same kind and entries inside, and *)
(* only there does a label stay in scope.                                  *)
(***************************************************************************)
THEOREM NestedLabelsDiffer == RSpec => []LabelsUnambiguous
<1>1. ASSUME IInv, NEW p \in SimplePlaces, NEW q \in labelled, NEW r \in labelled,
             Encloses(q, p), Encloses(r, p), NameOf(q) = NameOf(r)
      PROVE  q = r
  <2>1. p \in Places /\ q \in Places /\ r \in Places /\ Places \subseteq Seq(Moves)
    BY <1>1 DEF IInv, StateInv, BlocksInv, Sound, SimplePlaces, Places
  <2>2. p \in Seq(Moves) /\ q \in Seq(Moves) /\ r \in Seq(Moves)
    BY <2>1
  <2>3. Len(p) \in Nat /\ Len(q) \in Nat /\ Len(r) \in Nat
    BY <2>2
  <2>4. Begins(q, p) /\ Begins(r, p)
    BY <1>1, <2>2, PrefixesBegin DEF Encloses
  <2>5. blocks[q].kind = blocks[r].kind /\ blocks[q].entries = blocks[r].entries
    BY <1>1 DEF NameOf
  <2>6. ASSUME NEW x \in {q, r}, NEW y \in {q, r}, Len(x) < Len(y) PROVE FALSE
    <3>1. x \in Places /\ y \in Places /\ Begins(x, p) /\ Begins(y, p) /\ Encloses(x, p)
      BY <1>1, <2>1, <2>4
    <3>2. Len(x) \in Nat /\ Len(y) \in Nat /\ Len(y) <= Len(p)
      BY <2>3, <3>1 DEF Begins
    <3>3. x # p
      BY <2>6, <3>2
    <3>4. blocks[x].kind # "simple" /\ p[Len(x) + 1] # NextStep
      BY <3>1, <3>3 DEF Encloses
    <3>5. Len(x) + 1 \in 1 .. Len(y) /\ \A i \in 1 .. Len(x) : i \in 1 .. Len(y)
      BY <2>6, <3>2
    <3>6. IsInner(x, y)
      BY <2>6, <3>1, <3>4, <3>5 DEF IsInner, Begins
    <3>7. blocks[x].kind = blocks[y].kind /\ blocks[x].entries = blocks[y].entries
      BY <2>5
    <3> QED BY <1>1, <3>1, <3>4, <3>6, <3>7 DEF IInv, BlocksInv, Sound, Places
  <2>7. Len(q) = Len(r)
    BY <2>3, <2>6
  <2> QED BY <2>2, <2>4, <2>7, SeqEqual DEF Begins
<1>2. IInv => LabelsUnambiguous
  BY <1>1 DEF LabelsUnambiguous
<1> QED BY <1>2, InvHolds, PTL

=============================================================================
