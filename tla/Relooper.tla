------------------------------ MODULE Relooper ------------------------------
(***************************************************************************)
(* From the control flow graph of a method to structured code, and the     *)
(* structured code in execution: InlineGotoOptimizer, Relooper, and the    *)
(* code JSSSAWriter prints for the relooper's blocks.                      *)
(*                                                                         *)
(* The relooper's blocks form a tree.  A block is named here by its place: *)
(* the sequence of steps from the root to it, where a step leads to the    *)
(* block that comes next, into the body of a loop, or into the handler     *)
(* for an entry n of a multiple block (the step is n itself).              *)
(*                                                                         *)
(* A goto is a record of the basic block it stands in, its target, and     *)
(* whether it is the last expression of that block; gotos move along with  *)
(* their block's expressions when the optimizer inlines the block.         *)
(***************************************************************************)
EXTENDS ControlFlow, FiniteSetsExt, TLC

CONSTANTS
  Inlining,   (* whether InlineGotoOptimizer runs: KnownOptimizer.ALL has   *)
              (* it, KnownOptimizer.NONE has not                            *)
  StackDepth  (* how deep the relooper's recursion can go                   *)

ASSUME RelooperAssumption == Inlining \subseteq BOOLEAN /\ StackDepth \in Nat

VARIABLES
  edges,       (* edges of the graph, each with its type                   *)
  reachableBy, (* the paths every node is reached by                       *)
  nodes,       (* the nodes the graph still has                            *)
  code,        (* the gotos in the expressions of every node               *)
  tail,        (* the basic block whose expressions end a node's list      *)
  phase,       (* "optimize", "replace", "run", or "failed"                *)
  blocks,      (* the relooper's blocks, by place                          *)
  todo,        (* stack of the sets of places replaceGotosIn has to visit  *)
  jump,        (* the break or continue that replaced a goto               *)
  labelled,    (* the places whose block requires its label                *)
  at,          (* the place of the simple block in execution               *)
  label        (* the variable __label__                                   *)

compileVars == <<edges, reachableBy, nodes, code, tail, blocks, todo, jump, labelled>>
vars == <<graph, node, compileVars, phase, at, label>>

Goto(n, t, last) == [from |-> n, to |-> t, last |-> last]

GotosOf(g, n) ==
  {Goto(n, t, FALSE) : t \in g[n].branch}
  \union {Goto(n, t, TRUE) : t \in {g[n].fall} \ {None}}

Edge(m, n, back) == [from |-> m, to |-> n, back |-> back]

EmptyMap == [x \in {} |-> {}]

RInit ==
  /\ Init
  /\ reachableBy = ReachableBy(graph)
  /\ edges = {Edge(e[1], e[2], IsBackEdge(reachableBy, e[1], e[2])) :
                e \in {p \in Node \X Node : p[2] \in Successors(graph, p[1])}}
  /\ nodes = Node
  /\ code = [n \in Node |-> GotosOf(graph, n)]
  /\ tail = [n \in Node |-> n]
  /\ phase = "optimize"
  /\ blocks = EmptyMap
  /\ todo = << >>
  /\ jump = EmptyMap
  /\ labelled = {}
  /\ at = << >>
  /\ label = None

-----------------------------------------------------------------------------
(* InlineGotoOptimizer *)

(* Nodes that are deleted from the graph leave its paths as well.  Those   *)
(* of which something is left tell where a node is entered from.           *)
Predecessors(n) == {path \in reachableBy[n] : ToSet(path) \intersect nodes # {}}

ComesFrom(path, m) ==
  /\ m \in nodes
  /\ \E i \in DOMAIN path :
       path[i] = m /\ \A j \in DOMAIN path : j > i => path[j] \notin nodes

IsStrictlyDominatedBy(n, m) ==
  \E path \in reachableBy[n] : Predecessors(n) = {path} /\ ComesFrom(path, m)

Inlinable_mutant(n, g) ==
  /\ g \in code[n]
  /\ \E path \in Predecessors(g.to) : ComesFrom(path, n)
Inlinable(n, g) ==
  /\ g \in code[n]
  /\ IsStrictlyDominatedBy(g.to, n)
  /\ \A h \in code[n] : h.to = g.to => h = g

(* The target's expressions take the place of the goto, the target leaves  *)
(* the graph, and the node inherits its successors.                        *)
InlineGoto(n, g) ==
  LET t == g.to
      Renamed(h) == IF h.to = t THEN [h EXCEPT !.to = n] ELSE h
      inlined == [code EXCEPT ![n] = (@ \ {g}) \union code[t]]
  IN  /\ phase = "optimize"
      /\ Inlinable(n, g)
      /\ nodes' = nodes \ {t}
      /\ edges' = {e \in edges : t \notin {e.from, e.to}}
                  \union {[e EXCEPT !.from = n] : e \in {d \in edges : d.from = t /\ d.to # t}}
      /\ code' = [m \in Node |-> {Renamed(h) : h \in inlined[m]}]
      /\ tail' = IF g.last /\ g.from = tail[n] THEN [tail EXCEPT ![n] = tail[t]] ELSE tail
      /\ UNCHANGED <<graph, node, reachableBy, phase, blocks, todo, jump, labelled, at, label>>

(* The optimizer starts over at the first node after every change. *)
Optimize ==
  /\ TRUE \in Inlining
  /\ \E n \in nodes :
       /\ \A m \in nodes : m < n => \A g \in code[m] : ~Inlinable(m, g)
       /\ \E g \in code[n] : InlineGoto(n, g)

Optimized ==
  \/ TRUE \in Inlining /\ \A n \in nodes : \A g \in code[n] : ~Inlinable(n, g)
  \/ FALSE \in Inlining /\ nodes = Node

-----------------------------------------------------------------------------
(* Relooper.reloop *)

DominatedNodes_mutant(n) ==
  {n} \union {m \in nodes : \E path \in reachableBy[m] : n \in ToSet(path) \intersect nodes}
DominatedNodes(n) ==
  {n} \union {m \in nodes : /\ reachableBy[m] # {}
                            /\ \A path \in reachableBy[m] : n \in ToSet(path) \intersect nodes}

NormalEdges == {e \in edges : ~e.back}

JumpTargetsOf(soup) == {e.to : e \in {d \in edges : d.from \in soup /\ d.to \in soup}}

AllForwardJumpTargetsOf(soup) == {e.to : e \in {d \in NormalEdges : d.from \in soup}}

ForwardReachable(S) ==
  LET reached[k \in Nat] ==
        IF k = 0 THEN S
        ELSE LET before == reached[k - 1]
             IN  before \union AllForwardJumpTargetsOf(before)
  IN  reached[N]

(* The steps from a block to the block after it and to a loop's body. *)
NextStep == 0
BodyStep == -1

NextOf(p) == Append(p, NextStep)
BodyOf(p) == Append(p, BodyStep)
HandlerOf(p, n) == Append(p, n)

Block(kind, entries, n) == [kind |-> kind, entries |-> entries, node |-> n]

(* A call of reloop makes a block, at place at, for the nodes in soup that *)
(* is entered at entries.  What is made of a loop is not a loop again.     *)
Call(entries, soup, p) == [entries |-> entries, soup |-> soup, at |-> p, inLoop |-> FALSE]

Kind(c) ==
  IF Cardinality(c.entries) > 1 THEN "multiple"
  ELSE IF ~c.inLoop /\ c.entries \subseteq JumpTargetsOf(c.soup) THEN "loop"
  ELSE "simple"

HandledBy(c) == UNION {DominatedNodes(e) : e \in c.entries}

InnerCalls(c) ==
  CASE Kind(c) = "simple" -> {}
    [] Kind(c) = "loop" -> {[Call(c.entries, HandledBy(c), BodyOf(c.at)) EXCEPT !.inLoop = TRUE]}
    [] Kind(c) = "multiple" ->
         {Call({e}, DominatedNodes(e), HandlerOf(c.at, e)) : e \in c.entries}

NextCall(c) ==
  LET rest == c.soup \ HandledBy(c)
  IN  CASE Kind(c) = "simple" ->
             Call(AllForwardJumpTargetsOf(c.entries) \intersect HandledBy(c),
                  c.soup \ c.entries, NextOf(c.at))
        [] Kind(c) = "loop" ->
             Call(ForwardReachable(c.entries) \intersect rest, rest, NextOf(c.at))
        [] Kind(c) = "multiple" ->
             Call(AllForwardJumpTargetsOf(HandledBy(c)) \intersect rest, rest, NextOf(c.at))

CallsFrom(c) == {d \in InnerCalls(c) \union {NextCall(c)} : d.entries # {}}

(* The recursion, level by level. *)
Reloop(entries, soup) ==
  LET level[k \in 0 .. StackDepth] ==
        IF k = 0 THEN [open |-> {Call(entries, soup, << >>)}, done |-> {}]
        ELSE LET before == level[k - 1]
             IN  [open |-> UNION {CallsFrom(c) : c \in before.open},
                  done |-> before.done \union before.open]
  IN  level[StackDepth]

BlockOf(c) ==
  Block(Kind(c), c.entries, IF Kind(c) = "simple" THEN CHOOSE e \in c.entries : TRUE ELSE None)

(* The graph's start node has to be there: startNode() throws otherwise.   *)
(* A recursion beyond the depth of the stack ends with an error, too.      *)
RelooperStarts ==
  /\ phase = "optimize"
  /\ Optimized
  /\ LET result == Reloop({Start}, DominatedNodes(Start))
         calls == result.done
     IN  IF Start \in nodes /\ result.open = {}
         THEN /\ blocks' = [p \in {c.at : c \in calls} |->
                             BlockOf(CHOOSE c \in calls : c.at = p)]
              /\ todo' = << {<< >>} >>
              /\ phase' = "replace"
         ELSE /\ phase' = "failed"
              /\ UNCHANGED <<blocks, todo>>
  /\ UNCHANGED <<graph, node, edges, reachableBy, nodes, code, tail, jump, labelled, at, label>>

-----------------------------------------------------------------------------
(* Relooper.replaceGotosIn *)

Places == DOMAIN blocks

SimplePlaces == {p \in Places : blocks[p].kind = "simple"}

(* The traversal stack at place p, by depth: the blocks on the way to it, *)
(* also those it only comes after.                                        *)
StackAt(p, i) == SubSeq(p, 1, i)

NameOf_mutant(p) == <<"block", blocks[p].entries>>
NameOf(p) == <<blocks[p].kind, blocks[p].entries>>

BreaksTo(p, t) == NextOf(p) \in Places /\ t \in blocks[NextOf(p)].entries
Entered(p, t) == t \in blocks[p].entries

SetRequired_mutant(p) == ~(blocks[NextOf(p)].kind = "multiple")
SetRequired(p) == ~(blocks[NextOf(p)].kind = "simple" /\ Cardinality(blocks[NextOf(p)].entries) = 1)

IsNormal(p, g) == Edge(blocks[p].node, g.to, FALSE) \in edges
IsBack(p, g) == Edge(blocks[p].node, g.to, TRUE) \in edges

(* The depths of the stack at which the goto g at place p can be replaced: *)
(* along a normal edge by a break to the next block, or by a continue of a *)
(* block the target enters; along a back edge only by a continue.          *)
Depths(p, g) ==
  {i \in 0 .. Len(p) :
     \/ IsNormal(p, g) /\ BreaksTo(StackAt(p, i), g.to)
     \/ (IsNormal(p, g) \/ IsBack(p, g)) /\ Entered(StackAt(p, i), g.to)}

(* The innermost of them for a normal edge, the outermost for a back edge. *)
Target_mutant(p, g) == StackAt(p, Min(Depths(p, g)))
Target(p, g) ==
  StackAt(p, IF IsNormal(p, g) THEN Max(Depths(p, g)) ELSE Min(Depths(p, g)))

JumpFor(p, g) ==
  LET q == Target(p, g)
  IN  IF IsNormal(p, g) /\ BreaksTo(q, g.to)
      THEN [kind |-> "break", name |-> NameOf(q), set |-> SetRequired(q)]
      ELSE [kind |-> "continue", name |-> NameOf(q), set |-> TRUE]

(* The gotos left in the expressions of the simple block at p: a node that *)
(* has a block at a second place has none left there.                      *)
GotosAt(p) == IF blocks[p].kind = "simple" THEN code[blocks[p].node] \ DOMAIN jump ELSE {}

ChildrenOf_mutant(p) ==
  IF blocks[p].kind = "loop" THEN << {p} >> ELSE << {q \in Places : q # p /\ Front(q) = p} >>
ChildrenOf_unchecked(p) ==
  IF blocks[p].kind = "loop" THEN << {BodyOf(p)}, {NextOf(p)} >>
  ELSE << {HandlerOf(p, e) : e \in {d \in blocks[p].entries : blocks[p].kind = "multiple"}},
          {NextOf(p)} >>
ChildrenOf(p) ==
  LET here == CASE blocks[p].kind = "simple" -> << >>
                [] blocks[p].kind = "loop" -> << {BodyOf(p)} >>
                [] blocks[p].kind = "multiple" -> << {HandlerOf(p, e) : e \in blocks[p].entries} >>
  IN  IF NextOf(p) \in Places THEN Append(here, {NextOf(p)}) ELSE here

(* The handlers of a multiple block are visited in any order: they are in  *)
(* a HashSet of objects without a hash code of their own.  An exception    *)
(* ends the compilation if there is no block to break or to continue.      *)
ReplaceGotosIn(p) ==
  /\ phase = "replace"
  /\ IF \A g \in GotosAt(p) : Depths(p, g) # {}
     THEN /\ jump' = [g \in GotosAt(p) |-> JumpFor(p, g)] @@ jump
          /\ labelled' = labelled \union {Target(p, g) : g \in GotosAt(p)}
          /\ todo' = ChildrenOf(p) \o (IF Head(todo) = {p} THEN Tail(todo)
                                       ELSE << Head(todo) \ {p} >> \o Tail(todo))
          /\ UNCHANGED phase
     ELSE /\ phase' = "failed"
          /\ UNCHANGED <<jump, labelled, todo>>
  /\ UNCHANGED <<graph, node, edges, reachableBy, nodes, code, tail, blocks, at, label>>

Replace == todo # << >> /\ \E p \in Head(todo) : ReplaceGotosIn(p)

-----------------------------------------------------------------------------
(* The code in execution *)

NoPlace == << BodyStep, BodyStep >>

(* The simple block control comes to when it enters the code at place p:   *)
(* NoPlace if there is no code, or no case for the label (the switch then  *)
(* spins forever).                                                         *)
Enter(p, l) ==
  LET enter[q \in Places] ==
        CASE blocks[q].kind = "simple" -> q
          [] blocks[q].kind = "loop" -> enter[BodyOf(q)]
          [] blocks[q].kind = "multiple" ->
               IF l \in blocks[q].entries THEN enter[HandlerOf(q, l)] ELSE NoPlace
  IN  IF p \in Places THEN enter[p] ELSE NoPlace

(* The label of a simple block is around its expressions only, that of a   *)
(* loop or multiple block around its body or handlers; the next block is   *)
(* printed behind the closing brace.                                       *)
Encloses(q, p) ==
  \/ q = p
  \/ IsStrictPrefix(q, p) /\ blocks[q].kind # "simple" /\ p[Len(q) + 1] # NextStep

(* The enclosing blocks that carry the name of a jump. *)
Labels(p, name) ==
  {q \in {StackAt(p, i) : i \in 0 .. Len(p)} :
     Encloses(q, p) /\ q \in labelled /\ NameOf(q) = name}

(* A break at the end of a simple block that leaves just that block is     *)
(* not printed.                                                            *)
Silent(p, g) ==
  /\ g.last /\ g.from = tail[blocks[p].node]
  /\ jump[g].kind = "break"
  /\ jump[g].name = NameOf(p)

LabelAfter(g) == IF jump[g].set THEN g.to ELSE label

(* Where the jump that replaced goto g leads to from place p. *)
Destination(p, g) ==
  LET labels == Labels(p, jump[g].name)
      q == CHOOSE r \in labels : \A s \in labels : Len(s) <= Len(r)
  IN  IF Silent(p, g) THEN Enter(NextOf(p), LabelAfter(g))
      ELSE IF labels = {} THEN NoPlace
      ELSE IF jump[g].kind = "break" THEN Enter(NextOf(q), LabelAfter(g))
      ELSE CASE blocks[q].kind = "loop" -> Enter(BodyOf(q), LabelAfter(g))
             [] blocks[q].kind = "multiple" -> Enter(q, LabelAfter(g))
             [] blocks[q].kind = "simple" -> NoPlace

Run ==
  /\ phase = "replace"
  /\ todo = << >>
  /\ phase' = "run"
  /\ at' = Enter(<< >>, label)
  /\ UNCHANGED <<graph, node, compileVars, label>>

(* One jump of the method: into code inlined at this place, or to another  *)
(* place, or astray (node None).  A method at its end returns.             *)
Step(g) ==
  /\ IF g \in code[blocks[at].node]
     THEN /\ at' = Destination(at, g)
          /\ node' = IF at' \in SimplePlaces THEN blocks[at'].node ELSE None
          /\ label' = LabelAfter(g)
     ELSE /\ node' = g.to
          /\ UNCHANGED <<at, label>>
  /\ UNCHANGED <<graph, compileVars, phase>>

(* JavaScript refuses code with a jump to a label that is not around it.   *)
IsAccepted ==
  \A p \in SimplePlaces : \A g \in code[blocks[p].node] :
    Silent(p, g) \/ Labels(p, jump[g].name) # {}

Execute ==
  /\ phase = "run"
  /\ IsAccepted
  /\ at \in SimplePlaces
  /\ \E g \in GotosOf(graph, node) : Step(g)

Compile == Optimize \/ RelooperStarts \/ Replace \/ Run

RNext == Compile \/ Execute

RSpec == RInit /\ [][RNext]_vars

-----------------------------------------------------------------------------
TypeOK ==
  /\ nodes \subseteq Node
  /\ node \in Node \union {None}
  /\ edges \subseteq [from: Node, to: Node, back: BOOLEAN]
  /\ phase \in {"optimize", "replace", "run", "failed"}
  /\ \A p \in Places : /\ blocks[p].kind \in {"simple", "loop", "multiple"}
                       /\ blocks[p].entries \subseteq nodes
  /\ labelled \subseteq Places
  /\ \A i \in DOMAIN todo : todo[i] \subseteq Places

(* No method is refused: the start node survives the optimizer, and there  *)
(* is a break or a continue for every goto of the graph.                   *)
CompilationSucceeds == phase # "failed"

(* Every node's expressions are emitted once.  The gotos in them can be    *)
(* replaced for one place only: a second copy would jump to labels that    *)
(* are not around it.  The handlers of a multiple block and the block next *)
(* to it have to share out the labels, Relooper.java:391 "labels it        *)
(* reaches that cannot be reached by any other entry".                     *)
OneBlockPerNode ==
  LET places == SimplePlaces
  IN  \A p, q \in places : blocks[p].node = blocks[q].node => p = q

(* The code at place p comes after a multiple block, and its goto g leads   *)
(* back to one of that block's handlers.                                   *)
LeadsBack(p, g) ==
  \E i \in 0 .. Len(p) - 1 :
    /\ p[i + 1] = NextStep
    /\ blocks[StackAt(p, i)].kind = "multiple"
    /\ Entered(StackAt(p, i), g.to)

(* Every break and continue that is left in the code names a label around  *)
(* it, of a block it can break or continue, and leads to the code of the   *)
(* node its goto had as target; but for the gotos back to a handler, that  *)
(* LabelsInScope is about.                                                 *)
JumpsLand ==
  phase = "run" =>
    \A p \in SimplePlaces : \A g \in code[blocks[p].node] :
      LET destination == Destination(p, g)
      IN  \/ LeadsBack(p, g)
          \/ /\ destination \in Places
             /\ blocks[destination].node = g.to

(* What replaceGotosIn finds on its stack is a block around the goto, or   *)
(* the printed code names a label that is not in scope, a syntax error in  *)
(* JavaScript.  The stack is also there behind a multiple block, where     *)
(* that block is not around the code any more.                             *)
LabelsInScope == phase = "run" => IsAccepted

(* No label is declared inside a block with the same label, a syntax error *)
(* in the JavaScript the writer prints.                                    *)
LabelsUnambiguous ==
  phase = "run" =>
    \A p \in SimplePlaces : \A q, r \in labelled :
      Encloses(q, p) /\ Encloses(r, p) /\ NameOf(q) = NameOf(r) => q = r

(* The structured code in execution takes, whatever way the conditions     *)
(* turn out, exactly a walk along the jumps of the bytecode.               *)
ImplementsWalk == Walk

(* The optimizer, which starts over after every change, and the traversal  *)
(* of the blocks come to an end: each of their steps leaves fewer nodes in *)
(* the graph, fewer blocks to visit, or is the last of its phase.          *)
Phases == << "run", "replace", "optimize" >>
Rank == IF phase = "failed" THEN 0 ELSE CHOOSE i \in DOMAIN Phases : Phases[i] = phase

Pending ==
  CASE phase = "optimize" -> Cardinality(nodes)
    [] phase = "replace" ->
         Cardinality({q \in Places : \E i \in DOMAIN todo : \E p \in todo[i] :
                                       p = q \/ IsStrictPrefix(p, q)})
    [] OTHER -> 0

CompilationAdvances ==
  [][phase # "run" => Rank' < Rank \/ (Rank' = Rank /\ Pending' < Pending)]_vars

=============================================================================
