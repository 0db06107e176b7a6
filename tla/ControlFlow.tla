---------------------------- MODULE ControlFlow ----------------------------
(***************************************************************************)
(* What the control flow of a method's bytecode is, and all that compiled  *)
(* code owes to it: execution is a walk along the jumps of the method's    *)
(* basic blocks.  The blocks are numbered in the order of their addresses; *)
(* block 1 starts the method.                                              *)
(*                                                                         *)
(* A block ends with a return or throw, a jump, a conditional jump that    *)
(* falls through to the next block, or a switch.  "branch" has the targets *)
(* of the jumps that sit inside an if or switch expression, "fall" is the  *)
(* target of the jump at the very end, and "catch" the exception handlers  *)
(* whose try block starts here: edges of the graph no code jumps along.    *)
(***************************************************************************)
EXTENDS Integers, FiniteSets, Sequences, SequencesExt

CONSTANTS
  N,           (* basic blocks of a method                                 *)
  MaxCases,    (* targets of a switch, two at least; 0 for no switches     *)
  MaxSwitches, (* blocks of a method that end with a switch                *)
  MaxBackward, (* blocks with a jump backward, of a method with a switch   *)
               (* or an exception handler                                  *)
  MaxHandlers, (* blocks of a method with an exception handler             *)
  LoopAtStart  (* jumps may lead back to the first instruction             *)

ASSUME ControlFlowAssumption ==
  /\ N \in Nat \ {0}
  /\ {MaxCases, MaxSwitches, MaxBackward, MaxHandlers} \subseteq Nat
  /\ LoopAtStart \in BOOLEAN

Node == 1 .. N
Start == 1
None == 0

VARIABLES
  graph,  (* the method: what every basic block ends with                  *)
  node    (* the basic block in execution                                  *)

walkVars == <<graph, node>>

-----------------------------------------------------------------------------
(* The blocks a jump in block n may lead to. *)
TargetsFrom(n) ==
  {t \in Node : t # Start \/ LoopAtStart}

Shapes(n) ==
  LET Ends ==
        {[branch |-> {}, fall |-> None]}
        \union {[branch |-> {}, fall |-> t] : t \in TargetsFrom(n)}
        \union {[branch |-> {t}, fall |-> n + 1] :
                  t \in {u \in TargetsFrom(n) : n < N}}
        \union {[branch |-> T, fall |-> None] :
                  T \in {U \in SUBSET {t \in TargetsFrom(n) : t > n} :
                           Cardinality(U) \in 2 .. MaxCases}}
      Catches == {{}} \union {{h} : h \in {t \in Node : t > n}}
  IN  {[branch |-> e.branch, fall |-> e.fall, catch |-> c] :
         e \in Ends, c \in Catches}

(* Where execution may go from block n. *)
Jumps(g, n) == (g[n].branch \union {g[n].fall}) \ {None}

(* The successors the graph has for block n. *)
Successors(g, n) == Jumps(g, n) \union g[n].catch

(* The traversal that marks back edges: the walks along the edges of the   *)
(* graph, a node more each, from its start.  A walk ends where it comes    *)
(* back to a node it had before the one it comes from.                     *)
GoesOn(w) == \A i \in 1 .. Len(w) - 2 : w[i] # Last(w)

Walks(g) ==
  LET walks[k \in 0 .. 2 * N] ==
        IF k = 0 THEN {<< Start >>}
        ELSE UNION {{Append(w, t) : t \in Successors(g, Last(w))} :
                      w \in {v \in walks[k - 1] : GoesOn(v)}}
  IN  UNION {walks[k] : k \in 0 .. 2 * N}

(* The paths a node is reached by: RegionNode.reachableBy. *)
ReachableBy(g) ==
  LET walks == Walks(g)
  IN  [n \in Node |-> {Front(w) : w \in {v \in walks : Last(v) = n}}]

(* An edge leads back if some path came along it to a node it had already. *)
IsBackEdge(reach, m, n) ==
  \E path \in reach[n] : path # << >> /\ Last(path) = m /\ n \in ToSet(path)

(* No basic block is dead code: some edge leads to each, and some walk.    *)
EveryBlockHasPredecessor(g) ==
  \A t \in Node \ {Start} : \E n \in Node : t \in Successors(g, n)

NoDeadCode(reach) == \A n \in Node : reach[n] # {}

(* A loop is entered only at its head, as Java's statements make it. *)
Reducible(reach) ==
  \A m, n \in Node :
    IsBackEdge(reach, m, n) /\ m # n => \A path \in reach[m] : n \in ToSet(path)

WellFormed(g) ==
  /\ EveryBlockHasPredecessor(g)
  /\ LET reach == ReachableBy(g) IN NoDeadCode(reach) /\ Reducible(reach)

IsSwitch(b) == b.branch # {} /\ b.fall = None

(* Bounds: few switches and exception handlers, few jumps backward where   *)
(* there are such, no handler in a method with a switch, and none that a   *)
(* jump leads to as well: javac leaves the exception on the stack for the  *)
(* handler to store.                                                       *)
WithinBounds(g) ==
  LET switches == {n \in DOMAIN g : IsSwitch(g[n])}
      backward == {n \in DOMAIN g : \E t \in Jumps(g, n) : t <= n}
      handled == {n \in DOMAIN g : g[n].catch # {}}
  IN  /\ Cardinality(switches) <= MaxSwitches
      /\ switches \union handled = {} \/ Cardinality(backward) <= MaxBackward
      /\ Cardinality(handled) <= MaxHandlers
      /\ switches = {} \/ handled = {}
      /\ \A m, n \in DOMAIN g : Jumps(g, m) \intersect g[n].catch = {}

(* The methods the compiler is checked on: block by block. *)
Beginnings[n \in 0 .. N] ==
  IF n = 0 THEN {<< >>}
  ELSE {Append(p[1], p[2]) :
          p \in {q \in Beginnings[n - 1] \X Shapes(n) : WithinBounds(Append(q[1], q[2]))}}

Methods == {g \in Beginnings[N] : WellFormed(g)}

-----------------------------------------------------------------------------
Init ==
  /\ graph \in Methods
  /\ node = Start

Next ==
  /\ node' \in Jumps(graph, node)
  /\ UNCHANGED graph

(* An execution of a given method. *)
Walk == node = Start /\ [][Next]_walkVars

Spec == Init /\ [][Next]_walkVars

=============================================================================
