----------------------------- MODULE ClassInit -----------------------------
(***************************************************************************)
(* How the static initialisers of a compiled program run.  Both backends   *)
(* give every class a check function that the module's bootstrap calls for *)
(* the linked classes: it returns at once if the class is marked, marks it *)
(* otherwise, calls the checks of the classes the code of this class       *)
(* refers to, and runs the class's static initialiser.  Nothing calls a    *)
(* check later.                                                            *)
(*                                                                         *)
(* "refs" is the program: the static references of every class, a          *)
(* HashSet whose order is not known here, so the checks are called in any  *)
(* order.  A class without a static initialiser has one that does nothing. *)
(*                                                                         *)
(* A definition whose name ends in "_mutant" is a faulty variant of the    *)
(* one that follows it, used to test that the properties notice the fault. *)
(***************************************************************************)
EXTENDS Integers, Sequences, SequencesExt

CONSTANTS
  Class,     (* the linked classes                                         *)
  Interface, (* those of them that are interfaces                          *)
  Programs   (* the programs: static references of every class             *)

ASSUME ClassInitAssumption ==
  /\ Interface \subseteq Class
  /\ Programs \subseteq [Class -> SUBSET Class]

VARIABLES
  refs,        (* the program                                              *)
  bootstrap,   (* the classes the bootstrap calls the check of             *)
  todo,        (* those of them it has not come to                         *)
  initialized, (* the classes that are marked                              *)
  stack,       (* the checks in execution, each with its references left   *)
  ran,         (* the classes whose static initialiser has run             *)
  crashed      (* a static initialiser has thrown                          *)

vars == <<refs, bootstrap, todo, initialized, stack, ran, crashed>>

Frame(c) == [class |-> c, left |-> refs[c] \ {c}]

Init_mutant ==
  /\ refs \in Programs
  /\ bootstrap \in {Class, Class \ Interface}
  /\ todo = Class
  /\ initialized = {}
  /\ stack = << >>
  /\ ran = {}
  /\ crashed = FALSE
(* The JavaScript backend's bootstrap leaves out the interfaces. *)
Init ==
  /\ refs \in Programs
  /\ bootstrap \in {Class, Class \ Interface}
  /\ todo = bootstrap
  /\ initialized = {}
  /\ stack = << >>
  /\ ran = {}
  /\ crashed = FALSE

-----------------------------------------------------------------------------
ClassInitCheck_mutant(c, callers) ==
  /\ stack' = Append(callers, Frame(c))
  /\ UNCHANGED initialized

(* The check of class c is called; callers are the checks that wait for    *)
(* it.                                                                     *)
ClassInitCheck(c, callers) ==
  IF c \in initialized
  THEN /\ stack' = callers
       /\ UNCHANGED initialized
  ELSE /\ stack' = Append(callers, Frame(c))
       /\ initialized' = initialized \union {c}

Bootstrap_mutant(c) ==
  /\ stack = << >>
  /\ ~crashed
  /\ c \in todo
  /\ ClassInitCheck(c, << >>)
  /\ UNCHANGED <<refs, bootstrap, todo, ran, crashed>>
Bootstrap(c) ==
  /\ stack = << >>
  /\ ~crashed
  /\ c \in todo
  /\ todo' = todo \ {c}
  /\ ClassInitCheck(c, << >>)
  /\ UNCHANGED <<refs, bootstrap, ran, crashed>>

Top == stack[Len(stack)]

CheckReference_mutant(d) ==
  /\ stack # << >>
  /\ d \in Top.left
  /\ stack' = [stack EXCEPT ![Len(stack)].left = @ \ {d}]
  /\ initialized' = initialized \union {d}
  /\ UNCHANGED <<refs, bootstrap, todo, ran, crashed>>
CheckReference(d) ==
  /\ stack # << >>
  /\ d \in Top.left
  /\ ClassInitCheck(d, [stack EXCEPT ![Len(stack)].left = @ \ {d}])
  /\ UNCHANGED <<refs, bootstrap, todo, ran, crashed>>

(* The static initialiser runs, and the check returns to its caller. *)
Initialize(c) ==
  /\ stack # << >>
  /\ Top = [class |-> c, left |-> {}]
  /\ ran' = ran \union {c}
  /\ stack' = Front(stack)
  /\ UNCHANGED <<refs, bootstrap, todo, initialized, crashed>>

(* The static initialiser throws: the bootstrap ends.  The classes whose   *)
(* checks were in execution stay marked.                                   *)
Throw(c) ==
  /\ stack # << >>
  /\ Top = [class |-> c, left |-> {}]
  /\ stack' = << >>
  /\ crashed' = TRUE
  /\ UNCHANGED <<refs, bootstrap, todo, initialized, ran>>

Next ==
  \E c \in Class :
    \/ Bootstrap(c)
    \/ CheckReference(c)
    \/ Initialize(c)
    \/ Throw(c)

Spec == Init /\ [][Next]_vars

(* The bootstrap's code goes on as long as it can. *)
FairSpec == Spec /\ WF_vars(Next)

-----------------------------------------------------------------------------
Depths == DOMAIN stack

OnStack(c) == \E i \in Depths : stack[i].class = c

TypeOK ==
  /\ refs \in [Class -> SUBSET Class]
  /\ bootstrap \subseteq Class
  /\ todo \subseteq bootstrap
  /\ initialized \subseteq Class
  /\ stack \in Seq([class: Class, left: SUBSET Class])
  /\ ran \subseteq Class
  /\ crashed \in BOOLEAN

(* Class c is among those that d's references lead to. *)
ClosedUnderRefs(S) == \A d \in S : refs[d] \subseteq S
Reaches(d, c) == \A S \in SUBSET Class : ClosedUnderRefs(S) /\ d \in S => c \in S

(* A static initialiser runs once, however many classes refer to its class *)
(* and whether they do so in a cycle or not.                               *)
InitializersRunOnce == [][\A c \in Class : Initialize(c) => c \notin ran]_vars

(* A static initialiser runs only after those of the classes it refers to, *)
(* except for those that themselves refer back to its class: these are     *)
(* marked, but their fields have no values yet.                            *)
ReferencesAreReady ==
  [][\A c \in ran' \ ran : \A d \in refs[c] :
       /\ d \in initialized
       /\ d \in ran \/ Reaches(d, c)]_vars

(* After the bootstrap, every class it was for and every class the code of *)
(* these refers to has been initialised, whatever the order was.  An       *)
(* interface that only interfaces refer to has not, in JavaScript.         *)
ReadyAfterBootstrap ==
  stack = << >> /\ todo = {} /\ ~crashed =>
    \A c \in Class : (\E b \in bootstrap : Reaches(b, c)) => c \in ran

(* The bootstrap ends, cycles among the classes or not. *)
BootstrapEnds == <>[](stack = << >> /\ (todo = {} \/ crashed))

=============================================================================
