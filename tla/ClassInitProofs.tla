-------------------------- MODULE ClassInitProofs --------------------------
(***************************************************************************)
(* Proofs about ClassInit, for any classes and any program.                *)
(*                                                                         *)
(* The inductive invariant follows the checks in execution: their classes  *)
(* are different, each waits for the one above it and so is reached from   *)
(* all below, and a reference a check has left behind is initialised or    *)
(* waits on the stack itself.                                              *)
(***************************************************************************)
EXTENDS ClassInit, SequenceTheorems, TLAPS

Frames == [class: Class, left: SUBSET Class]

CrashEnds == crashed => stack = << >>

(* A class is marked if it has been initialised or its check runs. *)
Marks == ~crashed => \A c \in Class : c \in initialized <=> c \in ran \/ OnStack(c)

Apart ==
  /\ \A i, j \in Depths : stack[i].class = stack[j].class => i = j
  /\ \A i \in Depths : stack[i].class \notin ran

LeftAreRefs == \A i \in Depths : stack[i].left \subseteq refs[stack[i].class]

(* What a check need not call any more has run or is on the stack. *)
Pending ==
  \A i \in Depths : \A d \in refs[stack[i].class] :
    d \in stack[i].left \/ d \in ran \/ OnStack(d)

Waits == \A i, j \in Depths : i <= j => Reaches(stack[i].class, stack[j].class)

(* References of an initialised class. *)
RanReady == ~crashed => \A c \in ran : \A d \in refs[c] : d \in ran \/ OnStack(d)

Booted == ~crashed => \A b \in bootstrap : b \in todo \/ b \in initialized

IInv ==
  /\ TypeOK
  /\ CrashEnds
  /\ Marks
  /\ Apart
  /\ LeftAreRefs
  /\ Pending
  /\ Waits
  /\ RanReady
  /\ Booted

-----------------------------------------------------------------------------
LEMMA ReachesItself == \A c \in Class : Reaches(c, c)
BY DEF Reaches

(* One more reference behind a path. *)
LEMMA ReachesReference ==
  ASSUME NEW c \in Class, NEW d \in Class, NEW e \in refs[d], Reaches(c, d)
  PROVE  Reaches(c, e)
BY DEF Reaches, ClosedUnderRefs

LEMMA InitInv == Init => IInv
<1> SUFFICES ASSUME Init PROVE IInv
  OBVIOUS
<1>1. TypeOK
  <2>1. refs \in [Class -> SUBSET Class]
    BY ClassInitAssumption DEF Init
  <2>2. bootstrap \subseteq Class /\ todo \subseteq bootstrap
    BY DEF Init
  <2>3. stack \in Seq(Frames)
    BY DEF Init
  <2> QED
    BY <2>1, <2>2, <2>3 DEF Init, TypeOK, Frames
<1>2. DOMAIN stack = {}
  BY DEF Init
<1> QED
  BY <1>1, <1>2 DEF Init, IInv, CrashEnds, Marks, Apart, LeftAreRefs, Pending, Waits,
       RanReady, Booted, OnStack, Depths

-----------------------------------------------------------------------------
(* The check of a class is called, by the bootstrap or by the check on top *)
(* of the stack, which then has no more to do for that class.              *)
LEMMA CheckKeepsInv ==
  ASSUME IInv, ~crashed,
         NEW c \in Class, NEW callers \in Seq(Frames),
         Len(callers) = Len(stack),
         \A i \in Depths : /\ callers[i].class = stack[i].class
                           /\ callers[i].left \subseteq stack[i].left
                           /\ stack[i].left \subseteq callers[i].left \union {c},
         stack # << >> => c \in refs[Top.class],
         ClassInitCheck(c, callers),
         UNCHANGED <<refs, bootstrap, ran, crashed>>,
         todo' \subseteq todo, todo \subseteq todo' \union {c}
  PROVE  IInv'
<1>1. /\ stack \in Seq(Frames) /\ initialized \subseteq Class /\ refs \in [Class -> SUBSET Class]
      /\ Len(stack) \in Nat /\ Depths = 1 .. Len(stack)
  BY DEF IInv, TypeOK, Frames, Depths
<1>2. CASE c \in initialized
  <2>1. stack' = callers /\ initialized' = initialized
    BY <1>2 DEF ClassInitCheck
  <2>2. /\ Depths' = Depths
        /\ \A i \in Depths : /\ stack'[i].class = stack[i].class
                             /\ stack'[i].left \subseteq stack[i].left
                             /\ stack[i].left \subseteq stack'[i].left \union {c}
    BY <1>1, <2>1 DEF Depths
  <2>3. \A d : OnStack(d)' <=> OnStack(d)
    BY <2>2 DEF OnStack
  <2>4. c \in ran \/ OnStack(c)
    BY <1>2 DEF IInv, Marks
  <2>5. TypeOK'
    BY <2>1 DEF IInv, TypeOK, Frames
  <2>6. CrashEnds'
    BY DEF CrashEnds
  <2>7. Marks'
    BY <2>1, <2>3 DEF IInv, Marks
  <2>8. Apart'
    BY <2>2 DEF IInv, Apart
  <2>9. LeftAreRefs'
    BY <2>2 DEF IInv, LeftAreRefs
  <2>10. Pending'
    BY <2>2, <2>3, <2>4 DEF IInv, Pending
  <2>11. Waits'
    BY <2>2 DEF IInv, Waits, Reaches, ClosedUnderRefs
  <2>12. RanReady'
    BY <2>3 DEF IInv, RanReady
  <2>13. Booted'
    BY <2>1, <1>2 DEF IInv, Booted
  <2> QED
    BY <2>5, <2>6, <2>7, <2>8, <2>9, <2>10, <2>11, <2>12, <2>13 DEF IInv
<1>3. CASE c \notin initialized
  <2> DEFINE top == Len(stack) + 1
  <2>1. stack' = Append(callers, Frame(c)) /\ initialized' = initialized \union {c}
    BY <1>3 DEF ClassInitCheck
  <2>2. Frame(c) \in Frames /\ Frame(c).class = c /\ Frame(c).left = refs[c] \ {c}
    BY <1>1 DEF Frame, Frames
  <2>3. /\ stack' \in Seq(Frames)
        /\ Depths' = 1 .. top
        /\ stack'[top] = Frame(c)
        /\ \A i \in Depths : stack'[i] = callers[i]
    BY <1>1, <2>1, <2>2 DEF Depths
  <2>4. /\ stack'[top].class = c /\ stack'[top].left = refs[c] \ {c}
        /\ \A i \in Depths : /\ stack'[i].class = stack[i].class
                             /\ stack'[i].left \subseteq stack[i].left
                             /\ stack[i].left \subseteq stack'[i].left \union {c}
    BY <2>2, <2>3
  <2>5. Depths' = Depths \union {top} /\ top \notin Depths /\ \A i \in Depths : ~(top <= i)
    BY <1>1, <2>3
  <2>6. \A d : OnStack(d)' <=> OnStack(d) \/ d = c
    BY <2>4, <2>5 DEF OnStack
  <2>7. c \notin ran /\ ~OnStack(c)
    BY <1>3 DEF IInv, Marks
  <2>8. \A i \in Depths : Reaches(stack[i].class, c)
    <3> SUFFICES ASSUME NEW i \in Depths PROVE Reaches(stack[i].class, c)
      OBVIOUS
    <3>1. Len(stack) \in Depths /\ i <= Len(stack) /\ stack # << >>
      BY <1>1
    <3>2. Reaches(stack[i].class, Top.class)
      BY <3>1 DEF IInv, Waits, Top
    <3>3. stack[i] \in Frames /\ Top \in Frames
      BY <1>1, <3>1 DEF Top
    <3>4. stack[i].class \in Class /\ Top.class \in Class /\ c \in refs[Top.class]
      BY <3>1, <3>3 DEF Frames
    <3> QED
      BY <3>2, <3>4, ReachesReference
  <2> HIDE DEF top
  <2>9. TypeOK'
    BY <2>1, <2>3 DEF IInv, TypeOK, Frames
  <2>10. CrashEnds'
    BY DEF CrashEnds
  <2>11. Marks'
    BY <2>1, <2>6 DEF IInv, Marks
  <2>12. Apart'
    BY <2>4, <2>5, <2>7 DEF IInv, Apart, OnStack
  <2>13. LeftAreRefs'
    BY <2>4, <2>5 DEF IInv, LeftAreRefs
  <2>14. Pending'
    BY <2>4, <2>5, <2>6 DEF IInv, Pending
  <2>15. Waits'
    <3>1. \A d, e : Reaches(d, e)' <=> Reaches(d, e)
      BY DEF Reaches, ClosedUnderRefs
    <3> QED
      BY <3>1, <2>4, <2>5, <2>8, ReachesItself DEF IInv, Waits
  <2>16. RanReady'
    BY <2>6 DEF IInv, RanReady
  <2>17. Booted'
    BY <2>1 DEF IInv, Booted
  <2> QED
    BY <2>9, <2>10, <2>11, <2>12, <2>13, <2>14, <2>15, <2>16, <2>17 DEF IInv
<1> QED
  BY <1>2, <1>3


-----------------------------------------------------------------------------
(* The bootstrap calls a check only when no check runs. *)
LEMMA BootstrapKeepsInv ==
  ASSUME IInv, NEW c \in Class, Bootstrap(c)
  PROVE  IInv'
<1>1. << >> \in Seq(Frames) /\ stack = << >> /\ DOMAIN stack = {}
  BY DEF Bootstrap
<1>2. ClassInitCheck(c, << >>) /\ ~crashed
  BY DEF Bootstrap
<1> QED
  BY <1>1, <1>2, CheckKeepsInv DEF Bootstrap, Depths

LEMMA CheckReferenceKeepsInv ==
  ASSUME IInv, NEW c \in Class, CheckReference(c)
  PROVE  IInv'
<1> DEFINE callers == [stack EXCEPT ![Len(stack)].left = @ \ {c}]
<1>1. /\ stack \in Seq(Frames) /\ stack # << >>
      /\ Len(stack) \in Depths /\ Depths = 1 .. Len(stack)
  BY DEF IInv, TypeOK, CheckReference, Frames, Depths
<1>2. stack[Len(stack)] \in Frames
  BY <1>1
<1>3. [stack[Len(stack)] EXCEPT !.left = @ \ {c}] \in Frames
  BY <1>2 DEF Frames
<1>4. callers \in Seq(Frames) /\ Len(callers) = Len(stack)
  BY <1>1, <1>3
<1>5. \A i \in Depths : /\ callers[i].class = stack[i].class
                         /\ callers[i].left \subseteq stack[i].left
                         /\ stack[i].left \subseteq callers[i].left \union {c}
  <2> SUFFICES ASSUME NEW i \in Depths
               PROVE  /\ callers[i].class = stack[i].class
                      /\ callers[i].left \subseteq stack[i].left
                      /\ stack[i].left \subseteq callers[i].left \union {c}
    OBVIOUS
  <2>1. CASE i = Len(stack)
    <3>1. callers[Len(stack)] = [stack[Len(stack)] EXCEPT !.left = @ \ {c}]
      BY <1>1 DEF Depths
    <3> QED
      BY <3>1, <2>1, <1>2 DEF Frames
  <2>2. CASE i # Len(stack)
    BY <1>1, <2>2
  <2> QED
    BY <2>1, <2>2
<1>6. c \in refs[Top.class]
  BY <1>1 DEF CheckReference, Top, IInv, LeftAreRefs
<1>7. ~crashed
  BY <1>1 DEF IInv, CrashEnds
<1>8. ClassInitCheck(c, callers) /\ UNCHANGED <<refs, bootstrap, todo, ran, crashed>>
  BY DEF CheckReference
<1> HIDE DEF callers
<1> QED
  BY <1>4, <1>5, <1>6, <1>7, <1>8, CheckKeepsInv

(* The top of the stack has no references left. *)
LEMMA TopIsReady ==
  ASSUME IInv, NEW c \in Class, stack # << >>, Top = [class |-> c, left |-> {}]
  PROVE  /\ ~crashed
         /\ c \notin ran
         /\ OnStack(c)
         /\ \A d \in refs[c] : d \in ran \/ (OnStack(d) /\ Reaches(d, c))
<1>1. /\ Len(stack) \in Depths /\ Depths = 1 .. Len(stack) /\ Len(stack) \in Nat
      /\ stack[Len(stack)] = Top
  BY DEF IInv, TypeOK, Depths, Top
<1>2. stack[Len(stack)].class = c /\ stack[Len(stack)].left = {}
  BY <1>1
<1>3. OnStack(c) /\ c \notin ran
  BY <1>1, <1>2 DEF OnStack, IInv, Apart
<1>4. \A d \in refs[c] : d \in ran \/ OnStack(d)
  BY <1>1, <1>2 DEF IInv, Pending
<1>5. \A d : OnStack(d) => Reaches(d, c)
  BY <1>1, <1>2 DEF IInv, Waits, OnStack
<1> QED
  BY <1>3, <1>4, <1>5 DEF IInv, CrashEnds

LEMMA InitializeKeepsInv ==
  ASSUME IInv, NEW c \in Class, Initialize(c)
  PROVE  IInv'
<1> DEFINE n == Len(stack)
<1>1. /\ stack \in Seq(Frames) /\ n \in Nat /\ n # 0 /\ Depths = 1 .. n
      /\ stack # << >> /\ stack[n] = [class |-> c, left |-> {}]
  BY DEF IInv, TypeOK, Initialize, Frames, Depths, Top
<1>2. /\ stack' \in Seq(Frames)
      /\ Depths' = 1 .. n - 1
      /\ \A i \in 1 .. n - 1 : stack'[i] = stack[i]
  <2>1. stack' = SubSeq(stack, 1, n - 1)
    BY DEF Initialize, Front
  <2> QED
    BY <1>1, <2>1, SubSeqProperties DEF Depths
<1>3. /\ ran' = ran \union {c}
      /\ UNCHANGED <<refs, bootstrap, todo, initialized, crashed>>
  BY DEF Initialize
<1>4. /\ ~crashed /\ c \notin ran /\ OnStack(c)
      /\ \A d \in refs[c] : d \in ran \/ OnStack(d)
  BY TopIsReady DEF Initialize
<1>5. /\ Depths' \subseteq Depths /\ n \in Depths /\ Depths = Depths' \union {n}
      /\ \A i \in Depths' : stack'[i] = stack[i] /\ i # n
      /\ stack[n].class = c
  BY <1>1, <1>2
<1>6. \A d : OnStack(d) <=> OnStack(d)' \/ d = c
  BY <1>5 DEF OnStack
<1>7. ~OnStack(c)'
  BY <1>5 DEF OnStack, IInv, Apart
<1> HIDE DEF n
<1>8. TypeOK'
  BY <1>2, <1>3 DEF IInv, TypeOK, Frames
<1>9. CrashEnds'
  BY <1>3, <1>4 DEF CrashEnds
<1>10. Marks'
  BY <1>3, <1>4, <1>6 DEF IInv, Marks
<1>11. Apart'
  BY <1>3, <1>5, <1>7 DEF IInv, Apart, OnStack
<1>12. LeftAreRefs'
  BY <1>3, <1>5 DEF IInv, LeftAreRefs
<1>13. Pending'
  BY <1>3, <1>5, <1>6 DEF IInv, Pending
<1>14. Waits'
  <2>1. \A d, e : Reaches(d, e)' <=> Reaches(d, e)
    BY <1>3 DEF Reaches, ClosedUnderRefs
  <2> QED
    BY <1>5, <2>1 DEF IInv, Waits
<1>15. RanReady'
  BY <1>3, <1>4, <1>6 DEF IInv, RanReady
<1>16. Booted'
  BY <1>3 DEF IInv, Booted
<1> QED
  BY <1>8, <1>9, <1>10, <1>11, <1>12, <1>13, <1>14, <1>15, <1>16 DEF IInv

LEMMA ThrowKeepsInv ==
  ASSUME IInv, NEW c \in Class, Throw(c)
  PROVE  IInv'
<1>1. /\ stack' = << >> /\ crashed' = TRUE /\ Depths' = {}
      /\ UNCHANGED <<refs, bootstrap, todo, initialized, ran>>
  BY DEF Throw, Depths
<1>2. TypeOK'
  <2>1. << >> \in Seq(Frames)
    OBVIOUS
  <2> QED
    BY <1>1, <2>1 DEF IInv, TypeOK, Frames
<1> QED
  BY <1>1, <1>2 DEF IInv, CrashEnds, Marks, Apart, LeftAreRefs, Pending, Waits,
       RanReady, Booted

LEMMA StutterKeepsInv == ASSUME IInv, UNCHANGED vars PROVE IInv'
BY DEF vars, IInv, TypeOK, CrashEnds, Marks, Apart, LeftAreRefs, Pending, Waits,
     RanReady, Booted, OnStack, Depths, Reaches, ClosedUnderRefs

LEMMA NextKeepsInv == IInv /\ [Next]_vars => IInv'
<1> SUFFICES ASSUME IInv, [Next]_vars PROVE IInv'
  OBVIOUS
<1>1. ASSUME NEW c \in Class, Bootstrap(c) PROVE IInv'
  BY <1>1, BootstrapKeepsInv
<1>2. ASSUME NEW c \in Class, CheckReference(c) PROVE IInv'
  BY <1>2, CheckReferenceKeepsInv
<1>3. ASSUME NEW c \in Class, Initialize(c) PROVE IInv'
  BY <1>3, InitializeKeepsInv
<1>4. ASSUME NEW c \in Class, Throw(c) PROVE IInv'
  BY <1>4, ThrowKeepsInv
<1>5. CASE UNCHANGED vars
  BY <1>5, StutterKeepsInv
<1> QED
  BY <1>1, <1>2, <1>3, <1>4, <1>5 DEF Next

(* The inductive invariant holds in every state of a bootstrap. *)
THEOREM InvHolds == Spec => []IInv
BY InitInv, NextKeepsInv, PTL DEF Spec

-----------------------------------------------------------------------------
(* The bootstrap's state has its type. *)
THEOREM TypesStayOK == Spec => []TypeOK
<1>1. IInv => TypeOK
  BY DEF IInv
<1> QED
  BY <1>1, InvHolds, PTL

(* However the classes refer to each other, no static initialiser is run   *)
(* a second time by the checks the backends generate.                      *)
THEOREM InitializersRunOnlyOnce == Spec => InitializersRunOnce
<1>1. ASSUME IInv, NEW c \in Class, Initialize(c)
      PROVE  c \notin ran
  BY <1>1, TopIsReady DEF Initialize
<1>2. IInv => [\A c \in Class : Initialize(c) => c \notin ran]_vars
  BY <1>1
<1> QED
  BY <1>2, InvHolds, PTL DEF InitializersRunOnce

(* A class's static initialiser runs after those of the classes its code   *)
(* refers to, cycles aside.                                                *)
THEOREM ReferencesAreInitialisedFirst == Spec => ReferencesAreReady
<1>1. ASSUME IInv, Next, NEW c \in ran' \ ran, NEW d \in refs[c]
      PROVE  d \in initialized /\ (d \in ran \/ Reaches(d, c))
  <2>1. PICK e \in Class : \/ Bootstrap(e)
                           \/ CheckReference(e)
                           \/ Initialize(e)
                           \/ Throw(e)
    BY <1>1 DEF Next
  <2>2. Initialize(c) /\ c \in Class
    BY <1>1, <2>1 DEF Bootstrap, CheckReference, Initialize, Throw
  <2>3. ~crashed /\ (d \in ran \/ (OnStack(d) /\ Reaches(d, c)))
    BY <1>1, <2>2, TopIsReady DEF Initialize
  <2>4. d \in Class
    BY <1>1, <2>2 DEF IInv, TypeOK
  <2> QED
    BY <1>1, <2>3, <2>4 DEF IInv, Marks
<1>2. ASSUME IInv, [Next]_vars
      PROVE  [\A c \in ran' \ ran : \A d \in refs[c] :
                /\ d \in initialized
                /\ d \in ran \/ Reaches(d, c)]_vars
  BY <1>1, <1>2
<1> QED
  BY <1>2, InvHolds, PTL DEF Spec, ReferencesAreReady

(* After the bootstrap, all that its classes' code refers to has been      *)
(* initialised.                                                            *)
THEOREM ProgramIsReady == Spec => []ReadyAfterBootstrap
<1>1. IInv => ReadyAfterBootstrap
  <2> SUFFICES ASSUME IInv, stack = << >>, todo = {}, ~crashed,
                      NEW c \in Class, NEW b \in bootstrap, Reaches(b, c)
               PROVE  c \in ran
    BY DEF ReadyAfterBootstrap
  <2>1. \A d : ~OnStack(d)
    BY DEF OnStack, Depths
  <2>2. ran \subseteq Class /\ bootstrap \subseteq Class
    BY DEF IInv, TypeOK
  <2>3. ClosedUnderRefs(ran)
    BY <2>1 DEF IInv, RanReady, ClosedUnderRefs
  <2>4. b \in ran
    BY <2>1, <2>2 DEF IInv, Booted, Marks
  <2> QED
    BY <2>2, <2>3, <2>4 DEF Reaches
<1> QED
  BY <1>1, InvHolds, PTL

=============================================================================
