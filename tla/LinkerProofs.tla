---------------------------- MODULE LinkerProofs ----------------------------
(***************************************************************************)
(* The linker takes nothing into a program but what the search for         *)
(* referenced code finds.  The argument: whatever is on the stack is there *)
(* because something found refers to it, and the edges of the graph are    *)
(* edges of the program, so looking along them leads to nothing else.      *)
(***************************************************************************)
EXTENDS Dispatch, Induction, SequenceTheorems, FiniteSetTheorems, TLAPS

IsReferenced(x) == IsMain(program, x) \/ Refers(program, Found, x)

Wanted(c, m) == \A x \in Items : IsMember(program, x, c, m) => IsReferenced(x)

IsJustified(a) ==
    /\ a.op = "class" => IsReferenced(<<a.c, "class">>)
    /\ a.op \in {"super", "clinit", "interfaces", "implements", "hierarchy"} => a.c \in Linked
    /\ a.op = "super" => ClassFiles.super[a.c] # None
    /\ a.op = "implements" => a.n \in DOMAIN ClassFiles.interfaces[a.c]
    /\ a.op \in {"virtual", "own", "private", "static", "field"} => Wanted(a.c, a.m)
    /\ a.op = "foreach" => \A c \in a.cs : Wanted(c, a.m)
    /\ a.op = "body" => <<a.c, a.m>> \in provides
    /\ a.op = "inherit" => 1 <= a.n /\ a.size <= Len(order)
    /\ a.op = "hierarchy" => a.cs \subseteq ProgramAbove(program, a.c)
    /\ a.op = "abstracts" => \A m \in a.ms : Wanted(a.c, m)

Justified == {a \in Activations : IsJustified(a)}

IInv ==
    /\ TypeOK
    /\ extends \union implements \subseteq ProgramEdges(program)
    /\ \A x \in provides : x[2] \in DOMAIN ClassFiles.methods[x[1]]
    /\ todo \in Seq(Justified)

(* A step finds at most one more item, and something refers to it.         *)
Finds ==
    /\ UNCHANGED program
    /\ \/ UNCHANGED Found
       \/ \E x \in Items : IsReferenced(x) /\ Found' = Found \union {x}

-----------------------------------------------------------------------------
LEMMA ClosureReflexive ==
    ASSUME NEW E, NEW c \in Classes
    PROVE  c \in Closure(E, c)
BY DEF Closure

LEMMA ClosureIn ==
    ASSUME NEW E, NEW c \in Classes
    PROVE  Closure(E, c) \subseteq Classes
BY DEF Closure

LEMMA ClosureTransitive ==
    ASSUME NEW E, NEW c \in Classes, NEW d \in Closure(E, c), NEW e \in Closure(E, d)
    PROVE  e \in Closure(E, c)
BY DEF Closure

LEMMA ClosureMonotonic ==
    ASSUME NEW E, NEW F, E \subseteq F, NEW c \in Classes
    PROVE  Closure(E, c) \subseteq Closure(F, c)
BY DEF Closure

LEMMA ClosureEdge ==
    ASSUME NEW E, NEW c \in Classes, NEW d \in Classes, <<c, d>> \in E
    PROVE  d \in Closure(E, c)
BY DEF Closure

(* The edges of the graph lead to nothing the program does not have above. *)
LEMMA AboveIsAbove ==
    ASSUME IInv, NEW c \in Classes
    PROVE  Above(c) \subseteq ProgramAbove(program, c)
<1>1. Above(c) \subseteq Closure(ProgramEdges(program), c)
  BY ClosureMonotonic DEF Above, IInv
<1>2. ProgramAbove(program, c) = Closure(ProgramEdges(program), c)
  BY DEF ProgramAbove, AboveInProgram, IInv, TypeOK
<1> QED BY <1>1, <1>2

(* What is wanted of a class is wanted of the classes above it. *)
LEMMA WantedAbove ==
    ASSUME IInv, NEW c \in Classes, NEW m, Wanted(c, m), NEW d \in ProgramAbove(program, c)
    PROVE  Wanted(d, m)
<1>1. /\ ProgramAbove(program, c) = Closure(ProgramEdges(program), c)
      /\ d \in Classes
  BY ClosureIn DEF ProgramAbove, AboveInProgram, IInv, TypeOK
<1>2. ProgramAbove(program, d) = Closure(ProgramEdges(program), d)
  BY <1>1 DEF ProgramAbove, AboveInProgram, IInv, TypeOK
<1>3. ProgramAbove(program, d) \subseteq ProgramAbove(program, c)
  BY <1>1, <1>2, ClosureTransitive
<1> QED BY <1>3 DEF Wanted, IsMember

-----------------------------------------------------------------------------
LEMMA RefersMonotonic ==
    ASSUME NEW p, NEW S, NEW T, S \subseteq T, NEW x, Refers(p, S, x)
    PROVE  Refers(p, T, x)
BY DEF Refers, Needs

LEMMA ReferencedMonotonic ==
    ASSUME UNCHANGED program, Found \subseteq Found', NEW x, IsReferenced(x)
    PROVE  IsReferenced(x)'
<1>1. Refers(program, Found, x) => Refers(program, Found', x)
  BY RefersMonotonic
<1>2. /\ Refers(program, Found, x)' = Refers(program', Found', x)
      /\ IsMain(program, x)' = IsMain(program', x)
  BY DEF Refers, Uses, Needs, IsMember, IsMain
<1> QED BY <1>1, <1>2 DEF IsReferenced

(* What is on the stack stays justified as the graph grows. *)
LEMMA JustifiedMonotonic ==
    ASSUME UNCHANGED program, Found \subseteq Found', Linked \subseteq Linked',
           provides \subseteq provides', Len(order) <= Len(order)', 
           Len(order) \in Nat, Len(order)' \in Nat
    PROVE  Justified \subseteq Justified'
<1> SUFFICES ASSUME NEW a \in Justified PROVE a \in Justified'
  OBVIOUS
<1>1. \A x : IsReferenced(x) => IsReferenced(x)'
  BY ReferencedMonotonic
<1>2. \A c, m : Wanted(c, m) => Wanted(c, m)'
  BY <1>1 DEF Wanted, IsMember, ProgramAbove
<1>3. a \in Activations /\ IsJustified(a)
  BY DEF Justified
<1>4. a.op = "inherit" => a.size \in Nat
  BY <1>3 DEF Activations
<1>5. IsJustified(a)'
  BY <1>1, <1>2, <1>3, <1>4 DEF IsJustified, ClassFiles, ProgramAbove
<1> QED BY <1>3, <1>5 DEF Justified, Activations

LEMMA HeadOfTodo ==
    ASSUME IInv, todo # <<>>
    PROVE  /\ Head(todo) \in Activations
           /\ IsJustified(Head(todo))
           /\ Tail(todo) \in Seq(Justified)
BY HeadTailProperties DEF IInv, Justified

(* The step pushes justified activations. *)
LEMMA PushJustified ==
    ASSUME IInv, todo # <<>>, NEW as \in Seq(Justified'), Call(as), Justified \subseteq Justified'
    PROVE  /\ todo' \in Seq(Justified')
           /\ todo' \in Seq(Activations)
<1>1. Tail(todo) \in Seq(Justified')
  BY HeadOfTodo, SeqMonotonic
<1>2. todo' \in Seq(Justified')
  BY <1>1, ConcatProperties DEF Call
<1>3. Justified' \subseteq Activations
  BY DEF Justified, Activations
<1> QED BY <1>2, <1>3, SeqMonotonic

LEMMA CallStep ==
    ASSUME IInv, todo # <<>>, NEW as \in Seq(Justified), Call(as),
           UNCHANGED <<program, order, extends, implements, provides, fields, phase>>
    PROVE  IInv' /\ Finds
<1>1. UNCHANGED <<Found, Linked>>
  BY DEF Found, Linked
<1>2. Len(order) \in Nat
  BY DEF IInv, TypeOK
<1>3. Justified \subseteq Justified'
  BY <1>1, <1>2, JustifiedMonotonic
<1>4. as \in Seq(Justified')
  BY <1>3, SeqMonotonic
<1>5. todo' \in Seq(Justified') /\ todo' \in Seq(Activations)
  BY <1>3, <1>4, PushJustified
<1>6. TypeOK'
  BY <1>5 DEF IInv, TypeOK
<1>7. IInv'
  BY <1>5, <1>6 DEF IInv, ProgramEdges, ClassFiles
<1> QED BY <1>1, <1>7 DEF Finds

(* A member found for an activation is an item something refers to. *)
LEMMA MemberIsReferenced ==
    ASSUME IInv, NEW c \in Classes, NEW m \in Names, Wanted(c, m),
           NEW d \in ProgramAbove(program, c),
           Declares(d, m) \/ m \in ClassFiles.fields[d]
    PROVE  <<d, m>> \in Items /\ IsReferenced(<<d, m>>)
<1>1. d \in Classes
  BY ClosureIn DEF ProgramAbove, AboveInProgram, IInv, TypeOK
<1>2. IsMember(program, <<d, m>>, c, m)
  BY DEF IsMember, Declares, ClassFiles
<1> QED BY <1>1, <1>2 DEF Wanted, Items

LEMMA AboveItself ==
    ASSUME IInv, NEW c \in Classes
    PROVE  c \in ProgramAbove(program, c)
BY ClosureReflexive DEF ProgramAbove, AboveInProgram, IInv, TypeOK

LEMMA ProvideStep ==
    ASSUME IInv, todo # <<>>, NEW c \in Classes, NEW m \in Names, Declares(c, m), Wanted(c, m),
           NEW kinds, Provide(c, m, kinds),
           UNCHANGED <<program, order, extends, implements, fields>>
    PROVE  IInv' /\ Finds
<1>1. CASE UNCHANGED <<provides, todo>> /\ phase' = "failed"
  <2>1. UNCHANGED <<Found, Linked>>
    BY <1>1 DEF Found, Linked
  <2>2. Len(order) \in Nat
    BY DEF IInv, TypeOK
  <2>3. Justified \subseteq Justified'
    BY <1>1, <2>1, <2>2, JustifiedMonotonic
  <2>4. todo' \in Seq(Justified')
    BY <1>1, <2>3, SeqMonotonic DEF IInv
  <2>5. TypeOK'
    BY <1>1 DEF IInv, TypeOK, Phases
  <2>6. IInv'
    BY <1>1, <2>4, <2>5 DEF IInv, ProgramEdges, ClassFiles
  <2> QED BY <2>1, <2>6 DEF Finds
<1>2. CASE /\ provides' = provides \union {<<c, m>>}
           /\ Call(<<Body(c, m, 1)>>)
           /\ UNCHANGED phase
  <2> DEFINE as == <<Body(c, m, 1)>>
  <2>1. Found' = Found \union {<<c, m>>} /\ Linked' = Linked
    BY <1>2 DEF Found, Linked
  <2>2. Len(order) \in Nat
    BY DEF IInv, TypeOK
  <2>3. Justified \subseteq Justified'
    BY <1>2, <2>1, <2>2, JustifiedMonotonic
  <2>4. Body(c, m, 1) \in Justified'
    BY <1>2 DEF Justified, IsJustified, Body, Activations
  <2>5. as \in Seq(Justified')
    BY <2>4
  <2>6. Call(as)
    BY <1>2
  <2> HIDE DEF as
  <2>7. todo' \in Seq(Justified') /\ todo' \in Seq(Activations)
    BY <2>3, <2>5, <2>6, PushJustified
  <2>8. TypeOK'
    BY <1>2, <2>7 DEF IInv, TypeOK
  <2>9. \A x \in provides' : x[2] \in DOMAIN ClassFiles.methods[x[1]]
    BY <1>2 DEF IInv, Declares
  <2>10. IInv'
    BY <2>7, <2>8, <2>9 DEF IInv, ProgramEdges, ClassFiles
  <2>11. <<c, m>> \in Items /\ IsReferenced(<<c, m>>)
    BY MemberIsReferenced, AboveItself
  <2> QED BY <2>1, <2>10, <2>11 DEF Finds
<1> QED BY <1>1, <1>2 DEF Provide

-----------------------------------------------------------------------------
(* A linked class is one of the items found, so it refers to what it needs. *)
LEMMA ClassNeeds ==
    ASSUME IInv, NEW c \in Linked, NEW x, Needs(program, c, Found, x)
    PROVE  IsReferenced(x)
<1>1. <<c, "class">> \in Found
  BY DEF Found
<1> QED BY <1>1 DEF IsReferenced, Refers

LEMMA LinkedAreClasses == IInv => Linked \subseteq Classes
BY DEF IInv, TypeOK, Linked

LEMMA AddClassStep ==
    ASSUME IInv, AddClass, NEW c, c = Head(todo).c, NEW super, super = ClassFiles.super[c]
    PROVE  IInv' /\ Finds
<1> DEFINE first == IF super # None THEN <<ResolveClass(super), LinkSuper(c)>> ELSE <<>>
           as == first \o <<Initializer(c), LinkInterfaces(c, 1)>>
<1>1. /\ todo # <<>> /\ c \notin Linked /\ order' = Append(order, c)
      /\ Head(todo).op = "class"
      /\ Call(as)
      /\ UNCHANGED <<program, extends, implements, provides, fields, phase>>
  BY DEF AddClass, Top
<1>2. c \in Classes /\ IsReferenced(<<c, "class">>)
  BY <1>1, HeadOfTodo DEF Activations, IsJustified
<1>3. order \in Seq(Classes) /\ order' \in Seq(Classes)
  BY <1>1, <1>2 DEF IInv, TypeOK
<1>4. Len(order) \in Nat /\ Len(order)' = Len(order) + 1
  BY <1>1, <1>3
<1>5. Linked' = Linked \union {c}
  <2>1. /\ DOMAIN order = 1 .. Len(order) /\ DOMAIN order' = 1 .. Len(order) + 1
        /\ \A i \in DOMAIN order : order'[i] = order[i]
        /\ order'[Len(order) + 1] = c
    BY <1>1, <1>2, <1>3, <1>4
  <2>2. DOMAIN order' = DOMAIN order \union {Len(order) + 1}
    BY <1>4, <2>1
  <2> QED BY <2>1, <2>2 DEF Linked
<1>6. Found' = Found \union {<<c, "class">>}
  BY <1>1, <1>5 DEF Found
<1>7. Justified \subseteq Justified'
  BY <1>1, <1>4, <1>5, <1>6, JustifiedMonotonic
<1>8. /\ Initializer(c) \in Justified'
      /\ LinkInterfaces(c, 1) \in Justified'
  BY <1>2, <1>5 DEF Justified, IsJustified, Initializer, LinkInterfaces, Activations
<1>9. super \in Classes \union {None}
  BY <1>2, ProgramAssumption DEF IInv, TypeOK, ClassFiles
<1>10. ASSUME super # None
       PROVE  ResolveClass(super) \in Justified' /\ LinkSuper(c) \in Justified'
  <2>1. <<c, super>> \in ProgramEdges(program')
    BY <1>1, <1>2, <1>10 DEF ProgramEdges, ClassFiles
  <2>2. Needs(program', c, Found', <<super, "class">>)
    BY <2>1 DEF Needs
  <2>3. <<c, "class">> \in Found'
    BY <1>6
  <2>4. Refers(program', Found', <<super, "class">>)
    BY <2>2, <2>3 DEF Refers
  <2>5. IsReferenced(<<super, "class">>)'
    BY <2>4 DEF IsReferenced
  <2>6. ResolveClass(super) \in Justified'
    BY <1>9, <1>10, <2>5 DEF Justified, IsJustified, ResolveClass, Activations
  <2>7. LinkSuper(c) \in Justified'
    BY <1>1, <1>2, <1>5, <1>10 DEF Justified, IsJustified, LinkSuper, Activations, ClassFiles
  <2> QED BY <2>6, <2>7
<1>11. first \in Seq(Justified')
  BY <1>10
<1>12. as \in Seq(Justified')
  <2>1. <<Initializer(c), LinkInterfaces(c, 1)>> \in Seq(Justified')
    BY <1>8
  <2> HIDE DEF first
  <2> QED BY <1>11, <2>1, ConcatProperties
<1> HIDE DEF as
<1>13. todo' \in Seq(Justified') /\ todo' \in Seq(Activations)
  BY <1>1, <1>7, <1>12, PushJustified
<1>14. TypeOK'
  BY <1>1, <1>3, <1>13 DEF IInv, TypeOK
<1>15. /\ (extends \union implements \subseteq ProgramEdges(program))'
       /\ (\A x \in provides : x[2] \in DOMAIN ClassFiles.methods[x[1]])'
  BY ONLY <1>1, IInv DEF IInv, ProgramEdges, ClassFiles
<1>16. IInv'
  BY <1>13, <1>14, <1>15 DEF IInv
<1> QED BY <1>1, <1>2, <1>6, <1>16 DEF Finds, Items

(***************************************************************************)
(* The other actions.  The top of the stack is a parameter of each lemma.  *)
(***************************************************************************)
LEMMA AddSuperStep ==
    ASSUME IInv, AddSuper, NEW c, c = Head(todo).c
    PROVE  IInv' /\ Finds
<1>1. /\ todo # <<>> /\ Head(todo).op = "super"
      /\ extends' = extends \union {<<c, ClassFiles.super[c]>>}
      /\ Call(<<>>)
      /\ UNCHANGED <<program, order, implements, provides, fields, phase>>
  BY DEF AddSuper, Top, Return
<1>2. c \in Classes /\ ClassFiles.super[c] # None
  BY <1>1, HeadOfTodo DEF Activations, IsJustified
<1>3. ClassFiles.super[c] \in Classes
  BY <1>2, ProgramAssumption DEF IInv, TypeOK, ClassFiles
<1>4. <<c, ClassFiles.super[c]>> \in ProgramEdges(program)
  BY <1>2 DEF ProgramEdges, ClassFiles
<1>5. UNCHANGED <<Found, Linked>>
  BY <1>1 DEF Found, Linked
<1>6. Justified \subseteq Justified'
  BY <1>1, <1>5, JustifiedMonotonic DEF IInv, TypeOK
<1>7. todo' \in Seq(Justified') /\ todo' \in Seq(Activations)
  BY <1>1, <1>6, PushJustified, EmptySeq
<1>8. TypeOK'
  BY <1>1, <1>2, <1>3, <1>7 DEF IInv, TypeOK
<1> DEFINE edge == <<c, ClassFiles.super[c]>>
<1>9. (extends \union implements \subseteq ProgramEdges(program))'
  <2>1. implements' = implements /\ program' = program
    BY <1>1
  <2>2. ProgramEdges(program)' = ProgramEdges(program)
    BY <2>1 DEF ProgramEdges
  <2>3. extends \union implements \subseteq ProgramEdges(program)
    BY DEF IInv
  <2>4. (extends \union implements)' = (extends \union implements) \union {edge}
    BY <1>1, <2>1
  <2>5. edge \in ProgramEdges(program)
    BY <1>4
  <2> HIDE DEF edge
  <2> QED
    BY <2>2, <2>3, <2>4, <2>5
<1>10. IInv'
  BY <1>1, <1>7, <1>8, <1>9 DEF IInv, ClassFiles
<1> QED BY <1>1, <1>5, <1>10 DEF Finds

LEMMA AddInterfaceStep ==
    ASSUME IInv, AddInterface, NEW c, c = Head(todo).c, NEW n, n = Head(todo).n
    PROVE  IInv' /\ Finds
<1> DEFINE i == ClassFiles.interfaces[c][n]
<1>1. /\ todo # <<>> /\ Head(todo).op = "implements"
      /\ implements' = implements \union {<<c, i>>}
      /\ Call(<<>>)
      /\ UNCHANGED <<program, order, extends, provides, fields, phase>>
  BY DEF AddInterface, Top, Return
<1>2. c \in Classes /\ n \in DOMAIN ClassFiles.interfaces[c]
  BY <1>1, HeadOfTodo DEF Activations, IsJustified
<1>3. i \in Classes
  <2>1. ClassFiles.interfaces[c] \in Seq(Classes)
    BY <1>2, ProgramAssumption DEF IInv, TypeOK, ClassFiles
  <2> QED BY <1>2, <2>1
<1>4. <<c, i>> \in ProgramEdges(program)
  BY <1>2 DEF ProgramEdges, ClassFiles
<1>5. UNCHANGED <<Found, Linked>>
  BY <1>1 DEF Found, Linked
<1>6. Justified \subseteq Justified'
  BY <1>1, <1>5, JustifiedMonotonic DEF IInv, TypeOK
<1>7. todo' \in Seq(Justified') /\ todo' \in Seq(Activations)
  BY <1>1, <1>6, PushJustified, EmptySeq
<1>8. TypeOK'
  BY <1>1, <1>2, <1>3, <1>7 DEF IInv, TypeOK
<1>9. (extends \union implements \subseteq ProgramEdges(program))'
  <2>1. extends' = extends /\ program' = program
    BY <1>1
  <2>2. ProgramEdges(program)' = ProgramEdges(program)
    BY <2>1 DEF ProgramEdges
  <2>3. extends \union implements \subseteq ProgramEdges(program)
    BY DEF IInv
  <2>4. (extends \union implements)' = (extends \union implements) \union {<<c, i>>}
    BY <1>1, <2>1
  <2> HIDE DEF i
  <2> QED
    BY <1>4, <2>2, <2>3, <2>4
<1>10. IInv'
  BY <1>1, <1>7, <1>8, <1>9 DEF IInv, ClassFiles
<1> QED BY <1>1, <1>5, <1>10 DEF Finds

LEMMA ReturnStep ==
    ASSUME IInv, todo # <<>>, Return,
           UNCHANGED <<program, order, extends, implements, provides, fields, phase>>
    PROVE  IInv' /\ Finds
BY CallStep, EmptySeq DEF Return

LEMMA InitializeClassStep ==
    ASSUME IInv, InitializeClass, NEW c, c = Head(todo).c
    PROVE  IInv' /\ Finds
<1> DEFINE as == IF Declares(c, "<clinit>") THEN <<Static(c, "<clinit>")>> ELSE <<>>
<1>1. /\ todo # <<>> /\ Head(todo).op = "clinit" /\ Call(as)
      /\ UNCHANGED <<program, order, extends, implements, provides, fields, phase>>
  BY DEF InitializeClass, Top
<1>2. c \in Classes /\ c \in Linked
  BY <1>1, HeadOfTodo DEF Activations, IsJustified
<1>3. Wanted(c, "<clinit>")
  BY <1>2, ClassNeeds DEF Wanted, Needs
<1>4. Static(c, "<clinit>") \in Justified
  BY <1>2, <1>3, ProgramAssumption DEF Justified, IsJustified, Static, Activations
<1>5. as \in Seq(Justified)
  BY <1>4
<1> HIDE DEF as
<1> QED BY <1>1, <1>5, CallStep

LEMMA NextInterfaceStep ==
    ASSUME IInv, NextInterface, NEW c, c = Head(todo).c, NEW n, n = Head(todo).n,
           NEW i, i = ClassFiles.interfaces[c][n]
    PROVE  IInv' /\ Finds
<1> DEFINE as == IF n \in DOMAIN ClassFiles.interfaces[c]
                 THEN <<ResolveClass(i), Implement(c, n), LinkInterfaces(c, n + 1)>>
                 ELSE <<>>
<1>1. /\ todo # <<>> /\ Head(todo).op = "interfaces" /\ Call(as)
      /\ UNCHANGED <<program, order, extends, implements, provides, fields, phase>>
  BY DEF NextInterface, Top
<1>2. c \in Classes /\ c \in Linked /\ n \in Nat
  BY <1>1, HeadOfTodo DEF Activations, IsJustified
<1>3. ASSUME n \in DOMAIN ClassFiles.interfaces[c]
      PROVE  {ResolveClass(i), Implement(c, n), LinkInterfaces(c, n + 1)} \subseteq Justified
  <2>1. ClassFiles.interfaces[c] \in Seq(Classes)
    BY <1>2, ProgramAssumption DEF IInv, TypeOK, ClassFiles
  <2>2. i \in Classes
    BY <1>3, <2>1
  <2>3. <<c, i>> \in ProgramEdges(program)
    BY <1>2, <1>3 DEF ProgramEdges, ClassFiles
  <2>4. IsReferenced(<<i, "class">>)
    BY <1>2, <2>3, ClassNeeds DEF Needs
  <2>5. ResolveClass(i) \in Justified
    BY <2>2, <2>4 DEF Justified, IsJustified, ResolveClass, Activations
  <2>6. Implement(c, n) \in Justified
    BY <1>2, <1>3 DEF Justified, IsJustified, Implement, Activations
  <2>7. LinkInterfaces(c, n + 1) \in Justified
    BY <1>2 DEF Justified, IsJustified, LinkInterfaces, Activations
  <2> QED BY <2>5, <2>6, <2>7
<1>4. as \in Seq(Justified)
  BY <1>3
<1> HIDE DEF as
<1> QED BY <1>1, <1>4, CallStep

LEMMA FindVirtualStep ==
    ASSUME IInv, FindVirtual, NEW c, c = Head(todo).c, NEW m, m = Head(todo).m
    PROVE  IInv' /\ Finds
<1> DEFINE as == IF <<c, m>> \in provides THEN <<>>
                 ELSE <<ForEach(InterfacesOf(c), m), Own(c, m)>>
<1>1. /\ todo # <<>> /\ Head(todo).op = "virtual" /\ Call(as)
      /\ UNCHANGED <<program, order, extends, implements, provides, fields, phase>>
  BY DEF FindVirtual, Top
<1>2. c \in Classes /\ m \in Names /\ Wanted(c, m)
  BY <1>1, HeadOfTodo DEF Activations, IsJustified
<1>3. InterfacesOf(c) \subseteq ProgramAbove(program, c)
  <2> SUFFICES ASSUME NEW e \in implements, e[1] = c, NEW d \in Above(e[2])
               PROVE  d \in ProgramAbove(program, c)
    BY DEF InterfacesOf
  <2>1. e = <<c, e[2]>> /\ e[2] \in Classes /\ e \in ProgramEdges(program)
    BY DEF IInv, TypeOK
  <2>2. e[2] \in Closure(ProgramEdges(program), c)
    BY <1>2, <2>1, ClosureEdge
  <2>3. d \in Closure(ProgramEdges(program), e[2])
    BY <2>1, AboveIsAbove DEF ProgramAbove, AboveInProgram, IInv, TypeOK
  <2>4. d \in Closure(ProgramEdges(program), c)
    BY <1>2, <2>2, <2>3, ClosureTransitive
  <2> QED BY <1>2, <2>4 DEF ProgramAbove, AboveInProgram, IInv, TypeOK
<1>4. InterfacesOf(c) \subseteq Classes
  BY <1>2, <1>3, ClosureIn DEF ProgramAbove, AboveInProgram, IInv, TypeOK
<1>5. \A i \in InterfacesOf(c) : Wanted(i, m)
  BY <1>2, <1>3, WantedAbove
<1>6. ForEach(InterfacesOf(c), m) \in Justified
  BY <1>2, <1>4, <1>5 DEF Justified, IsJustified, ForEach, Activations
<1>7. Own(c, m) \in Justified
  BY <1>2 DEF Justified, IsJustified, Own, Activations
<1>8. as \in Seq(Justified)
  BY <1>6, <1>7
<1> HIDE DEF as
<1> QED BY <1>1, <1>8, CallStep

LEMMA NextOfInterfacesStep ==
    ASSUME IInv, NextOfInterfaces, NEW cs, cs = Head(todo).cs, NEW m, m = Head(todo).m
    PROVE  IInv' /\ Finds
<1>1. /\ todo # <<>> /\ Head(todo).op = "foreach"
      /\ \/ Return
         \/ \E i \in cs : Call(<<ResolveVirtual(i, m), ForEach(cs \ {i}, m)>>)
      /\ UNCHANGED <<program, order, extends, implements, provides, fields, phase>>
  BY DEF NextOfInterfaces, Top
<1>2. cs \subseteq Classes /\ m \in Names /\ \A c \in cs : Wanted(c, m)
  BY <1>1, HeadOfTodo DEF Activations, IsJustified
<1>3. ASSUME NEW i \in cs, Call(<<ResolveVirtual(i, m), ForEach(cs \ {i}, m)>>)
      PROVE  IInv' /\ Finds
  <2>1. ResolveVirtual(i, m) \in Justified
    BY <1>2 DEF Justified, IsJustified, ResolveVirtual, Activations
  <2>2. ForEach(cs \ {i}, m) \in Justified
    BY <1>2 DEF Justified, IsJustified, ForEach, Activations
  <2>3. <<ResolveVirtual(i, m), ForEach(cs \ {i}, m)>> \in Seq(Justified)
    BY <2>1, <2>2
  <2> QED BY <1>1, <1>3, <2>3, CallStep
<1> QED BY <1>1, <1>3, ReturnStep

LEMMA AskSuperStep ==
    ASSUME IInv, todo # <<>>, NEW c \in Classes, NEW m \in Names, Wanted(c, m), AskSuper(c, m),
           UNCHANGED <<program, order, extends, implements, fields>>
    PROVE  IInv' /\ Finds
<1>1. UNCHANGED <<provides, phase>>
  BY DEF AskSuper
<1>2. ASSUME NEW super \in SuperOf(c), Call(<<ResolveVirtual(super, m)>>)
      PROVE  IInv' /\ Finds
  <2>1. super \in Classes /\ <<c, super>> \in ProgramEdges(program)
    BY DEF SuperOf, IInv, TypeOK
  <2>2. super \in ProgramAbove(program, c)
    BY <2>1, ClosureEdge DEF ProgramAbove, AboveInProgram, IInv, TypeOK
  <2>3. Wanted(super, m)
    BY <2>2, WantedAbove
  <2>4. ResolveVirtual(super, m) \in Justified
    BY <2>1, <2>3 DEF Justified, IsJustified, ResolveVirtual, Activations
  <2>5. <<ResolveVirtual(super, m)>> \in Seq(Justified)
    BY <2>4
  <2> QED BY <1>1, <1>2, <2>5, CallStep
<1> QED BY <1>1, <1>2, ReturnStep DEF AskSuper

LEMMA MemberStep ==
    ASSUME IInv, OwnMethod \/ PrivateMethod \/ StaticMethod,
           NEW c, c = Head(todo).c, NEW m, m = Head(todo).m
    PROVE  IInv' /\ Finds
<1>1. /\ todo # <<>> /\ Head(todo).op \in {"own", "private", "static"}
      /\ \/ AskSuper(c, m)
         \/ Return /\ UNCHANGED <<provides, phase>>
         \/ Declares(c, m) /\ Provide(c, m, {"concrete", "abstract"})
         \/ Declares(c, m) /\ Provide(c, m, {"static"})
      /\ UNCHANGED <<program, order, extends, implements, fields>>
  BY DEF OwnMethod, PrivateMethod, StaticMethod, Top
<1>2. c \in Classes /\ m \in Names /\ Wanted(c, m)
  BY <1>1, HeadOfTodo DEF Activations, IsJustified
<1> QED BY <1>1, <1>2, AskSuperStep, ReturnStep, ProvideStep

LEMMA StaticFieldStep ==
    ASSUME IInv, StaticField, NEW c, c = Head(todo).c, NEW f, f = Head(todo).m
    PROVE  IInv' /\ Finds
<1> DEFINE providers == {d \in Above(c) : f \in ClassFiles.fields[d]}
<1>1. /\ todo # <<>> /\ Head(todo).op = "field"
      /\ \/ phase' = "failed" /\ UNCHANGED <<fields, todo>>
         \/ /\ \E d \in providers : fields' = fields \union {<<d, f>>}
            /\ Call(<<>>)
            /\ UNCHANGED phase
      /\ UNCHANGED <<program, order, extends, implements, provides>>
  BY DEF StaticField, Top, Return
<1>2. c \in Classes /\ f \in Names /\ Wanted(c, f)
  BY <1>1, HeadOfTodo DEF Activations, IsJustified
<1>3. (extends \union implements \subseteq ProgramEdges(program))'
      /\ (\A x \in provides : x[2] \in DOMAIN ClassFiles.methods[x[1]])'
  BY ONLY <1>1, IInv DEF IInv, ProgramEdges, ClassFiles
<1>4. CASE phase' = "failed" /\ UNCHANGED <<fields, todo>>
  <2>1. UNCHANGED <<Found, Linked>>
    BY <1>1, <1>4 DEF Found, Linked
  <2>2. Justified \subseteq Justified'
    BY <1>1, <2>1, JustifiedMonotonic DEF IInv, TypeOK
  <2>3. todo' \in Seq(Justified')
    BY <1>4, <2>2, SeqMonotonic DEF IInv
  <2>4. TypeOK'
    BY <1>1, <1>4 DEF IInv, TypeOK, Phases
  <2> QED BY <1>1, <1>3, <2>1, <2>3, <2>4 DEF IInv, Finds
<1>5. ASSUME NEW d \in providers, fields' = fields \union {<<d, f>>}, Call(<<>>), UNCHANGED phase
      PROVE  IInv' /\ Finds
  <2>1. d \in ProgramAbove(program, c) /\ d \in Classes
    BY <1>2, AboveIsAbove, ClosureIn DEF ProgramAbove, AboveInProgram, IInv, TypeOK
  <2>2. <<d, f>> \in Items /\ IsReferenced(<<d, f>>)
    BY <1>2, <2>1, MemberIsReferenced
  <2>3. Found' = Found \union {<<d, f>>} /\ UNCHANGED Linked
    BY <1>1, <1>5 DEF Found, Linked
  <2>4. Justified \subseteq Justified'
    BY <1>1, <2>3, JustifiedMonotonic DEF IInv, TypeOK
  <2>5. todo' \in Seq(Justified') /\ todo' \in Seq(Activations)
    BY <1>1, <1>5, <2>4, PushJustified, EmptySeq
  <2>6. TypeOK'
    BY <1>1, <1>2, <1>5, <2>1, <2>5 DEF IInv, TypeOK
  <2> QED BY <1>1, <1>3, <2>2, <2>3, <2>5, <2>6 DEF IInv, Finds
<1> QED BY <1>1, <1>4, <1>5

LEMMA NextInstructionStep ==
    ASSUME IInv, NextInstruction, NEW c, c = Head(todo).c, NEW m, m = Head(todo).m,
           NEW n, n = Head(todo).n, NEW i, i = ClassFiles.code[c][m][n]
    PROVE  IInv' /\ Finds
<1> DEFINE as == <<ResolveClass(i.c)>> \o Resolve(i) \o <<Body(c, m, n + 1)>>
<1>1. /\ todo # <<>> /\ Head(todo).op = "body"
      /\ Call(IF n \in DOMAIN ClassFiles.code[c][m] THEN as ELSE <<>>)
      /\ UNCHANGED <<program, order, extends, implements, provides, fields, phase>>
  BY DEF NextInstruction, Top
<1>2. c \in Classes /\ m \in Names /\ n \in Nat /\ <<c, m>> \in provides
  BY <1>1, HeadOfTodo DEF Activations, IsJustified
<1>3. CASE n \notin DOMAIN ClassFiles.code[c][m]
  BY <1>1, <1>3, CallStep, EmptySeq
<1>4. CASE n \in DOMAIN ClassFiles.code[c][m]
  <2>1. i \in Instructions
    <3>1. ClassFiles.code[c][m] \in Seq(Instructions)
      BY <1>2, ProgramAssumption DEF IInv, TypeOK, ClassFiles
    <3> QED BY <1>4, <3>1
  <2>2. i.c \in Classes /\ i.m \in Names
    BY <2>1 DEF Instructions
  <2>3. \A x : Uses(program, <<c, m>>, x) => IsReferenced(x)
    BY <1>2 DEF Found, Refers, IsReferenced
  <2>4. IsReferenced(<<i.c, "class">>)
    BY <1>2, <1>4, <2>3, ProgramAssumption DEF Uses, ClassFiles
  <2>5. i.op # "NEW" => Wanted(i.c, i.m)
    BY <1>2, <1>4, <2>3, ProgramAssumption DEF Uses, ClassFiles, Wanted
  <2>6. ResolveClass(i.c) \in Justified
    BY <2>2, <2>4 DEF Justified, IsJustified, ResolveClass, Activations
  <2>7. Body(c, m, n + 1) \in Justified
    BY <1>2 DEF Justified, IsJustified, Body, Activations
  <2>8. ASSUME i.op # "NEW"
        PROVE  /\ ResolveVirtual(i.c, i.m) \in Justified
               /\ Private(i.c, i.m) \in Justified
               /\ Static(i.c, i.m) \in Justified
               /\ Field(i.c, i.m) \in Justified
    <3>1. Wanted(i.c, i.m)
      BY <2>5, <2>8
    <3>2. ResolveVirtual(i.c, i.m) \in Justified
      BY <2>2, <3>1 DEF Justified, IsJustified, ResolveVirtual, Activations
    <3>3. Private(i.c, i.m) \in Justified
      BY <2>2, <3>1 DEF Justified, IsJustified, Private, Activations
    <3>4. Static(i.c, i.m) \in Justified
      BY <2>2, <3>1 DEF Justified, IsJustified, Static, Activations
    <3>5. Field(i.c, i.m) \in Justified
      BY <2>2, <3>1 DEF Justified, IsJustified, Field, Activations
    <3> QED BY <3>2, <3>3, <3>4, <3>5
  <2>9. Resolve(i) \in Seq(Justified)
    <3>1. /\ i.op = "NEW" => Resolve(i) = <<>>
          /\ i.op = "INVOKEVIRTUAL" => Resolve(i) = <<ResolveVirtual(i.c, i.m)>>
          /\ i.op = "INVOKESPECIAL" => Resolve(i) = <<Private(i.c, i.m)>>
          /\ i.op = "INVOKESTATIC" => Resolve(i) = <<Static(i.c, i.m)>>
          /\ i.op = "GETSTATIC" => Resolve(i) = <<Field(i.c, i.m)>>
      BY DEF Resolve
    <3>2. i.op \in {"NEW", "INVOKEVIRTUAL", "INVOKESPECIAL", "INVOKESTATIC", "GETSTATIC"}
      BY <2>1 DEF Instructions
    <3>3. CASE i.op = "NEW"
      BY <3>1, <3>3, EmptySeq
    <3>4. ASSUME i.op # "NEW", NEW a \in Justified, Resolve(i) = <<a>>
          PROVE  Resolve(i) \in Seq(Justified)
      BY <3>4
    <3>5. CASE i.op # "NEW"
      BY <2>8, <3>1, <3>2, <3>4, <3>5
    <3> QED BY <3>3, <3>5
  <2>10. <<ResolveClass(i.c)>> \in Seq(Justified) /\ <<Body(c, m, n + 1)>> \in Seq(Justified)
    BY <2>6, <2>7
  <2>11. as \in Seq(Justified)
    BY <2>9, <2>10, ConcatProperties
  <2> HIDE DEF as
  <2> QED BY <1>1, <1>4, <2>11, CallStep
<1> QED BY <1>3, <1>4

LEMMA NextClassStep ==
    ASSUME IInv, NextClass, NEW n, n = Head(todo).n, NEW size, size = Head(todo).size,
           NEW c, c = order[n]
    PROVE  IInv' /\ Finds
<1> DEFINE as == IF n <= size
                 THEN <<Hierarchy(c, Above(c) \ {c}), Inherit(n + 1, size)>>
                 ELSE IF Len(order) # size THEN <<Inherit(1, Len(order))>>
                 ELSE <<>>
<1>1. /\ todo # <<>> /\ Head(todo).op = "inherit" /\ Call(as)
      /\ UNCHANGED <<program, order, extends, implements, provides, fields, phase>>
  BY DEF NextClass, Top
<1>2. n \in Nat /\ size \in Nat /\ 1 <= n /\ size <= Len(order)
  BY <1>1, HeadOfTodo DEF Activations, IsJustified
<1>3. order \in Seq(Classes) /\ Len(order) \in Nat /\ DOMAIN order = 1 .. Len(order)
  BY DEF IInv, TypeOK
<1>4. Inherit(1, Len(order)) \in Justified
  BY <1>3 DEF Justified, IsJustified, Inherit, Activations
<1>5. Inherit(n + 1, size) \in Justified
  BY <1>2 DEF Justified, IsJustified, Inherit, Activations
<1>6. ASSUME n <= size PROVE Hierarchy(c, Above(c) \ {c}) \in Justified
  <2>1. n \in DOMAIN order
    BY <1>2, <1>3, <1>6
  <2>2. c \in Classes /\ c \in Linked
    BY <1>3, <2>1 DEF Linked
  <2>3. Above(c) \subseteq ProgramAbove(program, c) /\ Above(c) \subseteq Classes
    BY <2>2, AboveIsAbove, ClosureIn DEF Above
  <2> QED BY <2>2, <2>3 DEF Justified, IsJustified, Hierarchy, Activations
<1>7. as \in Seq(Justified)
  BY <1>4, <1>5, <1>6
<1> HIDE DEF as
<1> QED BY <1>1, <1>7, CallStep

LEMMA NextOfHierarchyStep ==
    ASSUME IInv, NextOfHierarchy, NEW c, c = Head(todo).c, NEW cs, cs = Head(todo).cs
    PROVE  IInv' /\ Finds
<1>1. /\ todo # <<>> /\ Head(todo).op = "hierarchy"
      /\ \/ Return
         \/ \E d \in cs : Call(<<Abstracts(c, AbstractMethodsOf(d)), Hierarchy(c, cs \ {d})>>)
      /\ UNCHANGED <<program, order, extends, implements, provides, fields, phase>>
  BY DEF NextOfHierarchy, Top
<1>2. /\ c \in Classes /\ c \in Linked /\ cs \subseteq Classes
      /\ cs \subseteq ProgramAbove(program, c)
  BY <1>1, HeadOfTodo DEF Activations, IsJustified
<1>3. ASSUME NEW d \in cs,
             Call(<<Abstracts(c, AbstractMethodsOf(d)), Hierarchy(c, cs \ {d})>>)
      PROVE  IInv' /\ Finds
  <2>1. ASSUME NEW m \in AbstractMethodsOf(d) PROVE Wanted(c, m)
    <3>1. PICK e \in Above(d) : <<e, m>> \in provides /\ IsAbstract(e, m)
      BY DEF AbstractMethodsOf
    <3>2. e \in ProgramAbove(program, c)
      BY <1>2, <3>1, AboveIsAbove, ClosureTransitive
         DEF ProgramAbove, AboveInProgram, IInv, TypeOK
    <3>3. <<e, m>> \in Found /\ IsAbstractMember(program, <<e, m>>)
      BY <3>1 DEF Found, IsAbstractMember, IsAbstract, Declares, ClassFiles
    <3> SUFFICES ASSUME NEW x \in Items, IsMember(program, x, c, m)
                 PROVE  IsReferenced(x)
      BY DEF Wanted
    <3>4. x[2] = m
      BY DEF IsMember
    <3>5. Needs(program, c, Found, x)
      BY <3>2, <3>3, <3>4 DEF Needs
    <3> QED BY <1>2, <3>5, ClassNeeds
  <2>2. Abstracts(c, AbstractMethodsOf(d)) \in Justified
    BY <1>2, <2>1 DEF Justified, IsJustified, Abstracts, Activations, AbstractMethodsOf
  <2>3. Hierarchy(c, cs \ {d}) \in Justified
    BY <1>2 DEF Justified, IsJustified, Hierarchy, Activations
  <2>4. <<Abstracts(c, AbstractMethodsOf(d)), Hierarchy(c, cs \ {d})>> \in Seq(Justified)
    BY <2>2, <2>3
  <2> QED BY <1>1, <1>3, <2>4, CallStep
<1> QED BY <1>1, <1>3, ReturnStep

LEMMA NextAbstractStep ==
    ASSUME IInv, NextAbstract, NEW c, c = Head(todo).c, NEW ms, ms = Head(todo).ms
    PROVE  IInv' /\ Finds
<1>1. /\ todo # <<>> /\ Head(todo).op = "abstracts"
      /\ \/ Return
         \/ \E m \in ms : Call(<<ResolveVirtual(c, m), Abstracts(c, ms \ {m})>>)
      /\ UNCHANGED <<program, order, extends, implements, provides, fields, phase>>
  BY DEF NextAbstract, Top
<1>2. c \in Classes /\ ms \subseteq Names /\ \A m \in ms : Wanted(c, m)
  BY <1>1, HeadOfTodo DEF Activations, IsJustified
<1>3. ASSUME NEW m \in ms, Call(<<ResolveVirtual(c, m), Abstracts(c, ms \ {m})>>)
      PROVE  IInv' /\ Finds
  <2>1. ResolveVirtual(c, m) \in Justified
    BY <1>2 DEF Justified, IsJustified, ResolveVirtual, Activations
  <2>2. Abstracts(c, ms \ {m}) \in Justified
    BY <1>2 DEF Justified, IsJustified, Abstracts, Activations
  <2>3. <<ResolveVirtual(c, m), Abstracts(c, ms \ {m})>> \in Seq(Justified)
    BY <2>1, <2>2
  <2> QED BY <1>1, <1>3, <2>3, CallStep
<1> QED BY <1>1, <1>3, ReturnStep

LEMMA FindClassStep ==
    ASSUME IInv, FindClass
    PROVE  IInv' /\ Finds
BY ReturnStep DEF FindClass, Top

(* The run through the hierarchies starts with the classes linked so far.  *)
LEMMA StartAbstractStep ==
    ASSUME IInv, StartAbstract
    PROVE  IInv' /\ Finds
<1>1. UNCHANGED <<Found, Linked>>
  BY DEF StartAbstract, Found, Linked
<1>2. Len(order) \in Nat
  BY DEF IInv, TypeOK
<1>3. Inherit(1, Len(order)) \in Justified'
  BY <1>2 DEF StartAbstract, Justified, IsJustified, Inherit, Activations
<1>4. todo' \in Seq(Justified')
  BY <1>3 DEF StartAbstract
<1>5. todo' \in Seq(Activations)
  BY <1>4, SeqMonotonic DEF Justified, Activations
<1>6. TypeOK'
  BY <1>5 DEF StartAbstract, IInv, TypeOK, Phases
<1>7. IInv'
  BY <1>4, <1>6 DEF StartAbstract, IInv, ProgramEdges, ClassFiles
<1> QED BY <1>1, <1>7 DEF StartAbstract, Finds

LEMMA FinishStep ==
    ASSUME IInv, Finish
    PROVE  IInv' /\ Finds
<1>1. UNCHANGED Found
  BY DEF Finish, Found, Linked
<1>2. todo' = <<>>
  BY DEF Finish
<1>3. TypeOK'
  BY <1>2 DEF Finish, IInv, TypeOK, Phases
<1>4. todo' \in Seq(Justified')
  BY <1>2, EmptySeq
<1>5. IInv'
  BY <1>3, <1>4 DEF Finish, IInv, ProgramEdges, ClassFiles
<1> QED BY <1>1, <1>5 DEF Finish, Finds

LEMMA StutterStep ==
    ASSUME IInv, UNCHANGED vars
    PROVE  IInv' /\ Finds
<1>1. UNCHANGED <<Found, Linked>>
  BY DEF vars, Found, Linked
<1>2. Justified \subseteq Justified'
  BY <1>1, JustifiedMonotonic DEF vars, IInv, TypeOK
<1>3. todo' \in Seq(Justified')
  BY <1>2, SeqMonotonic DEF vars, IInv
<1>4. TypeOK'
  BY DEF vars, IInv, TypeOK
<1>5. IInv'
  BY <1>3, <1>4 DEF vars, IInv, ProgramEdges, ClassFiles
<1> QED BY <1>1, <1>5 DEF vars, Finds

LEMMA NextStep ==
    ASSUME IInv, [Next]_vars
    PROVE  IInv' /\ Finds
<1>1. CASE FindClass BY <1>1, FindClassStep
<1>2. CASE AddClass BY <1>2, AddClassStep
<1>3. CASE AddSuper BY <1>3, AddSuperStep
<1>4. CASE InitializeClass BY <1>4, InitializeClassStep
<1>5. CASE NextInterface BY <1>5, NextInterfaceStep
<1>6. CASE AddInterface BY <1>6, AddInterfaceStep
<1>7. CASE FindVirtual BY <1>7, FindVirtualStep
<1>8. CASE NextOfInterfaces BY <1>8, NextOfInterfacesStep
<1>9. CASE OwnMethod \/ PrivateMethod \/ StaticMethod BY <1>9, MemberStep
<1>10. CASE StaticField BY <1>10, StaticFieldStep
<1>11. CASE NextInstruction BY <1>11, NextInstructionStep
<1>12. CASE StartAbstract BY <1>12, StartAbstractStep
<1>13. CASE NextClass BY <1>13, NextClassStep
<1>14. CASE NextOfHierarchy BY <1>14, NextOfHierarchyStep
<1>15. CASE NextAbstract BY <1>15, NextAbstractStep
<1>16. CASE Finish BY <1>16, FinishStep
<1>17. CASE UNCHANGED vars BY <1>17, StutterStep
<1> QED BY <1>1, <1>2, <1>3, <1>4, <1>5, <1>6, <1>7, <1>8, <1>9, <1>10, <1>11,
           <1>12, <1>13, <1>14, <1>15, <1>16, <1>17 DEF Next

LEMMA InitIsJustified ==
    ASSUME Init
    PROVE  IInv /\ Found = {}
<1> DEFINE c == ClassFiles.main
<1>1. c \in Classes /\ "main" \in Names
  BY ProgramAssumption DEF Init, ClassFiles
<1>2. Found = {}
  BY DEF Init, Found, Linked
<1>3. ResolveClass(c) \in Justified
  BY <1>1 DEF ClassFiles, Justified, IsJustified, IsReferenced, IsMain, ResolveClass, Activations
<1>4. Wanted(c, "main")
  BY DEF Wanted, IsReferenced, IsMain, ClassFiles
<1>5. Static(c, "main") \in Justified
  BY <1>1, <1>4 DEF Justified, IsJustified, Static, Activations
<1>6. todo \in Seq(Justified)
  BY <1>3, <1>5 DEF Init
<1>7. todo \in Seq(Activations)
  BY <1>6, SeqMonotonic DEF Justified
<1>8. TypeOK
  BY <1>7 DEF Init, TypeOK, Phases
<1> QED BY <1>2, <1>6, <1>8 DEF Init, IInv

(* The linker's graph, its stack and its phase are what they should be.    *)
THEOREM TypesStayOK == Spec => []TypeOK
<1>1. Init => IInv BY InitIsJustified
<1>2. IInv /\ [Next]_vars => IInv' BY NextStep
<1>3. IInv => TypeOK BY DEF IInv
<1> QED BY <1>1, <1>2, <1>3, PTL DEF Spec

(***************************************************************************)
(* Only referenced code is linked, in every program: whatever the linker   *)
(* adds to the graph while it recurses is an item the search may find.     *)
(***************************************************************************)
THEOREM OnlyReferencedCodeIsLinked == Spec => ImplementsReferencedCode
<1>1. Init => IInv /\ Reference!Init
  BY InitIsJustified DEF Reference!Init, Init
<1>2. ASSUME IInv, [Next]_vars
      PROVE  IInv' /\ [\E item \in Items \ Found : Reference!Find(item)]_<<program, Found>>
  <2>1. IInv' /\ Finds BY <1>2, NextStep
  <2>2. CASE UNCHANGED Found
    BY <2>1, <2>2 DEF Finds
  <2>3. ASSUME NEW x \in Items, IsReferenced(x), Found' = Found \union {x}
        PROVE  [\E item \in Items \ Found : Reference!Find(item)]_<<program, Found>>
    <3>1. CASE x \in Found BY <2>1, <2>3, <3>1 DEF Finds
    <3>2. CASE x \notin Found
      <4>1. Reference!Find(x)
        BY <2>1, <2>3 DEF Finds, Reference!Find, IsReferenced
      <4> QED BY <2>3, <3>2, <4>1
    <3> QED BY <3>1, <3>2
  <2> QED BY <2>1, <2>2, <2>3 DEF Finds
<1> QED BY <1>1, <1>2, PTL DEF Spec, ImplementsReferencedCode, Reference!Spec

-----------------------------------------------------------------------------
(***************************************************************************)
(* Whatever the code of a linked program refers to is linked, unless a     *)
(* static initialiser is in the way.  The argument follows the stack: an   *)
(* instruction that was taken up is answered, or an activation on the      *)
(* stack will answer it.  For that the activation must see all the edges   *)
(* above the class it asks, and it does, since only the initialiser of a   *)
(* class that is half linked lets code be linked meanwhile (IsNested).     *)
(***************************************************************************)

LinkedCode ==
    UNION {{ClassFiles.code[x[1]][x[2]][n] : n \in DOMAIN ClassFiles.code[x[1]][x[2]]} :
           x \in provides}

HasInitializerAbove(c) ==
    \E d \in ProgramAbove(program, c) : Declares(d, "<clinit>")

(* A member of the name is linked in the class named or above it. *)
IsLinkedAbove(i) ==
    CASE i.op = "NEW" -> TRUE
      [] i.op = "GETSTATIC" ->
            \E d \in ProgramAbove(program, i.c) : <<d, i.m>> \in fields
      [] OTHER ->
            \E d \in ProgramAbove(program, i.c) : <<d, i.m>> \in provides

Super(c) == ClassFiles.super[c]
Interfaces(c) == ClassFiles.interfaces[c]

OnStack(a) == \E k \in DOMAIN todo : todo[k] = a

(* The class is linked, or the next step links it.                         *)
Asked(c) == c \in Linked \/ (todo # <<>> /\ Head(todo) = ResolveClass(c))

(***************************************************************************)
(* Why an activation is on the stack.                                      *)
(***************************************************************************)
AsksSubclass(i) == i.op = "INVOKESTATIC" /\ IsInherited(i)

Searched(c, m) ==
    \/ \E i \in LinkedCode : /\ i.m = m /\ c \in ProgramAbove(program, i.c)
                             /\ i.op = "INVOKEVIRTUAL" \/ AsksSubclass(i)
    \/ \E d \in Classes : /\ c \in ProgramAbove(program, d)
                          /\ \E e \in ProgramAbove(program, d) : IsAbstract(e, m)

Executes(op, c, m) == \E i \in LinkedCode : i.op = op /\ i.c = c /\ i.m = m

HasPurpose(a) ==
    /\ a.op \in {"virtual", "own"} => Searched(a.c, a.m)
    /\ a.op = "foreach" => \A c \in a.cs : Searched(c, a.m)
    /\ a.op = "static" =>
          IF Declares(a.c, a.m) THEN ClassFiles.methods[a.c][a.m] = "static"
          ELSE Executes("INVOKESTATIC", a.c, a.m)
    /\ a.op = "private" /\ Declares(a.c, a.m) => ClassFiles.methods[a.c][a.m] # "static"
    /\ a.op = "field" => Executes("GETSTATIC", a.c, a.m) /\ Asked(a.c)
    /\ a.op = "abstracts" =>
          \A m \in a.ms : \E e \in ProgramAbove(program, a.c) : IsAbstract(e, m)

Purposeful == \A k \in DOMAIN todo : HasPurpose(todo[k])

(***************************************************************************)
(* Edges that a linked class lacks are still to come.                      *)
(***************************************************************************)
SuperComes(c) ==
    Super(c) # None => <<c, Super(c)>> \in extends \/ OnStack(LinkSuper(c))

InterfaceComes(c, n) ==
    \/ <<c, Interfaces(c)[n]>> \in implements
    \/ OnStack(Implement(c, n))
    \/ \E k \in 1 .. n : OnStack(LinkInterfaces(c, k))

EdgesCome ==
    \A c \in Linked : SuperComes(c) /\ \A n \in DOMAIN Interfaces(c) : InterfaceComes(c, n)

EdgesLead ==
    /\ \A e \in extends : e[2] = Super(e[1]) /\ e[2] # None
    /\ \A e \in extends \union implements : e[2] \in Linked
    /\ \A c \in Classes : OnStack(LinkSuper(c)) => Asked(Super(c))
    /\ \A c \in Classes : \A n \in DOMAIN Interfaces(c) :
          OnStack(Implement(c, n)) => Asked(Interfaces(c)[n])

(***************************************************************************)
(* No code is linked while a class without static initialisers above it is *)
(* half linked.                                                            *)
(***************************************************************************)
IsLinking(a) == a.op \in {"super", "clinit", "interfaces", "implements"}
IsUnder(a, c) == (a.op = "class" \/ IsLinking(a)) /\ a.c \in ProgramAbove(program, c)
MustNest(a) == IsLinking(a) /\ ~HasInitializerAbove(a.c)

IsNested(s) ==
    \A k \in DOMAIN s : MustNest(s[k]) => \A j \in 1 .. k - 1 : IsUnder(s[j], s[k].c)

(***************************************************************************)
(* What an instruction refers to is found, or something on the stack will  *)
(* find it.                                                                *)
(***************************************************************************)
DeclaredAbove(c, m) == \E d \in ProgramAbove(program, c) : Declares(d, m)

Leads(c, i) == c \in ProgramAbove(program, i.c) /\ DeclaredAbove(c, i.m)

ServesVirtual(a, i) ==
    /\ a.m = i.m /\ i.op \in {"INVOKEVIRTUAL", "INVOKESTATIC"}
    /\ \/ a.op = "virtual" /\ Leads(a.c, i)
       \/ /\ a.op = "own" /\ a.c \in ProgramAbove(program, i.c)
          /\ Declares(a.c, i.m) \/ (Super(a.c) # None /\ DeclaredAbove(Super(a.c), i.m))
       \/ a.op = "foreach" /\ \E c \in a.cs : Leads(c, i)

ServesAlone(a, i) ==
    /\ a.m = i.m
    /\ \/ a.op = "private" /\ i.op = "INVOKESPECIAL" /\ a.c = i.c /\ Declares(i.c, i.m)
       \/ a.op = "static" /\ i.op = "INVOKESTATIC" /\ a.c = i.c
       \/ a.op = "field" /\ i.op = "GETSTATIC" /\ a.c = i.c

Serves(a, i) == ServesVirtual(a, i) \/ ServesAlone(a, i)

IsServed(i) == \E k \in DOMAIN todo : Serves(todo[k], i)

(* The linker may miss what the instruction refers to. *)
IsMissed(i) == HasInitializerAbove(i.c) \/ (i.op = "INVOKESPECIAL" /\ IsInherited(i))

IsHandled(i) == Asked(i.c) /\ (IsMissed(i) \/ IsLinkedAbove(i) \/ IsServed(i))

InBody(c, m, n) == \E k \in 1 .. n : OnStack(Body(c, m, k))

CodeHandled ==
    \A x \in provides : \A n \in DOMAIN ClassFiles.code[x[1]][x[2]] :
        InBody(x[1], x[2], n) \/ IsHandled(ClassFiles.code[x[1]][x[2]][n])

Explained == \E i \in LinkedCode : HasInitializerAbove(i.c) \/ AsksSubclass(i)

EndsWell ==
    /\ phase = "done" => todo = <<>>
    /\ phase = "failed" => Explained

ResolvesInv ==
    Purposeful /\ EdgesCome /\ EdgesLead /\ IsNested(todo) /\ CodeHandled /\ EndsWell

-----------------------------------------------------------------------------
(***************************************************************************)
(* The program's hierarchy.                                                *)
(***************************************************************************)
LEMMA AboveIsClosure ==
    ASSUME IInv, NEW c \in Classes
    PROVE  /\ ProgramAbove(program, c) = Closure(ProgramEdges(program), c)
           /\ ProgramAbove(program, c) \subseteq Classes
BY ClosureIn DEF ProgramAbove, AboveInProgram, IInv, TypeOK

LEMMA AboveTransitive ==
    ASSUME IInv, NEW c \in Classes, NEW d \in ProgramAbove(program, c),
           NEW e \in ProgramAbove(program, d)
    PROVE  d \in Classes /\ e \in Classes /\ e \in ProgramAbove(program, c)
<1>1. d \in Classes
  BY AboveIsClosure
<1> QED BY <1>1, AboveIsClosure, ClosureTransitive

LEMMA ClassFileTypes ==
    ASSUME IInv, NEW c \in Classes
    PROVE  /\ Super(c) \in Classes \union {None}
           /\ Interfaces(c) \in Seq(Classes)
           /\ \A n \in DOMAIN Interfaces(c) : Interfaces(c)[n] \in Classes
           /\ DOMAIN ClassFiles.methods[c] \subseteq Names
           /\ \A m \in DOMAIN ClassFiles.methods[c] :
                 ClassFiles.methods[c][m] \in {"concrete", "abstract", "static"}
           /\ ClassFiles.code[c] \in [Names -> Seq(Instructions)]
<1>1. program \in DOMAIN Programs
  BY DEF IInv, TypeOK
<1>2. Interfaces(c) \in Seq(Classes)
  BY <1>1, ProgramAssumption DEF Interfaces, ClassFiles
<1>3. \A n \in DOMAIN Interfaces(c) : Interfaces(c)[n] \in Classes
  BY <1>2
<1> QED BY <1>1, <1>2, <1>3, ProgramAssumption DEF Super, ClassFiles

LEMMA SuperAbove ==
    ASSUME IInv, NEW c \in Classes, Super(c) # None
    PROVE  /\ Super(c) \in Classes
           /\ <<c, Super(c)>> \in ProgramEdges(program)
           /\ Super(c) \in ProgramAbove(program, c)
<1>1. Super(c) \in Classes
  BY ClassFileTypes
<1>2. <<c, Super(c)>> \in ProgramEdges(program)
  BY DEF ProgramEdges, Super, ClassFiles
<1> QED BY <1>1, <1>2, AboveIsClosure, ClosureEdge

LEMMA InterfaceAbove ==
    ASSUME IInv, NEW c \in Classes, NEW n \in DOMAIN Interfaces(c)
    PROVE  /\ Interfaces(c)[n] \in Classes
           /\ <<c, Interfaces(c)[n]>> \in ProgramEdges(program)
           /\ Interfaces(c)[n] \in ProgramAbove(program, c)
<1>1. Interfaces(c)[n] \in Classes
  BY ClassFileTypes
<1>2. <<c, Interfaces(c)[n]>> \in ProgramEdges(program)
  BY DEF ProgramEdges, Interfaces, ClassFiles
<1> QED BY <1>1, <1>2, AboveIsClosure, ClosureEdge

LEMMA EdgeKinds ==
    ASSUME NEW e \in ProgramEdges(program)
    PROVE  \E c \in Classes :
              \/ Super(c) # None /\ e = <<c, Super(c)>>
              \/ \E n \in DOMAIN Interfaces(c) : e = <<c, Interfaces(c)[n]>>
BY DEF ProgramEdges, Super, Interfaces, ClassFiles

(* What is above a class is the class itself or above its superclass or    *)
(* one of its interfaces.                                                  *)
LEMMA AboveSplit ==
    ASSUME IInv, NEW c \in Classes, NEW d \in ProgramAbove(program, c), d # c
    PROVE  \/ Super(c) # None /\ d \in ProgramAbove(program, Super(c))
           \/ \E n \in DOMAIN Interfaces(c) : d \in ProgramAbove(program, Interfaces(c)[n])
<1> DEFINE E == ProgramEdges(program)
           S == {x \in Classes : x = c \/ \E e \in E : e[1] = c /\ e[2] \in Classes /\ x \in Closure(E, e[2])}
<1>1. \A e \in E : e[1] \in Classes /\ e[2] \in Classes
  <2> SUFFICES ASSUME NEW e \in E PROVE e[1] \in Classes /\ e[2] \in Classes
    OBVIOUS
  <2> QED BY EdgeKinds, ClassFileTypes
<1> HIDE DEF E
<1>2. c \in S
  OBVIOUS
<1>3. ASSUME NEW e \in E, e[1] \in S PROVE e[2] \in S
  <2>1. CASE e[1] = c
    BY <1>1, <2>1, ClosureReflexive
  <2>2. CASE e[1] # c
    <3>1. PICK f \in E : f[1] = c /\ f[2] \in Classes /\ e[1] \in Closure(E, f[2])
      BY <1>3, <2>2
    <3>2. e[2] \in Closure(E, e[1])
      <4>1. <<e[1], e[2]>> \in E
        BY EdgeKinds DEF E
      <4> QED BY <1>1, <4>1, ClosureEdge
    <3>3. e[2] \in Closure(E, f[2])
      BY <3>1, <3>2, ClosureTransitive
    <3> QED BY <1>1, <3>1, <3>3
  <2> QED BY <2>1, <2>2
<1>4. d \in Closure(E, c)
  BY AboveIsClosure DEF E
<1>5. d \in S
  BY <1>2, <1>3, <1>4 DEF Closure
<1>6. PICK e \in E : e[1] = c /\ e[2] \in Classes /\ d \in Closure(E, e[2])
  BY <1>5
<1>7. d \in ProgramAbove(program, e[2])
  BY <1>6, AboveIsClosure DEF E
<1>8. \/ Super(c) # None /\ e[2] = Super(c)
      \/ \E n \in DOMAIN Interfaces(c) : e[2] = Interfaces(c)[n]
  BY <1>6, EdgeKinds DEF E
<1> QED BY <1>7, <1>8

LEMMA NoInitializerAbove ==
    ASSUME IInv, NEW c \in Classes, ~HasInitializerAbove(c), NEW d \in ProgramAbove(program, c)
    PROVE  ~HasInitializerAbove(d)
BY AboveTransitive DEF HasInitializerAbove

LEMMA DeclaredAboveAbove ==
    ASSUME IInv, NEW c \in Classes, NEW d \in ProgramAbove(program, c), NEW m, DeclaredAbove(d, m)
    PROVE  DeclaredAbove(c, m)
BY AboveTransitive DEF DeclaredAbove

(***************************************************************************)
(* The linked code.                                                        *)
(***************************************************************************)
LEMMA CodeIsLinked ==
    ASSUME NEW x \in provides, NEW n \in DOMAIN ClassFiles.code[x[1]][x[2]]
    PROVE  ClassFiles.code[x[1]][x[2]][n] \in LinkedCode
BY DEF LinkedCode

LEMMA LinkedCodeIsCompiled ==
    ASSUME IInv, NEW i \in LinkedCode
    PROVE  i \in Instructions /\ i.c \in Classes /\ i.m \in Names /\ RefersToMember(program, i)
<1>1. PICK x \in provides : \E n \in DOMAIN ClassFiles.code[x[1]][x[2]] :
         i = ClassFiles.code[x[1]][x[2]][n]
  BY DEF LinkedCode
<1>2. PICK n \in DOMAIN ClassFiles.code[x[1]][x[2]] : i = ClassFiles.code[x[1]][x[2]][n]
  BY <1>1
<1>3. x[1] \in Classes /\ x[2] \in Names /\ x[2] \in DOMAIN ClassFiles.methods[x[1]]
  BY DEF IInv, TypeOK
<1>4. ClassFiles.code[x[1]][x[2]] \in Seq(Instructions)
  BY <1>3, ClassFileTypes
<1>5. i \in Instructions
  BY <1>2, <1>4
<1>6. IsCompiled(program)
  BY CompiledAssumption DEF IInv, TypeOK
<1>7. RefersToMember(program, i)
  BY <1>2, <1>3, <1>6 DEF IsCompiled, ClassFiles
<1> QED BY <1>5, <1>7 DEF Instructions

LEMMA LinkedCodeGrows ==
    ASSUME UNCHANGED program, provides \subseteq provides'
    PROVE  LinkedCode \subseteq LinkedCode'
BY DEF LinkedCode, ClassFiles

(***************************************************************************)
(* The stack after a call.                                                 *)
(***************************************************************************)
(* The stack t is the stack s after a call. *)
Called(s, as, t) ==
    /\ \A k \in DOMAIN t :
          \/ k \in DOMAIN as /\ t[k] = as[k]
          \/ \E j \in DOMAIN s : j > 1 /\ j = k - Len(as) + 1 /\ t[k] = s[j]
    /\ \A j \in DOMAIN as : j \in DOMAIN t /\ t[j] = as[j]
    /\ \A j \in DOMAIN s :
          j > 1 => \E k \in DOMAIN t : k = j - 1 + Len(as) /\ t[k] = s[j]

LEMMA CallOf ==
    ASSUME NEW S, NEW s \in Seq(S), s # <<>>, NEW as \in Seq(S)
    PROVE  as \o Tail(s) \in Seq(S) /\ Called(s, as, as \o Tail(s))
<1> DEFINE t == as \o Tail(s)
<1>1. PICK rest \in Seq(S) : /\ rest = Tail(s) /\ Len(rest) = Len(s) - 1
                            /\ \A j \in 1 .. Len(rest) : rest[j] = s[j + 1]
  BY HeadTailProperties
<1>2. PICK a, b : a = Len(as) /\ b = Len(rest)
  OBVIOUS
<1>3. /\ a \in Nat /\ b \in Nat /\ t \in Seq(S)
      /\ DOMAIN t = 1 .. a + b /\ DOMAIN as = 1 .. a
      /\ \A k \in 1 .. a : t[k] = as[k]
      /\ \A k \in a + 1 .. a + b : t[k] = rest[k - a]
  <2>1. /\ t \in Seq(S) /\ Len(t) = a + b
        /\ \A k \in 1 .. a + b : t[k] = IF k <= a THEN as[k] ELSE rest[k - a]
    BY <1>1, <1>2, ConcatProperties
  <2>2. a \in Nat /\ b \in Nat /\ DOMAIN as = 1 .. a /\ DOMAIN t = 1 .. a + b
    BY <1>2, <2>1, LenProperties
  <2>3. ASSUME NEW k \in 1 .. a PROVE t[k] = as[k]
    <3>1. k \in 1 .. a + b /\ k <= a
      BY ONLY <2>2
    <3> QED BY <2>1, <3>1, Zenon
  <2>4. ASSUME NEW k \in a + 1 .. a + b PROVE t[k] = rest[k - a]
    <3>1. k \in 1 .. a + b /\ ~(k <= a)
      BY ONLY <2>2
    <3> QED BY <2>1, <3>1, Zenon
  <2> QED BY <2>1, <2>2, <2>3, <2>4
<1>4. DOMAIN s = 1 .. b + 1 /\ \A j \in 1 .. b : rest[j] = s[j + 1]
  <2>1. Len(s) \in Nat /\ DOMAIN s = 1 .. Len(s) /\ b = Len(s) - 1
    BY <1>1, <1>2, LenProperties
  <2>2. Len(s) = b + 1
    BY <1>3, <2>1
  <2> QED BY <1>1, <1>2, <2>1, <2>2
<1>5. ASSUME NEW k \in 1 .. a + b, k \notin 1 .. a
      PROVE  \E j \in DOMAIN s : j > 1 /\ j = k - a + 1 /\ t[k] = s[j]
  <2>1. k \in a + 1 .. a + b /\ k - a \in 1 .. b
    BY <1>3, <1>5
  <2>2. t[k] = rest[k - a]
    BY <1>3, <2>1
  <2>3. rest[k - a] = s[k - a + 1]
    BY <1>4, <2>1
  <2>4. k - a + 1 \in 1 .. b + 1 /\ k - a + 1 > 1
    BY <1>3, <2>1
  <2> QED BY <1>4, <2>2, <2>3, <2>4
<1>6. ASSUME NEW j \in 1 .. b + 1, j > 1
      PROVE  \E k \in DOMAIN t : k = j - 1 + a /\ t[k] = s[j]
  <2>1. j - 1 \in 1 .. b /\ (j - 1) + 1 = j
    BY <1>3, <1>6
  <2>2. rest[j - 1] = s[j]
    BY <1>4, <2>1
  <2>3. j - 1 + a \in a + 1 .. a + b /\ (j - 1 + a) - a = j - 1 /\ j - 1 + a \in 1 .. a + b
    BY <1>3, <2>1
  <2>4. t[j - 1 + a] = rest[j - 1]
    BY <1>3, <2>3
  <2> QED BY <1>3, <2>2, <2>3, <2>4
<1>7. \A k \in 1 .. a : k \in 1 .. a + b
  BY <1>3
<1>8. ASSUME NEW k \in DOMAIN t
      PROVE  \/ k \in DOMAIN as /\ t[k] = as[k]
             \/ \E j \in DOMAIN s : j > 1 /\ j = k - Len(as) + 1 /\ t[k] = s[j]
  BY ONLY <1>2, <1>3, <1>5, k \in DOMAIN t, Zenon
<1>9. ASSUME NEW j \in DOMAIN s, j > 1
      PROVE  \E k \in DOMAIN t : k = j - 1 + Len(as) /\ t[k] = s[j]
  BY ONLY <1>2, <1>4, <1>6, j \in DOMAIN s, j > 1, Zenon
<1>10. ASSUME NEW j \in DOMAIN as PROVE j \in DOMAIN t /\ t[j] = as[j]
  BY ONLY <1>3, <1>7, j \in DOMAIN as, Zenon
<1> HIDE DEF t
<1>11. t \in Seq(S) /\ Called(s, as, t)
  BY ONLY <1>3, <1>8, <1>9, <1>10, Zenon DEF Called
<1> QED BY <1>11 DEF t

LEMMA HeadOf ==
    ASSUME NEW S, NEW t \in Seq(S), 1 \in DOMAIN t
    PROVE  t # <<>> /\ Head(t) = t[1]
<1>1. t # <<>>
  <2>1. DOMAIN <<>> = {}
    OBVIOUS
  <2> QED BY <2>1
<1> QED BY <1>1

LEMMA AfterCall ==
    ASSUME todo \in Seq(Activations), todo # <<>>, NEW as \in Seq(Activations), Call(as)
    PROVE  todo' \in Seq(Activations) /\ Called(todo, as, todo')
BY CallOf DEF Call

LEMMA HeadIsFirst ==
    ASSUME todo \in Seq(Activations), todo # <<>>
    PROVE  /\ 1 \in DOMAIN todo /\ todo[1] = Head(todo) /\ DOMAIN todo = 1 .. Len(todo)
           /\ Len(todo) \in Nat
BY EmptySeq, HeadTailProperties

LEMMA StaysOnStack ==
    ASSUME todo \in Seq(Activations), todo # <<>>, NEW as \in Seq(Activations), Call(as),
           NEW a, OnStack(a), a # Head(todo)
    PROVE  OnStack(a)'
<1>1. PICK j \in DOMAIN todo : todo[j] = a
  BY DEF OnStack
<1>2. j > 1
  BY <1>1, HeadIsFirst
<1> QED BY <1>1, <1>2, AfterCall DEF OnStack, Called

LEMMA WasOnStack ==
    ASSUME todo \in Seq(Activations), todo # <<>>, NEW as \in Seq(Activations), Call(as),
           NEW a, OnStack(a)'
    PROVE  OnStack(a) \/ \E j \in DOMAIN as : as[j] = a
<1>1. PICK k \in DOMAIN todo' : todo'[k] = a
  BY DEF OnStack
<1> QED BY <1>1, AfterCall DEF OnStack, Called

LEMMA PushedOnStack ==
    ASSUME todo \in Seq(Activations), todo # <<>>, NEW as \in Seq(Activations), Call(as),
           NEW a, \E j \in DOMAIN as : as[j] = a
    PROVE  OnStack(a)'
BY AfterCall DEF OnStack, Called

LEMMA NewHead ==
    ASSUME todo \in Seq(Activations), todo # <<>>, NEW as \in Seq(Activations), Call(as),
           1 \in DOMAIN as
    PROVE  todo' # <<>> /\ Head(todo') = as[1]
<1>1. 1 \in DOMAIN todo' /\ todo'[1] = as[1] /\ todo' \in Seq(Activations)
  BY AfterCall DEF Called
<1> QED BY <1>1, HeadOf

(***************************************************************************)
(* Without a half linked class on top, a class that is linked sees all     *)
(* that is above it in the program.                                        *)
(***************************************************************************)
LEMMA NothingNests ==
    ASSUME todo \in Seq(Activations), todo # <<>>, IsNested(todo),
           Head(todo).op # "class", ~IsLinking(Head(todo)),
           NEW a, OnStack(a)
    PROVE  ~MustNest(a)
<1> SUFFICES ASSUME MustNest(a) PROVE FALSE
  OBVIOUS
<1>1. PICK k \in DOMAIN todo : todo[k] = a
  BY DEF OnStack
<1>2. k # 1
  BY <1>1, HeadIsFirst DEF MustNest
<1>3. 1 \in 1 .. k - 1
  BY <1>2, HeadIsFirst
<1>4. IsUnder(todo[1], a.c)
  BY <1>1, <1>3 DEF IsNested
<1> QED BY <1>4, HeadIsFirst DEF IsUnder

LEMMA EdgesAreThere ==
    ASSUME IInv, EdgesCome, IsNested(todo), todo # <<>>,
           Head(todo).op # "class", ~IsLinking(Head(todo)),
           NEW c \in Linked, ~HasInitializerAbove(c)
    PROVE  /\ Super(c) # None => <<c, Super(c)>> \in extends
           /\ \A n \in DOMAIN Interfaces(c) : <<c, Interfaces(c)[n]>> \in implements
<1>1. todo \in Seq(Activations)
  BY DEF IInv, TypeOK
<1>2. /\ MustNest(LinkSuper(c))
      /\ \A n : MustNest(Implement(c, n)) /\ MustNest(LinkInterfaces(c, n))
  BY DEF MustNest, IsLinking, LinkSuper, Implement, LinkInterfaces
<1>3. /\ ~OnStack(LinkSuper(c))
      /\ \A n : ~OnStack(Implement(c, n)) /\ ~OnStack(LinkInterfaces(c, n))
  BY <1>1, <1>2, NothingNests
<1> QED BY <1>3 DEF EdgesCome, SuperComes, InterfaceComes

LEMMA SeesAllAbove ==
    ASSUME IInv, EdgesCome, EdgesLead, IsNested(todo), todo # <<>>,
           Head(todo).op # "class", ~IsLinking(Head(todo)),
           NEW c \in Linked, ~HasInitializerAbove(c), NEW d \in ProgramAbove(program, c)
    PROVE  /\ d \in Linked /\ ~HasInitializerAbove(d)
           /\ Super(d) # None => <<d, Super(d)>> \in extends
           /\ \A n \in DOMAIN Interfaces(d) : <<d, Interfaces(d)[n]>> \in implements
           /\ Above(d) = ProgramAbove(program, d)
<1> DEFINE E == ProgramEdges(program)
           S == {x \in Classes : x \in Linked /\ x \in ProgramAbove(program, c)}
<1>1. c \in Classes /\ c \in S
  BY LinkedAreClasses, AboveItself
<1>2. ASSUME NEW e \in E, e[1] \in S PROVE e \in extends \union implements /\ e[2] \in S
  <2>1. ~HasInitializerAbove(e[1])
    BY <1>1, <1>2, NoInitializerAbove
  <2>2. PICK x \in Classes : \/ Super(x) # None /\ e = <<x, Super(x)>>
                             \/ \E n \in DOMAIN Interfaces(x) : e = <<x, Interfaces(x)[n]>>
    BY EdgeKinds
  <2>3. e[1] = x /\ x \in Linked /\ ~HasInitializerAbove(x)
    BY <1>2, <2>1, <2>2
  <2>4. e \in extends \union implements
    BY <2>2, <2>3, EdgesAreThere
  <2>5. e[2] \in Linked /\ e[2] \in Classes
    BY <2>4, LinkedAreClasses DEF EdgesLead
  <2>6. e[2] \in ProgramAbove(program, x)
    BY <2>2, <2>3, SuperAbove, InterfaceAbove
  <2>7. e[2] \in ProgramAbove(program, c)
    BY <1>1, <1>2, <2>3, <2>6, AboveTransitive
  <2> QED BY <2>4, <2>5, <2>7
<1>3. \A x \in ProgramAbove(program, c) : x \in S
  <2>1. ProgramAbove(program, c) = Closure(E, c) /\ S \in SUBSET Classes
    BY <1>1, AboveIsClosure
  <2> HIDE DEF S
  <2> QED BY <1>1, <1>2, <2>1 DEF Closure
<1>4. d \in Linked /\ d \in Classes /\ ~HasInitializerAbove(d)
  BY <1>1, <1>3, NoInitializerAbove
<1>5. /\ Super(d) # None => <<d, Super(d)>> \in extends
      /\ \A n \in DOMAIN Interfaces(d) : <<d, Interfaces(d)[n]>> \in implements
  BY <1>4, EdgesAreThere
<1>6. Above(d) \subseteq ProgramAbove(program, d)
  BY <1>4, AboveIsAbove
<1>7. ProgramAbove(program, d) \subseteq Above(d)
  <2> DEFINE F == extends \union implements
             T == {x \in Classes : x \in ProgramAbove(program, c) /\ x \in Closure(F, d)}
  <2>1. d \in T
    BY <1>4, ClosureReflexive
  <2>2. ASSUME NEW e \in E, e[1] \in T PROVE e[2] \in T
    <3>1. e[1] \in S
      BY <1>3, <2>2
    <3>2. e \in F /\ e[2] \in S
      BY <1>2, <3>1
    <3>3. e = <<e[1], e[2]>>
      BY EdgeKinds
    <3>4. e[2] \in Closure(F, e[1])
      <4>1. e[1] \in Classes /\ e[2] \in Classes /\ <<e[1], e[2]>> \in F
        BY <3>1, <3>2, <3>3
      <4> HIDE DEF F
      <4> QED BY <4>1, ClosureEdge
    <3>5. e[2] \in Closure(F, d)
      <4> HIDE DEF F
      <4> QED BY <1>4, <2>2, <3>4, ClosureTransitive
    <3> QED BY <3>2, <3>5
  <2>3. ProgramAbove(program, d) = Closure(E, d)
    BY <1>4, AboveIsClosure
  <2>4. T \in SUBSET Classes /\ T \subseteq Above(d)
    BY DEF Above
  <2> HIDE DEF T
  <2>5. Closure(E, d) \subseteq T
    BY <2>1, <2>2, <2>4 DEF Closure
  <2> QED BY <2>3, <2>4, <2>5
<1> QED BY <1>4, <1>5, <1>6, <1>7

-----------------------------------------------------------------------------
(***************************************************************************)
(* What a step leaves as it is.                                            *)
(***************************************************************************)
Grows ==
    /\ UNCHANGED program
    /\ Linked \subseteq Linked' /\ provides \subseteq provides' /\ fields \subseteq fields'

LEMMA SameProgram ==
    ASSUME UNCHANGED program
    PROVE  /\ ClassFiles' = ClassFiles
           /\ \A c : /\ ProgramAbove(program, c)' = ProgramAbove(program, c)
                     /\ Super(c)' = Super(c) /\ Interfaces(c)' = Interfaces(c)
                     /\ HasInitializerAbove(c)' <=> HasInitializerAbove(c)
           /\ \A c, m : /\ Declares(c, m)' <=> Declares(c, m)
                        /\ IsAbstract(c, m)' <=> IsAbstract(c, m)
                        /\ DeclaredAbove(c, m)' <=> DeclaredAbove(c, m)
           /\ \A i : /\ AsksSubclass(i)' <=> AsksSubclass(i)
                     /\ IsMissed(i)' <=> IsMissed(i)
           /\ \A a, i : Serves(a, i)' <=> Serves(a, i)
           /\ \A a, c : IsUnder(a, c)' <=> IsUnder(a, c)
           /\ \A a : MustNest(a)' <=> MustNest(a)
<1>1. /\ ClassFiles' = ClassFiles
      /\ \A c : ProgramAbove(program, c)' = ProgramAbove(program, c)
  BY DEF ClassFiles, ProgramAbove
<1>2. /\ \A c : Super(c)' = Super(c) /\ Interfaces(c)' = Interfaces(c)
      /\ \A c, m : Declares(c, m)' <=> Declares(c, m)
  BY <1>1 DEF Super, Interfaces, Declares
<1>3. /\ \A c : HasInitializerAbove(c)' <=> HasInitializerAbove(c)
      /\ \A c, m : DeclaredAbove(c, m)' <=> DeclaredAbove(c, m)
  BY <1>1, <1>2 DEF HasInitializerAbove, DeclaredAbove
<1>4. /\ \A c, m : IsAbstract(c, m)' <=> IsAbstract(c, m)
      /\ \A i : /\ AsksSubclass(i)' <=> AsksSubclass(i)
                /\ IsMissed(i)' <=> IsMissed(i)
  BY <1>1, <1>2, <1>3 DEF IsAbstract, AsksSubclass, IsInherited, IsMissed
<1>5. \A c, i : Leads(c, i)' <=> Leads(c, i)
  BY <1>1, <1>3 DEF Leads
<1>6. \A a, i : Serves(a, i)' <=> Serves(a, i)
  <2>1. \A a, i : ServesVirtual(a, i)' <=> ServesVirtual(a, i)
    BY <1>1, <1>2, <1>3, <1>5 DEF ServesVirtual
  <2>2. \A a, i : ServesAlone(a, i)' <=> ServesAlone(a, i)
    BY <1>2 DEF ServesAlone
  <2> QED BY <2>1, <2>2 DEF Serves
<1>7. /\ \A a, c : IsUnder(a, c)' <=> IsUnder(a, c)
      /\ \A a : MustNest(a)' <=> MustNest(a)
  BY <1>1, <1>3 DEF IsUnder, MustNest, IsLinking
<1> QED BY <1>1, <1>2, <1>3, <1>4, <1>6, <1>7

LEMMA SearchedStays ==
    ASSUME Grows, NEW c, NEW m, Searched(c, m)
    PROVE  Searched(c, m)'
<1>1. LinkedCode \subseteq LinkedCode'
  BY LinkedCodeGrows DEF Grows
<1> QED BY <1>1, SameProgram DEF Grows, Searched

LEMMA ExecutesStays ==
    ASSUME Grows, NEW op, NEW c, NEW m, Executes(op, c, m)
    PROVE  Executes(op, c, m)'
BY LinkedCodeGrows DEF Grows, Executes

LEMMA SearchedAbove ==
    ASSUME IInv, NEW c \in Classes, NEW m, Searched(c, m), NEW d \in ProgramAbove(program, c)
    PROVE  Searched(d, m)
<1>1. ASSUME NEW i \in LinkedCode, i.m = m, c \in ProgramAbove(program, i.c),
             i.op = "INVOKEVIRTUAL" \/ AsksSubclass(i)
      PROVE  Searched(d, m)
  <2>1. d \in ProgramAbove(program, i.c)
    BY <1>1, LinkedCodeIsCompiled, AboveTransitive
  <2> QED BY <1>1, <2>1 DEF Searched
<1>2. ASSUME NEW e \in Classes, c \in ProgramAbove(program, e),
             NEW x \in ProgramAbove(program, e), IsAbstract(x, m)
      PROVE  Searched(d, m)
  <2>1. d \in ProgramAbove(program, e)
    BY <1>2, AboveTransitive
  <2> QED BY <1>2, <2>1 DEF Searched
<1> QED BY <1>1, <1>2 DEF Searched

LEMMA FoundStays ==
    ASSUME Grows, NEW i, IsLinkedAbove(i)
    PROVE  IsLinkedAbove(i)'
BY SameProgram DEF Grows, IsLinkedAbove

(* The class on top of the stack is linked by the step.                    *)
LinksHead == Head(todo).op = "class" => Head(todo).c \in Linked'

LEMMA AskedStays ==
    ASSUME Grows, LinksHead, NEW c, Asked(c)
    PROVE  c \in Linked' /\ Asked(c)'
BY DEF Grows, LinksHead, Asked, ResolveClass

LEMMA PurposeStays ==
    ASSUME Grows, LinksHead, NEW a, HasPurpose(a)
    PROVE  HasPurpose(a)'
<1>1. \A c, m : Searched(c, m) => Searched(c, m)'
  BY SearchedStays
<1>2. \A op, c, m : Executes(op, c, m) => Executes(op, c, m)'
  BY ExecutesStays
<1>3. \A c : Asked(c) => Asked(c)'
  BY AskedStays
<1>4. UNCHANGED program
  BY DEF Grows
<1>5. \A c, m : Declares(c, m)' <=> Declares(c, m)
  BY <1>4, SameProgram
<1>6. \A c, m : IsAbstract(c, m)' <=> IsAbstract(c, m)
  BY <1>4, SameProgram
<1>7. ClassFiles' = ClassFiles /\ \A c : ProgramAbove(program, c)' = ProgramAbove(program, c)
  BY <1>4, SameProgram
<1> QED BY <1>1, <1>2, <1>3, <1>5, <1>6, <1>7 DEF HasPurpose

-----------------------------------------------------------------------------
(***************************************************************************)
(* A call keeps each part of the invariant, under a condition on what it   *)
(* pushes; h is the activation it returns from.                            *)
(***************************************************************************)
LEMMA CallKeepsPurposes ==
    ASSUME IInv, Purposeful, todo # <<>>, Grows, LinksHead,
           NEW as \in Seq(Activations), Call(as),
           \A j \in DOMAIN as : HasPurpose(as[j])'
    PROVE  Purposeful'
<1>1. todo \in Seq(Activations)
  BY DEF IInv, TypeOK
<1>2. ASSUME \A a : (\E k \in DOMAIN todo' : a = todo'[k]) => HasPurpose(a)'
      PROVE  Purposeful'
  BY <1>2 DEF Purposeful
<1> SUFFICES ASSUME NEW a, NEW k \in DOMAIN todo', a = todo'[k] PROVE HasPurpose(a)'
  BY <1>2
<1>3. HasPurpose(a)'
  <2>1. CASE \E j \in DOMAIN as : a = as[j]
    <3>1. PICK j \in DOMAIN as : a = as[j]
      BY <2>1
    <3> QED BY <3>1
  <2>2. CASE \E j \in DOMAIN todo : a = todo[j]
    <3>1. PICK j \in DOMAIN todo : a = todo[j]
      BY <2>2
    <3>2. HasPurpose(a)
      BY <3>1 DEF Purposeful
    <3> QED BY <3>2, PurposeStays
  <2> QED BY <1>1, <2>1, <2>2, AfterCall DEF Called
<1> QED BY <1>3

LEMMA CallKeepsNesting ==
    ASSUME IInv, IsNested(todo), todo # <<>>, UNCHANGED program,
           NEW as \in Seq(Activations), Call(as),
           \A j \in DOMAIN as : MustNest(as[j]) => \A i \in 1 .. j - 1 : IsUnder(as[i], as[j].c),
           \A d \in Classes : IsUnder(Head(todo), d) /\ ~HasInitializerAbove(d) =>
                \A j \in DOMAIN as : IsUnder(as[j], d)
    PROVE  IsNested(todo)'
<1>1. todo \in Seq(Activations) /\ Called(todo, as, todo') /\ DOMAIN as = 1 .. Len(as)
      /\ Len(as) \in Nat /\ todo' \in Seq(Activations)
  BY AfterCall, LenProperties DEF IInv, TypeOK
<1>2. /\ \A a : MustNest(a)' <=> MustNest(a)
      /\ \A a, c : IsUnder(a, c)' <=> IsUnder(a, c)
  BY SameProgram
<1>3. 1 \in DOMAIN todo /\ todo[1] = Head(todo) /\ DOMAIN todo = 1 .. Len(todo) /\ Len(todo) \in Nat
  BY <1>1, HeadIsFirst
<1>4. DOMAIN todo' = 1 .. Len(todo') /\ Len(todo') \in Nat
  BY <1>1, LenProperties
<1>6. PICK n, size : n = Len(as) /\ size = Len(todo)
  OBVIOUS
<1>7. n \in Nat /\ size \in Nat /\ DOMAIN as = 1 .. n /\ DOMAIN todo = 1 .. size
  BY <1>1, <1>3, <1>6
<1>5. ASSUME NEW k \in DOMAIN todo', MustNest(todo'[k]), NEW i \in 1 .. k - 1
      PROVE  IsUnder(todo'[i], todo'[k].c)
  <2>1. i \in DOMAIN todo' /\ i \in Nat /\ k \in Nat /\ i < k
    BY <1>4
  <2>2. CASE k \in DOMAIN as
    <3>1. i \in DOMAIN as
      BY ONLY <1>7, <1>5, <2>1, <2>2
    <3>2. todo'[k] = as[k] /\ todo'[i] = as[i]
      BY <1>1, <2>2, <3>1 DEF Called
    <3> QED BY <1>5, <2>2, <3>2
  <2>3. ASSUME NEW j \in DOMAIN todo, j > 1, j = k - Len(as) + 1, todo'[k] = todo[j]
        PROVE  IsUnder(todo'[i], todo'[k].c)
    <3>1. MustNest(todo[j])
      BY <1>5, <2>3
    <3>2. todo[j] \in Activations
      BY <1>1
    <3>3. todo[j].c \in Classes /\ ~HasInitializerAbove(todo[j].c)
      BY <3>1, <3>2 DEF MustNest, IsLinking, Activations
    <3>4. CASE i \in DOMAIN as
      <4>1. 1 \in 1 .. j - 1
        <5>1. j \in 1 .. size /\ j > 1 /\ size \in Nat
          BY <1>7, <2>3, Zenon
        <5> QED BY ONLY <5>1
      <4>2. IsUnder(Head(todo), todo[j].c)
        BY <1>3, <3>1, <4>1 DEF IsNested
      <4>3. IsUnder(as[i], todo[j].c)
        BY <3>3, <3>4, <4>2
      <4>4. todo'[i] = as[i]
        BY <1>1, <3>4 DEF Called
      <4> QED BY <2>3, <4>3, <4>4
    <3>5. ASSUME NEW l \in DOMAIN todo, l > 1, l = i - Len(as) + 1, todo'[i] = todo[l]
          PROVE  IsUnder(todo'[i], todo'[k].c)
      <4>1. l = i - n + 1 /\ j = k - n + 1
        BY <1>6, <2>3, <3>5
      <4>5. l \in 1 .. j - 1
        <5>1. l \in 1 .. size /\ l > 1 /\ size \in Nat /\ n \in Nat
          BY <1>7, <3>5, Zenon
        <5> QED BY ONLY <5>1, <2>1, <4>1
      <4>2. IsUnder(todo[l], todo[j].c)
        BY <3>1, <4>5 DEF IsNested
      <4> QED BY <2>3, <3>5, <4>2
    <3> QED BY <1>1, <2>1, <3>4, <3>5 DEF Called
  <2> QED BY <1>1, <2>2, <2>3 DEF Called
<1> QED BY <1>2, <1>5 DEF IsNested

LEMMA CallKeepsEdgesComing ==
    ASSUME IInv, IInv', EdgesCome, todo # <<>>, UNCHANGED program,
           extends \subseteq extends', implements \subseteq implements',
           NEW as \in Seq(Activations), Call(as), NEW h, h = Head(todo),
           \A c \in Linked' \ Linked :
                /\ Super(c) # None => OnStack(LinkSuper(c))'
                /\ OnStack(LinkInterfaces(c, 1))',
           \A c \in Classes :
                /\ h = LinkSuper(c) => <<c, Super(c)>> \in extends'
                /\ \A n \in DOMAIN Interfaces(c) :
                      /\ h = Implement(c, n) => <<c, Interfaces(c)[n]>> \in implements'
                      /\ \A k \in 1 .. n : h = LinkInterfaces(c, k) =>
                            IF k = n THEN OnStack(Implement(c, n))'
                            ELSE OnStack(LinkInterfaces(c, k + 1))'
    PROVE  EdgesCome'
<1>1. todo \in Seq(Activations)
  BY DEF IInv, TypeOK
<1>2. \A c : Super(c)' = Super(c) /\ Interfaces(c)' = Interfaces(c)
  BY SameProgram
<1>3. \A a : OnStack(a) /\ a # h => OnStack(a)'
  BY <1>1, StaysOnStack
<1> SUFFICES ASSUME NEW c \in Linked'
             PROVE  SuperComes(c)' /\ \A n \in DOMAIN Interfaces(c) : InterfaceComes(c, n)'
  BY <1>2 DEF EdgesCome
<1>4. \A n \in DOMAIN Interfaces(c) : n \in Nat \ {0}
  <2>1. c \in Classes
    BY DEF IInv, TypeOK, Linked
  <2>2. Interfaces(c) \in Seq(Classes)
    BY <2>1, ClassFileTypes
  <2> QED BY <2>2
<1>5. CASE c \in Linked
  <2>1. c \in Classes
    BY <1>5, LinkedAreClasses
  <2>2. SuperComes(c)'
    BY <1>2, <1>3, <1>5, <2>1 DEF EdgesCome, SuperComes
  <2>3. ASSUME NEW n \in DOMAIN Interfaces(c) PROVE InterfaceComes(c, n)'
    <3>1. CASE <<c, Interfaces(c)[n]>> \in implements
      BY <1>2, <3>1 DEF InterfaceComes
    <3>2. CASE OnStack(Implement(c, n))
      BY <1>2, <1>3, <2>1, <3>2 DEF InterfaceComes
    <3>3. ASSUME NEW k \in 1 .. n, OnStack(LinkInterfaces(c, k)) PROVE InterfaceComes(c, n)'
      <4>1. CASE h # LinkInterfaces(c, k)
        BY <1>3, <3>3, <4>1 DEF InterfaceComes
      <4>2. CASE h = LinkInterfaces(c, k) /\ k = n
        BY <2>1, <4>2 DEF InterfaceComes
      <4>3. CASE h = LinkInterfaces(c, k) /\ k # n
        <5>1. OnStack(LinkInterfaces(c, k + 1))'
          BY <2>1, <4>3
        <5>2. k + 1 \in 1 .. n
          BY <1>4, <3>3, <4>3
        <5> QED BY <5>1, <5>2 DEF InterfaceComes
      <4> QED BY <4>1, <4>2, <4>3
    <3> QED BY <1>5, <3>1, <3>2, <3>3 DEF EdgesCome, InterfaceComes
  <2> QED BY <2>2, <2>3
<1>6. CASE c \notin Linked
  <2>1. SuperComes(c)'
    BY <1>2, <1>6 DEF SuperComes
  <2>2. ASSUME NEW n \in DOMAIN Interfaces(c) PROVE InterfaceComes(c, n)'
    <3>1. 1 \in 1 .. n
      BY <1>4
    <3> QED BY <1>6, <3>1 DEF InterfaceComes
  <2> QED BY <2>1, <2>2
<1> QED BY <1>5, <1>6

LEMMA CallKeepsEdgesLeading ==
    ASSUME IInv, EdgesLead, todo # <<>>, Grows, LinksHead,
           NEW as \in Seq(Activations), Call(as),
           \A e \in extends' \ extends : e[2] = Super(e[1]) /\ e[2] # None /\ e[2] \in Linked',
           \A e \in implements' \ implements : e[2] \in Linked',
           \A c \in Classes, j \in DOMAIN as :
                /\ as[j] = LinkSuper(c) => Asked(Super(c))'
                /\ \A n \in DOMAIN Interfaces(c) :
                      as[j] = Implement(c, n) => Asked(Interfaces(c)[n])'
    PROVE  EdgesLead'
<1>1. todo \in Seq(Activations) /\ UNCHANGED program
  BY DEF IInv, TypeOK, Grows
<1>2. \A c : Super(c)' = Super(c) /\ Interfaces(c)' = Interfaces(c)
  BY <1>1, SameProgram
<1>3. \A c : Asked(c) => Asked(c)'
  BY AskedStays
<1>4. \A a : OnStack(a)' => OnStack(a) \/ \E j \in DOMAIN as : as[j] = a
  BY <1>1, WasOnStack
<1>5. \A e \in extends' : e[2] = Super(e[1])' /\ e[2] # None /\ e[2] \in Linked'
  BY <1>2 DEF EdgesLead, Grows
<1>6. \A e \in implements' : e[2] \in Linked'
  BY DEF EdgesLead, Grows
<1>7. ASSUME NEW c \in Classes, OnStack(LinkSuper(c))' PROVE Asked(Super(c))'
  <2>1. CASE OnStack(LinkSuper(c))
    <3>1. PICK d : d = Super(c) OBVIOUS
    <3>2. Asked(d)
      BY <2>1, <3>1 DEF EdgesLead
    <3> QED BY <1>2, <1>3, <3>1, <3>2 DEF Asked
  <2> QED BY <1>4, <1>7, <2>1
<1>8. ASSUME NEW c \in Classes, NEW n \in DOMAIN Interfaces(c)', OnStack(Implement(c, n))'
      PROVE  Asked(Interfaces(c)[n])'
  <2>1. n \in DOMAIN Interfaces(c)
    BY <1>2
  <2>2. CASE OnStack(Implement(c, n))
    <3>1. PICK d : d = Interfaces(c)[n] OBVIOUS
    <3>2. Asked(d)
      BY <2>1, <2>2, <3>1 DEF EdgesLead
    <3> QED BY <1>2, <1>3, <3>1, <3>2 DEF Asked
  <2> QED BY <1>4, <1>8, <2>1, <2>2
<1> QED BY <1>5, <1>6, <1>7, <1>8 DEF EdgesLead

LEMMA CallKeepsCode ==
    ASSUME IInv, IInv', CodeHandled, todo # <<>>, Grows, LinksHead,
           NEW as \in Seq(Activations), Call(as), NEW h, h = Head(todo),
           \A x \in provides' \ provides : OnStack(Body(x[1], x[2], 1))',
           \A i \in LinkedCode :
                Serves(h, i) /\ i.c \in Linked' =>
                    HasInitializerAbove(i.c) \/ IsLinkedAbove(i)' \/ IsServed(i)',
           h.op = "body" /\ h.n \in DOMAIN ClassFiles.code[h.c][h.m] =>
                /\ \A i : i = ClassFiles.code[h.c][h.m][h.n] => IsHandled(i)'
                /\ OnStack(Body(h.c, h.m, h.n + 1))'
    PROVE  CodeHandled'
<1>1. todo \in Seq(Activations) /\ UNCHANGED program
  BY DEF IInv, TypeOK, Grows
<1>2. /\ ClassFiles' = ClassFiles
      /\ \A c : HasInitializerAbove(c)' <=> HasInitializerAbove(c)
      /\ \A i : IsMissed(i)' <=> IsMissed(i)
      /\ \A a, i : Serves(a, i)' <=> Serves(a, i)
  BY <1>1, SameProgram
<1>3. \A a : OnStack(a) /\ a # h => OnStack(a)'
  BY <1>1, StaysOnStack
<1>4. ASSUME NEW i \in LinkedCode, IsHandled(i) PROVE IsHandled(i)'
  <2>1. i.c \in Linked' /\ Asked(i.c)'
    BY <1>4, AskedStays DEF IsHandled
  <2>2. CASE IsMissed(i)
    BY <1>2, <2>1, <2>2 DEF IsHandled
  <2>3. CASE IsLinkedAbove(i)
    BY <2>1, <2>3, FoundStays DEF IsHandled
  <2>4. CASE IsServed(i)
    <3>1. PICK k \in DOMAIN todo : Serves(todo[k], i)
      BY <2>4 DEF IsServed
    <3>2. CASE todo[k] = h
      <4>1. HasInitializerAbove(i.c) \/ IsLinkedAbove(i)' \/ IsServed(i)'
        BY <2>1, <3>1, <3>2
      <4> QED BY <1>2, <2>1, <4>1 DEF IsHandled, IsMissed
    <3>3. CASE todo[k] # h
      <4>1. PICK a : a = todo[k] OBVIOUS
      <4>2. OnStack(a)'
        BY <1>3, <3>3, <4>1 DEF OnStack
      <4>3. Serves(a, i)'
        BY <1>2, <3>1, <4>1
      <4>4. IsServed(i)'
        BY <4>2, <4>3 DEF OnStack, IsServed
      <4> QED BY <2>1, <4>4 DEF IsHandled
    <3> QED BY <3>2, <3>3
  <2> QED BY <1>4, <2>2, <2>3, <2>4 DEF IsHandled
<1> SUFFICES ASSUME NEW x \in provides', NEW n \in DOMAIN ClassFiles.code[x[1]][x[2]],
                    NEW i, i = ClassFiles.code[x[1]][x[2]][n]
             PROVE  InBody(x[1], x[2], n)' \/ IsHandled(i)'
  BY <1>2 DEF CodeHandled
<1>5. DOMAIN ClassFiles.code[x[1]][x[2]] = 1 .. Len(ClassFiles.code[x[1]][x[2]]) /\ n \in Nat
  <2>1. x[1] \in Classes /\ x[2] \in Names /\ x[2] \in DOMAIN ClassFiles.methods[x[1]]
    BY <1>2 DEF IInv, TypeOK
  <2>2. ClassFiles.code[x[1]][x[2]] \in Seq(Instructions)
    BY <2>1, ClassFileTypes
  <2> QED BY <2>2
<1>6. CASE x \notin provides
  <2>1. 1 \in 1 .. n
    BY <1>5
  <2> QED BY <1>6, <2>1 DEF InBody
<1>7. CASE x \in provides
  <2>1. i \in LinkedCode
    BY <1>7, CodeIsLinked
  <2>2. CASE IsHandled(i)
    BY <1>4, <2>1, <2>2
  <2>3. ASSUME NEW k \in 1 .. n, OnStack(Body(x[1], x[2], k))
        PROVE  InBody(x[1], x[2], n)' \/ IsHandled(i)'
    <3>1. CASE h # Body(x[1], x[2], k)
      BY <1>3, <2>3, <3>1 DEF InBody
    <3>2. CASE h = Body(x[1], x[2], k)
      <4>1. h.op = "body" /\ h.c = x[1] /\ h.m = x[2] /\ h.n = k
        BY <3>2 DEF Body
      <4>2. CASE k = n
        <5>1. n \in DOMAIN ClassFiles.code[x[1]][x[2]]
          OBVIOUS
        <5> QED BY <4>1, <4>2, <5>1
      <4>3. CASE k # n
        <5>1. k \in DOMAIN ClassFiles.code[x[1]][x[2]] /\ k + 1 \in 1 .. n
          BY <1>5, <2>3, <4>3
        <5> QED BY <4>1, <5>1 DEF InBody
      <4> QED BY <4>2, <4>3
    <3> QED BY <3>1, <3>2
  <2> QED BY <1>7, <2>2, <2>3 DEF CodeHandled, InBody
<1> QED BY <1>6, <1>7

LEMMA StillLinking ==
    ASSUME phase \in {"link", "abstract"}, UNCHANGED phase
    PROVE  EndsWell'
BY DEF EndsWell

(* The steps that leave the graph of classes as it is.                     *)
LEMMA QuietCall ==
    ASSUME IInv, IInv', ResolvesInv, todo # <<>>, phase \in {"link", "abstract"},
           NEW h, h = Head(todo), h.op # "class", ~IsLinking(h),
           UNCHANGED <<program, order, extends, implements, phase>>,
           provides \subseteq provides', fields \subseteq fields',
           NEW as \in Seq(Activations), Call(as),
           \A j \in DOMAIN as : ~IsLinking(as[j]) /\ HasPurpose(as[j])',
           \A x \in provides' \ provides : OnStack(Body(x[1], x[2], 1))',
           \A i \in LinkedCode :
                Serves(h, i) /\ i.c \in Linked /\ ~HasInitializerAbove(i.c) /\ ~IsLinkedAbove(i) =>
                    IsLinkedAbove(i)' \/ \E j \in DOMAIN as : Serves(as[j], i),
           h.op = "body" /\ h.n \in DOMAIN ClassFiles.code[h.c][h.m] =>
                /\ \A i : i = ClassFiles.code[h.c][h.m][h.n] => IsHandled(i)'
                /\ OnStack(Body(h.c, h.m, h.n + 1))'
    PROVE  ResolvesInv'
<1>1. Linked' = Linked /\ Grows /\ LinksHead /\ todo \in Seq(Activations)
  BY DEF Linked, Grows, LinksHead, IInv, TypeOK
<1>2. Purposeful'
  BY <1>1, CallKeepsPurposes DEF ResolvesInv
<1>3. IsNested(todo)'
  <2>1. \A j \in DOMAIN as : ~MustNest(as[j])
    BY DEF MustNest
  <2>2. \A d : ~IsUnder(Head(todo), d)
    BY DEF IsUnder
  <2> QED BY <2>1, <2>2, CallKeepsNesting DEF ResolvesInv
<1>4. EdgesCome'
  <2>1. \A c, n : h # LinkSuper(c) /\ h # Implement(c, n) /\ h # LinkInterfaces(c, n)
    BY DEF IsLinking, LinkSuper, Implement, LinkInterfaces
  <2> QED BY <1>1, <2>1, CallKeepsEdgesComing DEF ResolvesInv
<1>5. EdgesLead'
  <2>1. \A a, c, n : ~IsLinking(a) => a # LinkSuper(c) /\ a # Implement(c, n)
    BY DEF IsLinking, LinkSuper, Implement
  <2> QED BY <1>1, <2>1, CallKeepsEdgesLeading DEF ResolvesInv
<1>6. CodeHandled'
  <2>1. ASSUME NEW i \in LinkedCode, Serves(h, i), i.c \in Linked'
        PROVE  HasInitializerAbove(i.c) \/ IsLinkedAbove(i)' \/ IsServed(i)'
    <3>1. CASE IsLinkedAbove(i)
      BY <1>1, <3>1, FoundStays
    <3>2. ASSUME NEW j \in DOMAIN as, Serves(as[j], i) PROVE IsServed(i)'
      <4>1. PICK a : a = as[j] OBVIOUS
      <4>2. OnStack(a)'
        BY <1>1, <4>1, PushedOnStack
      <4>3. Serves(a, i)'
        BY <3>2, <4>1, SameProgram
      <4> QED BY <4>2, <4>3 DEF OnStack, IsServed
    <3> QED BY <1>1, <2>1, <3>1, <3>2
  <2> QED BY <1>1, <2>1, CallKeepsCode DEF ResolvesInv
<1>7. EndsWell'
  BY StillLinking
<1> QED BY <1>2, <1>3, <1>4, <1>5, <1>6, <1>7 DEF ResolvesInv

(* The steps that link a class and what belongs to it.                     *)
LEMMA LinkingCall ==
    ASSUME IInv, IInv', ResolvesInv, todo # <<>>, phase \in {"link", "abstract"},
           NEW h, h = Head(todo), h.op = "class" \/ IsLinking(h), LinksHead, Grows,
           UNCHANGED <<provides, phase>>,
           NEW as \in Seq(Activations), Call(as),
           \A j \in DOMAIN as : HasPurpose(as[j])',
           IsNested(todo)', EdgesCome', EdgesLead'
    PROVE  ResolvesInv'
<1>1. Purposeful'
  BY CallKeepsPurposes DEF ResolvesInv
<1>2. CodeHandled'
  <2>1. \A i : ~Serves(h, i)
    BY DEF IsLinking, Serves, ServesVirtual, ServesAlone
  <2>2. h.op # "body"
    BY DEF IsLinking
  <2> QED BY <2>1, <2>2, CallKeepsCode DEF ResolvesInv
<1>3. EndsWell'
  BY StillLinking
<1> QED BY <1>1, <1>2, <1>3 DEF ResolvesInv

(* When nothing but the phase changes.                                     *)
LEMMA SameState ==
    ASSUME ResolvesInv, EndsWell',
           UNCHANGED <<program, order, extends, implements, provides, fields, todo>>
    PROVE  ResolvesInv'
<1>1. UNCHANGED <<Linked, ClassFiles, LinkedCode>>
  BY SameProgram DEF Linked, LinkedCode
<1>2. \A a : HasPurpose(a) => HasPurpose(a)'
  <2>1. Grows
    BY <1>1 DEF Grows
  <2>2. \A c, m : Searched(c, m) => Searched(c, m)'
    BY <2>1, SearchedStays
  <2>3. \A op, c, m : Executes(op, c, m) => Executes(op, c, m)'
    BY <2>1, ExecutesStays
  <2>4. /\ \A c, m : Declares(c, m)' <=> Declares(c, m)
        /\ \A c, m : IsAbstract(c, m)' <=> IsAbstract(c, m)
        /\ \A c : ProgramAbove(program, c)' = ProgramAbove(program, c)
    BY SameProgram
  <2>5. \A c : Asked(c) => Asked(c)'
    BY <1>1 DEF Asked
  <2> QED BY <1>1, <2>2, <2>3, <2>4, <2>5 DEF HasPurpose
<1>3. Purposeful'
  BY <1>2 DEF ResolvesInv, Purposeful
<1>4. \A c : Super(c)' = Super(c) /\ Interfaces(c)' = Interfaces(c)
  BY SameProgram
<1>5. EdgesCome'
  BY <1>1, <1>4 DEF ResolvesInv, EdgesCome, SuperComes, InterfaceComes, OnStack
<1>6. EdgesLead'
  BY <1>1, <1>4 DEF ResolvesInv, EdgesLead, Asked, OnStack
<1>7. IsNested(todo)'
  BY SameProgram DEF ResolvesInv, IsNested
<1>8. CodeHandled'
  <2>1. \A i : IsHandled(i) => IsHandled(i)'
    <3>1. \A i : IsLinkedAbove(i) => IsLinkedAbove(i)'
      BY SameProgram DEF IsLinkedAbove
    <3>2. \A i : IsServed(i) => IsServed(i)'
      BY SameProgram DEF IsServed
    <3>3. \A i : IsMissed(i)' <=> IsMissed(i)
      BY SameProgram
    <3> QED BY <1>1, <3>1, <3>2, <3>3 DEF IsHandled, Asked
  <2>2. \A c, m, n : InBody(c, m, n) => InBody(c, m, n)'
    BY DEF InBody, OnStack
  <2> QED BY <1>1, <2>1, <2>2 DEF ResolvesInv, CodeHandled
<1> QED BY <1>3, <1>5, <1>6, <1>7, <1>8 DEF ResolvesInv

LEMMA HeadHasPurpose ==
    ASSUME IInv, ResolvesInv, todo # <<>>
    PROVE  /\ HasPurpose(Head(todo)) /\ OnStack(Head(todo))
           /\ Head(todo) \in Activations /\ IsJustified(Head(todo))
<1>1. 1 \in DOMAIN todo /\ todo[1] = Head(todo)
  BY HeadIsFirst DEF IInv, TypeOK
<1> QED BY <1>1, HeadOfTodo DEF ResolvesInv, Purposeful, OnStack

LEMMA FailStep ==
    ASSUME ResolvesInv, Explained, phase' = "failed",
           UNCHANGED <<program, order, extends, implements, provides, fields, todo>>
    PROVE  ResolvesInv'
<1>1. LinkedCode' = LinkedCode
  BY DEF LinkedCode, ClassFiles
<1>2. Explained'
  BY <1>1, SameProgram DEF Explained
<1> QED BY <1>2, SameState DEF EndsWell

(***************************************************************************)
(* A method found in the class that is asked.                              *)
(***************************************************************************)
LEMMA ProvideCall ==
    ASSUME IInv, IInv', ResolvesInv, todo # <<>>, phase \in {"link", "abstract"},
           NEW h, h = Head(todo), h.op \in {"own", "private", "static"},
           NEW c \in Classes, NEW m \in Names, h.c = c, h.m = m,
           provides' = provides \union {<<c, m>>}, Call(<<Body(c, m, 1)>>),
           UNCHANGED <<program, order, extends, implements, fields, phase>>
    PROVE  ResolvesInv'
<1>1. PICK as : as = <<Body(c, m, 1)>>
  OBVIOUS
<1>2. as \in Seq(Activations) /\ Call(as)
  <2>1. Body(c, m, 1) \in Activations
    BY DEF Body, Activations
  <2> QED BY <1>1, <2>1
<1>3. /\ DOMAIN as = {1} /\ as[1] = Body(c, m, 1)
      /\ ~IsLinking(as[1]) /\ HasPurpose(as[1])'
  BY <1>1 DEF Body, IsLinking, HasPurpose
<1>4. OnStack(Body(c, m, 1))'
  <2>1. todo \in Seq(Activations)
    BY DEF IInv, TypeOK
  <2> QED BY <1>2, <1>3, <2>1, PushedOnStack
<1>5. ASSUME NEW x \in provides' \ provides PROVE OnStack(Body(x[1], x[2], 1))'
  <2>1. x = <<c, m>>
    BY <1>5
  <2>2. x[1] = c /\ x[2] = m
    BY <2>1
  <2> QED BY <1>4, <2>2
<1>6. ASSUME NEW i \in LinkedCode, Serves(h, i) PROVE IsLinkedAbove(i)'
  <2>1. i.c \in Classes
    BY LinkedCodeIsCompiled
  <2>2. /\ i.m = m /\ c \in ProgramAbove(program, i.c)
        /\ i.op \in {"INVOKEVIRTUAL", "INVOKESPECIAL", "INVOKESTATIC"}
    BY <1>6, <2>1, AboveItself DEF Serves, ServesVirtual, ServesAlone
  <2>3. c \in ProgramAbove(program, i.c)' /\ <<c, m>> \in provides'
    BY <2>2, SameProgram
  <2> QED BY <2>2, <2>3 DEF IsLinkedAbove
<1>7. h.op # "class" /\ ~IsLinking(h) /\ h.op # "body"
  BY DEF IsLinking
<1> QED BY <1>2, <1>3, <1>5, <1>6, <1>7, QuietCall

(***************************************************************************)
(* The superclass is asked: it is there, unless a static initialiser is    *)
(* above the class the instruction names.                                  *)
(***************************************************************************)
LEMMA AskSuperCall ==
    ASSUME IInv, IInv', ResolvesInv, todo # <<>>, phase \in {"link", "abstract"},
           NEW h, h = Head(todo), h.op \in {"own", "static"},
           NEW c \in Classes, NEW m \in Names, AskSuper(c, m),
           UNCHANGED <<program, order, extends, implements, fields>>,
           Super(c) # None => Searched(Super(c), m),
           \A i \in LinkedCode : Serves(h, i) =>
                /\ i.m = m /\ i.op \in {"INVOKEVIRTUAL", "INVOKESTATIC"}
                /\ c \in ProgramAbove(program, i.c)
                /\ Super(c) # None /\ DeclaredAbove(Super(c), m)
    PROVE  ResolvesInv'
<1>1. h.op # "class" /\ ~IsLinking(h) /\ h.op # "body"
  BY DEF IsLinking
<1>2. UNCHANGED <<provides, phase>>
  BY DEF AskSuper
<1>3. ASSUME NEW i \in LinkedCode, Serves(h, i), i.c \in Linked, ~HasInitializerAbove(i.c)
      PROVE  Super(c) \in SuperOf(c)
  <2>1. <<c, Super(c)>> \in extends
    BY <1>1, <1>3, SeesAllAbove DEF ResolvesInv
  <2> QED BY <2>1 DEF SuperOf
<1>4. CASE SuperOf(c) = {} /\ Return
  <2>1. PICK as : as = <<>>
    OBVIOUS
  <2>2. as \in Seq(Activations) /\ DOMAIN as = {} /\ Call(as)
    BY <1>4, <2>1, EmptySeq DEF Return
  <2> QED BY <1>1, <1>2, <1>3, <1>4, <2>2, QuietCall
<1>5. ASSUME NEW super \in SuperOf(c), Call(<<ResolveVirtual(super, m)>>) PROVE ResolvesInv'
  <2>1. super = Super(c) /\ super \in Classes /\ Super(c) # None
    <3>1. PICK e \in extends : e[1] = c /\ e[2] = super
      BY DEF SuperOf
    <3>2. e[2] = Super(e[1]) /\ e[2] # None
      BY DEF ResolvesInv, EdgesLead
    <3>3. e \in Classes \X Classes
      BY DEF IInv, TypeOK
    <3> QED BY <3>1, <3>2, <3>3
  <2>2. PICK as : as = <<ResolveVirtual(super, m)>>
    OBVIOUS
  <2>3. as \in Seq(Activations) /\ Call(as)
    <3>1. ResolveVirtual(super, m) \in Activations
      BY <2>1 DEF ResolveVirtual, Activations
    <3> QED BY <1>5, <2>2, <3>1
  <2>4. DOMAIN as = {1} /\ as[1] = ResolveVirtual(super, m)
    BY <2>2
  <2>5. Searched(super, m)'
    <3>1. Grows
      BY <1>2 DEF Grows, Linked
    <3> QED BY <2>1, <3>1, SearchedStays
  <2>6. ~IsLinking(as[1]) /\ HasPurpose(as[1])'
    BY <2>4, <2>5 DEF ResolveVirtual, IsLinking, HasPurpose
  <2>7. ASSUME NEW i \in LinkedCode, Serves(h, i) PROVE Serves(as[1], i)
    <3>1. /\ i.m = m /\ i.op \in {"INVOKEVIRTUAL", "INVOKESTATIC"}
          /\ super \in ProgramAbove(program, i.c) /\ DeclaredAbove(super, m)
      BY <2>1, <2>7, LinkedCodeIsCompiled, SuperAbove, AboveTransitive
    <3> QED BY <2>4, <3>1 DEF Serves, ServesVirtual, Leads, ResolveVirtual
  <2> QED BY <1>1, <1>2, <2>3, <2>4, <2>6, <2>7, QuietCall
<1> QED BY <1>4, <1>5 DEF AskSuper

-----------------------------------------------------------------------------
(***************************************************************************)
(* The actions keep the invariant.  Methods:                               *)
(***************************************************************************)
LEMMA OwnMethodResolves ==
    ASSUME IInv, IInv', ResolvesInv, OwnMethod
    PROVE  ResolvesInv'
<1>1. PICK h, c, m : h = Head(todo) /\ c = h.c /\ m = h.m
  OBVIOUS
<1>2. /\ todo # <<>> /\ h.op = "own" /\ phase \in {"link", "abstract"}
      /\ \/ Declares(c, m) /\ Provide(c, m, {"concrete", "abstract"})
         \/ ~Declares(c, m) /\ AskSuper(c, m)
      /\ UNCHANGED <<program, order, extends, implements, fields>>
  BY <1>1 DEF OwnMethod, Top
<1>3. c \in Classes /\ m \in Names /\ Searched(c, m)
  BY <1>1, <1>2, HeadHasPurpose DEF Activations, HasPurpose
<1>4. CASE /\ provides' = provides \union {<<c, m>>} /\ Call(<<Body(c, m, 1)>>)
           /\ UNCHANGED phase
  BY <1>1, <1>2, <1>3, <1>4, ProvideCall
<1>5. CASE /\ Declares(c, m) /\ ClassFiles.methods[c][m] \notin {"concrete", "abstract"}
           /\ phase' = "failed" /\ UNCHANGED <<provides, todo>>
  <2>1. ClassFiles.methods[c][m] = "static"
    BY <1>3, <1>5, ClassFileTypes DEF Declares
  <2>2. ASSUME NEW i \in LinkedCode, i.m = m, c \in ProgramAbove(program, i.c),
               i.op = "INVOKEVIRTUAL"
        PROVE  FALSE
    BY <1>5, <2>1, <2>2, LinkedCodeIsCompiled DEF RefersToMember, ClassFiles, Declares
  <2>3. ASSUME NEW d \in Classes, c \in ProgramAbove(program, d),
               NEW e \in ProgramAbove(program, d), IsAbstract(e, m)
        PROVE  FALSE
    <3>1. IsCompiled(program)
      BY CompiledAssumption DEF IInv, TypeOK
    <3> QED BY <1>5, <2>1, <2>3, <3>1 DEF IsCompiled, IsAbstract, Declares, ClassFiles
  <2>4. Explained
    BY <1>3, <2>2, <2>3 DEF Searched, Explained
  <2> QED BY <1>2, <1>5, <2>4, FailStep
<1>6. CASE ~Declares(c, m) /\ AskSuper(c, m)
  <2>1. Super(c) # None => Searched(Super(c), m)
    BY <1>3, SuperAbove, SearchedAbove
  <2>2. ASSUME NEW i \in LinkedCode, Serves(h, i)
        PROVE  /\ i.m = m /\ i.op \in {"INVOKEVIRTUAL", "INVOKESTATIC"}
               /\ c \in ProgramAbove(program, i.c)
               /\ Super(c) # None /\ DeclaredAbove(Super(c), m)
    BY <1>1, <1>2, <1>6, <2>2 DEF Serves, ServesVirtual, ServesAlone
  <2> QED BY <1>1, <1>2, <1>3, <1>6, <2>1, <2>2, AskSuperCall
<1> QED BY <1>2, <1>4, <1>5, <1>6 DEF Provide

LEMMA QuietReturn ==
    ASSUME IInv, IInv', ResolvesInv, todo # <<>>, phase \in {"link", "abstract"},
           NEW h, h = Head(todo), h.op # "class", ~IsLinking(h), Return,
           UNCHANGED <<program, order, extends, implements, provides, phase>>,
           fields \subseteq fields',
           \A i \in LinkedCode :
                Serves(h, i) /\ i.c \in Linked /\ ~HasInitializerAbove(i.c) => IsLinkedAbove(i)',
           h.op = "body" => h.n \notin DOMAIN ClassFiles.code[h.c][h.m]
    PROVE  ResolvesInv'
<1>1. PICK as : as = <<>>
  OBVIOUS
<1>2. as \in Seq(Activations) /\ DOMAIN as = {} /\ Call(as)
  BY <1>1, EmptySeq DEF Return
<1> QED BY <1>2, QuietCall

LEMMA PrivateMethodResolves ==
    ASSUME IInv, IInv', ResolvesInv, PrivateMethod
    PROVE  ResolvesInv'
<1>1. PICK h, c, m : h = Head(todo) /\ c = h.c /\ m = h.m
  OBVIOUS
<1>2. /\ todo # <<>> /\ h.op = "private" /\ phase \in {"link", "abstract"}
      /\ IF Declares(c, m) /\ <<c, m>> \notin provides
         THEN Provide(c, m, {"concrete", "abstract"})
         ELSE Return /\ UNCHANGED <<provides, phase>>
      /\ UNCHANGED <<program, order, extends, implements, fields>>
  BY <1>1 DEF PrivateMethod, Top
<1>3. /\ c \in Classes /\ m \in Names
      /\ Declares(c, m) => ClassFiles.methods[c][m] # "static"
  BY <1>1, <1>2, HeadHasPurpose DEF Activations, HasPurpose
<1>4. CASE /\ provides' = provides \union {<<c, m>>} /\ Call(<<Body(c, m, 1)>>)
           /\ UNCHANGED phase
  BY <1>1, <1>2, <1>3, <1>4, ProvideCall
<1>5. CASE ~(Declares(c, m) /\ <<c, m>> \notin provides)
  <2>1. ASSUME NEW i \in LinkedCode, Serves(h, i) PROVE IsLinkedAbove(i)'
    <3>1. i.op = "INVOKESPECIAL" /\ i.c = c /\ i.m = m /\ Declares(i.c, i.m)
      BY <1>1, <1>2, <2>1 DEF Serves, ServesVirtual, ServesAlone
    <3>2. Declares(c, m)
      BY <3>1
    <3>3. c \in ProgramAbove(program, i.c) /\ <<c, i.m>> \in provides
      BY <1>3, <1>5, <3>1, <3>2, AboveItself
    <3>4. c \in ProgramAbove(program, i.c)' /\ <<c, i.m>> \in provides'
      BY <1>2, <1>5, <3>3, SameProgram
    <3> QED BY <3>1, <3>4 DEF IsLinkedAbove
  <2>2. h.op # "class" /\ ~IsLinking(h) /\ h.op # "body"
    BY <1>2 DEF IsLinking
  <2>3. Return /\ UNCHANGED <<provides, phase>> /\ fields \subseteq fields'
    BY <1>2, <1>5
  <2> QED BY <1>1, <1>2, <2>1, <2>2, <2>3, QuietReturn
<1>6. Declares(c, m) => ClassFiles.methods[c][m] \in {"concrete", "abstract"}
  BY <1>3, ClassFileTypes DEF Declares
<1> QED BY <1>2, <1>4, <1>5, <1>6 DEF Provide

LEMMA StaticMethodResolves ==
    ASSUME IInv, IInv', ResolvesInv, StaticMethod
    PROVE  ResolvesInv'
<1>1. PICK h, c, m : h = Head(todo) /\ c = h.c /\ m = h.m
  OBVIOUS
<1>2. /\ todo # <<>> /\ h.op = "static" /\ phase \in {"link", "abstract"}
      /\ \/ <<c, m>> \in provides /\ Return /\ UNCHANGED <<provides, phase>>
         \/ Declares(c, m) /\ Provide(c, m, {"static"})
         \/ ~Declares(c, m) /\ AskSuper(c, m)
      /\ UNCHANGED <<program, order, extends, implements, fields>>
  BY <1>1 DEF StaticMethod, Top
<1>3. /\ c \in Classes /\ m \in Names
      /\ IF Declares(c, m) THEN ClassFiles.methods[c][m] = "static"
         ELSE Executes("INVOKESTATIC", c, m)
  BY <1>1, <1>2, HeadHasPurpose DEF Activations, HasPurpose
<1>4. CASE /\ provides' = provides \union {<<c, m>>} /\ Call(<<Body(c, m, 1)>>)
           /\ UNCHANGED phase
  BY <1>1, <1>2, <1>3, <1>4, ProvideCall
<1>5. \A i : Serves(h, i) => i.op = "INVOKESTATIC" /\ i.c = c /\ i.m = m
  BY <1>1, <1>2 DEF Serves, ServesVirtual, ServesAlone
<1>6. CASE <<c, m>> \in provides /\ Return /\ UNCHANGED <<provides, phase>>
  <2>1. ASSUME NEW i \in LinkedCode, Serves(h, i) PROVE IsLinkedAbove(i)'
    <3>1. c \in ProgramAbove(program, i.c)' /\ <<c, i.m>> \in provides'
      BY <1>2, <1>3, <1>5, <1>6, <2>1, AboveItself, SameProgram
    <3> QED BY <1>5, <2>1, <3>1 DEF IsLinkedAbove
  <2>2. h.op # "class" /\ ~IsLinking(h) /\ h.op # "body"
    BY <1>2 DEF IsLinking
  <2> QED BY <1>1, <1>2, <1>6, <2>1, <2>2, QuietReturn
<1>7. CASE ~Declares(c, m) /\ AskSuper(c, m)
  <2>1. PICK x \in LinkedCode : x.op = "INVOKESTATIC" /\ x.c = c /\ x.m = m
    BY <1>3, <1>7 DEF Executes
  <2>2. Super(c) # None => Searched(Super(c), m)
    BY <1>3, <1>7, <2>1, SuperAbove DEF Searched, AsksSubclass, IsInherited
  <2>3. Super(c) # None /\ DeclaredAbove(Super(c), m)
    <3>1. RefersToMember(program, x)
      BY <2>1, LinkedCodeIsCompiled
    <3> QED BY <1>7, <2>1, <3>1 DEF RefersToMember, DeclaredAbove, Declares, Super, ClassFiles
  <2>4. ASSUME NEW i \in LinkedCode, Serves(h, i)
        PROVE  /\ i.m = m /\ i.op \in {"INVOKEVIRTUAL", "INVOKESTATIC"}
               /\ c \in ProgramAbove(program, i.c)
    BY <1>3, <1>5, <2>4, AboveItself
  <2> QED BY <1>1, <1>2, <1>3, <1>7, <2>2, <2>3, <2>4, AskSuperCall
<1> QED BY <1>2, <1>3, <1>4, <1>6, <1>7 DEF Provide

LEMMA StaticFieldResolves ==
    ASSUME IInv, IInv', ResolvesInv, StaticField
    PROVE  ResolvesInv'
<1>1. PICK h, c, f : h = Head(todo) /\ c = h.c /\ f = h.m
  OBVIOUS
<1> DEFINE providers == {d \in Above(c) : f \in ClassFiles.fields[d]}
<1>2. /\ todo # <<>> /\ h.op = "field" /\ phase \in {"link", "abstract"}
      /\ \/ providers = {} /\ phase' = "failed" /\ UNCHANGED <<fields, todo>>
         \/ /\ \E d \in providers : fields' = fields \union {<<d, f>>}
            /\ Return /\ UNCHANGED phase
      /\ UNCHANGED <<program, order, extends, implements, provides>>
  BY <1>1 DEF StaticField, Top
<1>3. c \in Classes /\ Executes("GETSTATIC", c, f) /\ Asked(c)
  BY <1>1, <1>2, HeadHasPurpose DEF Activations, HasPurpose
<1>4. h.op # "class" /\ ~IsLinking(h) /\ h.op # "body"
  BY <1>2 DEF IsLinking
<1>5. CASE providers = {} /\ phase' = "failed" /\ UNCHANGED <<fields, todo>>
  <2>1. PICK i \in LinkedCode : i.op = "GETSTATIC" /\ i.c = c /\ i.m = f
    BY <1>3 DEF Executes
  <2>2. PICK d \in ProgramAbove(program, c) : f \in ClassFiles.fields[d]
    BY <2>1, LinkedCodeIsCompiled DEF RefersToMember, ClassFiles
  <2>3. c \in Linked
    BY <1>1, <1>3, <1>4 DEF Asked, ResolveClass
  <2>4. c \in ProgramAbove(program, c)
    BY <1>3, AboveItself
  <2>5. ~HasInitializerAbove(c) => Above(c) = ProgramAbove(program, c)
    BY <1>1, <1>2, <1>4, <2>3, <2>4, SeesAllAbove DEF ResolvesInv
  <2>6. HasInitializerAbove(i.c)
    BY <1>5, <2>1, <2>2, <2>5
  <2> QED BY <1>2, <1>5, <2>6, FailStep DEF Explained
<1>6. ASSUME NEW d \in providers, fields' = fields \union {<<d, f>>}, Return, UNCHANGED phase
      PROVE  ResolvesInv'
  <2>1. ASSUME NEW i \in LinkedCode, Serves(h, i) PROVE IsLinkedAbove(i)'
    <3>1. i.op = "GETSTATIC" /\ i.c = c /\ i.m = f
      BY <1>1, <1>2, <2>1 DEF Serves, ServesVirtual, ServesAlone
    <3>2. d \in ProgramAbove(program, i.c)
      BY <1>3, <3>1, AboveIsAbove
    <3>3. d \in ProgramAbove(program, i.c)' /\ <<d, i.m>> \in fields'
      BY <1>2, <1>6, <3>1, <3>2, SameProgram
    <3> QED BY <3>1, <3>3 DEF IsLinkedAbove
  <2>2. fields \subseteq fields'
    BY <1>6
  <2> HIDE DEF providers
  <2> QED BY <1>1, <1>2, <1>4, <1>6, <2>1, <2>2, QuietReturn
<1> QED BY <1>2, <1>5, <1>6

(***************************************************************************)
(* A virtual call: whatever class declares the method is the class itself  *)
(* or is above the superclass or an interface, and these are asked.        *)
(***************************************************************************)
LEMMA FindVirtualResolves ==
    ASSUME IInv, IInv', ResolvesInv, FindVirtual
    PROVE  ResolvesInv'
<1>1. PICK h, c, m, cs : h = Head(todo) /\ c = h.c /\ m = h.m /\ cs = InterfacesOf(c)
  OBVIOUS
<1>2. /\ todo # <<>> /\ h.op = "virtual" /\ phase \in {"link", "abstract"}
      /\ Call(IF <<c, m>> \in provides THEN <<>> ELSE <<ForEach(cs, m), Own(c, m)>>)
      /\ UNCHANGED <<program, order, extends, implements, provides, fields, phase>>
  BY <1>1 DEF FindVirtual, Top
<1>3. c \in Classes /\ m \in Names /\ Searched(c, m)
  BY <1>1, <1>2, HeadHasPurpose DEF Activations, HasPurpose
<1>4. h.op # "class" /\ ~IsLinking(h) /\ h.op # "body"
  BY <1>2 DEF IsLinking
<1>5. ASSUME NEW i, Serves(h, i)
      PROVE  /\ i.m = m /\ i.op \in {"INVOKEVIRTUAL", "INVOKESTATIC"}
             /\ c \in ProgramAbove(program, i.c) /\ DeclaredAbove(c, m)
  BY <1>1, <1>2, <1>5 DEF Serves, ServesVirtual, ServesAlone, Leads
<1>6. CASE <<c, m>> \in provides
  <2>1. ASSUME NEW i \in LinkedCode, Serves(h, i) PROVE IsLinkedAbove(i)'
    <3>1. c \in ProgramAbove(program, i.c)' /\ <<c, i.m>> \in provides'
      BY <1>2, <1>5, <1>6, <2>1, SameProgram
    <3> QED BY <1>5, <2>1, <3>1 DEF IsLinkedAbove
  <2> QED BY <1>1, <1>2, <1>4, <1>6, <2>1, QuietReturn DEF Return
<1>7. CASE <<c, m>> \notin provides
  <2>1. PICK as, a, b : a = ForEach(cs, m) /\ b = Own(c, m) /\ as = <<a, b>>
    OBVIOUS
  <2>2. \A d \in cs : d \in Classes /\ d \in ProgramAbove(program, c)
    <3> SUFFICES ASSUME NEW e \in implements, e[1] = c, NEW d \in Above(e[2])
                 PROVE  d \in Classes /\ d \in ProgramAbove(program, c)
      BY <1>1 DEF InterfacesOf
    <3>1. e \in Classes \X Classes /\ e \in ProgramEdges(program)
      BY DEF IInv, TypeOK
    <3>2. e[2] \in Classes /\ e[2] \in ProgramAbove(program, c)
      <4>1. e[2] \in Classes /\ <<c, e[2]>> \in ProgramEdges(program)
        BY <3>1
      <4> QED BY <1>3, <4>1, AboveIsClosure, ClosureEdge
    <3>3. d \in ProgramAbove(program, e[2])
      BY <3>2, AboveIsAbove
    <3> QED BY <1>3, <3>2, <3>3, AboveTransitive
  <2>3. as \in Seq(Activations) /\ Call(as)
    <3>1. ForEach(cs, m) \in Activations /\ Own(c, m) \in Activations
      BY <1>3, <2>2 DEF ForEach, Own, Activations
    <3> QED BY <1>2, <1>7, <2>1, <3>1
  <2>4. /\ DOMAIN as = {1, 2} /\ as[1] = a /\ as[2] = b
        /\ a.op = "foreach" /\ a.cs = cs /\ a.m = m
        /\ b.op = "own" /\ b.c = c /\ b.m = m
    BY <2>1 DEF ForEach, Own
  <2>5. \A j \in DOMAIN as : ~IsLinking(as[j]) /\ HasPurpose(as[j])'
    <3>1. Grows
      BY <1>2 DEF Grows, Linked
    <3>2. \A d \in cs : Searched(d, m)'
      BY <1>3, <2>2, <3>1, SearchedAbove, SearchedStays
    <3>3. Searched(c, m)'
      BY <1>3, <3>1, SearchedStays
    <3>4. ~IsLinking(a) /\ HasPurpose(a)'
      BY <2>4, <3>2 DEF HasPurpose, IsLinking
    <3>5. ~IsLinking(b) /\ HasPurpose(b)'
      BY <2>4, <3>3 DEF HasPurpose, IsLinking
    <3> QED BY <2>4, <3>4, <3>5
  <2>6. ASSUME NEW i \in LinkedCode, Serves(h, i), i.c \in Linked, ~HasInitializerAbove(i.c)
        PROVE  \E j \in DOMAIN as : Serves(as[j], i)
    <3>1. /\ i.m = m /\ i.op \in {"INVOKEVIRTUAL", "INVOKESTATIC"}
          /\ c \in ProgramAbove(program, i.c)
      BY <1>5, <2>6
    <3>2. PICK d \in ProgramAbove(program, c) : Declares(d, m)
      BY <1>5, <2>6 DEF DeclaredAbove
    <3>3. CASE d = c \/ (Super(c) # None /\ d \in ProgramAbove(program, Super(c)))
      <4>1. Serves(b, i)
        BY <2>4, <3>1, <3>2, <3>3 DEF Serves, ServesVirtual, DeclaredAbove
      <4> QED BY <2>4, <4>1
    <3>4. ASSUME NEW n \in DOMAIN Interfaces(c), d \in ProgramAbove(program, Interfaces(c)[n])
          PROVE  Serves(a, i)
      <4> DEFINE e == Interfaces(c)[n]
      <4>1. <<c, e>> \in implements
        BY <1>1, <1>2, <1>4, <2>6, <3>1, SeesAllAbove DEF ResolvesInv
      <4>2. e \in Classes /\ e \in ProgramAbove(program, c)
        BY <1>3, InterfaceAbove
      <4>3. e \in cs
        BY <1>1, <4>1, <4>2, ClosureReflexive DEF InterfacesOf, Above
      <4>4. Leads(e, i)
        <5>1. e \in ProgramAbove(program, i.c)
          BY <3>1, <4>2, LinkedCodeIsCompiled, AboveTransitive
        <5>2. DeclaredAbove(e, m)
          BY <3>2, <3>4 DEF DeclaredAbove
        <5> QED BY <3>1, <5>1, <5>2 DEF Leads
      <4> HIDE DEF e
      <4> QED BY <2>4, <3>1, <4>3, <4>4 DEF Serves, ServesVirtual
    <3> QED BY <1>3, <2>4, <3>2, <3>3, <3>4, AboveSplit
  <2> QED BY <1>1, <1>2, <1>4, <2>3, <2>5, <2>6, QuietCall
<1> QED BY <1>6, <1>7

LEMMA NextOfInterfacesResolves ==
    ASSUME IInv, IInv', ResolvesInv, NextOfInterfaces
    PROVE  ResolvesInv'
<1>1. PICK h, cs, m : h = Head(todo) /\ cs = h.cs /\ m = h.m
  OBVIOUS
<1>2. /\ todo # <<>> /\ h.op = "foreach" /\ phase \in {"link", "abstract"}
      /\ \/ cs = {} /\ Return
         \/ \E i \in cs : Call(<<ResolveVirtual(i, m), ForEach(cs \ {i}, m)>>)
      /\ UNCHANGED <<program, order, extends, implements, provides, fields, phase>>
  BY <1>1 DEF NextOfInterfaces, Top
<1>3. cs \subseteq Classes /\ m \in Names /\ \A c \in cs : Searched(c, m)
  BY <1>1, <1>2, HeadHasPurpose DEF Activations, HasPurpose
<1>4. h.op # "class" /\ ~IsLinking(h) /\ h.op # "body"
  BY <1>2 DEF IsLinking
<1>5. ASSUME NEW i, Serves(h, i)
      PROVE  /\ i.m = m /\ i.op \in {"INVOKEVIRTUAL", "INVOKESTATIC"}
             /\ \E c \in cs : Leads(c, i)
  BY <1>1, <1>2, <1>5 DEF Serves, ServesVirtual, ServesAlone
<1>6. CASE cs = {} /\ Return
  BY <1>1, <1>2, <1>4, <1>5, <1>6, QuietReturn
<1>7. ASSUME NEW d \in cs, Call(<<ResolveVirtual(d, m), ForEach(cs \ {d}, m)>>)
      PROVE  ResolvesInv'
  <2>1. PICK as, a, b, ds : /\ ds = cs \ {d} /\ as = <<a, b>>
                            /\ a = ResolveVirtual(d, m) /\ b = ForEach(ds, m)
    OBVIOUS
  <2>2. ResolveVirtual(d, m) \in Activations /\ ForEach(ds, m) \in Activations
    BY <1>3, <2>1 DEF ForEach, ResolveVirtual, Activations
  <2>3. as \in Seq(Activations) /\ Call(as)
    BY <1>7, <2>1, <2>2
  <2>4. /\ DOMAIN as = {1, 2} /\ as[1] = a /\ as[2] = b
        /\ a.op = "virtual" /\ a.c = d /\ a.m = m
        /\ b.op = "foreach" /\ b.cs = ds /\ b.m = m
    BY <2>1 DEF ResolveVirtual, ForEach
  <2>5. \A j \in DOMAIN as : ~IsLinking(as[j]) /\ HasPurpose(as[j])'
    <3>1. Grows
      BY <1>2 DEF Grows, Linked
    <3>2. \A c \in cs : Searched(c, m)'
      BY <1>3, <3>1, SearchedStays
    <3>3. ~IsLinking(a) /\ HasPurpose(a)'
      BY <2>4, <3>2 DEF HasPurpose, IsLinking
    <3>4. \A c \in ds : Searched(c, m)'
      BY <2>1, <3>2
    <3>5. ~IsLinking(b) /\ HasPurpose(b)'
      BY <2>4, <3>4 DEF HasPurpose, IsLinking
    <3> QED BY <2>4, <3>3, <3>5
  <2>6. ASSUME NEW i \in LinkedCode, Serves(h, i)
        PROVE  \E j \in DOMAIN as : Serves(as[j], i)
    <3>1. PICK c \in cs : Leads(c, i)
      BY <1>5, <2>6
    <3>2. CASE c = d
      <4>1. Serves(a, i)
        BY <1>5, <2>4, <2>6, <3>1, <3>2 DEF Serves, ServesVirtual
      <4> QED BY <2>4, <4>1
    <3>3. CASE c # d
      <4>1. c \in ds
        BY <2>1, <3>3
      <4>2. Serves(b, i)
        BY <1>5, <2>4, <2>6, <3>1, <4>1 DEF Serves, ServesVirtual
      <4> QED BY <2>4, <4>2
    <3> QED BY <3>2, <3>3
  <2> QED BY <1>1, <1>2, <1>4, <2>3, <2>5, <2>6, QuietCall
<1> QED BY <1>2, <1>6, <1>7

(***************************************************************************)
(* The instructions of a method.                                           *)
(***************************************************************************)
IsBetween(t, r, s, b) ==
    /\ t[1] = r
    /\ s = <<>> => DOMAIN t = {1, 2} /\ t[2] = b
    /\ Len(s) = 1 => DOMAIN t = {1, 2, 3} /\ t[2] = s[1] /\ t[3] = b

LEMMA Between ==
    ASSUME NEW S, NEW r \in S, NEW s \in Seq(S), NEW b \in S, Len(s) <= 1
    PROVE  /\ (<<r>> \o s) \o <<b>> \in Seq(S)
           /\ IsBetween((<<r>> \o s) \o <<b>>, r, s, b)
<1>1. PICK t : t = (<<r>> \o s) \o <<b>>
  OBVIOUS
<1>2. PICK u, v, w : u = <<r>> /\ v = u \o s /\ w = <<b>>
  OBVIOUS
<1>3. u \in Seq(S) /\ w \in Seq(S) /\ Len(u) = 1 /\ Len(w) = 1 /\ u[1] = r /\ w[1] = b
  BY <1>2
<1>4. /\ v \in Seq(S) /\ Len(v) = 1 + Len(s)
      /\ \A i \in 1 .. 1 + Len(s) : v[i] = IF i <= 1 THEN u[i] ELSE s[i - 1]
  BY <1>2, <1>3, ConcatProperties
<1>5. PICK n : n = Len(s) /\ n \in {0, 1}
  BY LenProperties
<1>6. /\ t \in Seq(S) /\ Len(t) = (1 + n) + 1
      /\ \A i \in 1 .. (1 + n) + 1 : t[i] = IF i <= 1 + n THEN v[i] ELSE w[i - (1 + n)]
  BY <1>1, <1>2, <1>3, <1>4, <1>5, ConcatProperties
<1>7. DOMAIN t = 1 .. n + 2
  BY <1>5, <1>6, LenProperties
<1>8. ASSUME n = 0
      PROVE  DOMAIN t = {1, 2} /\ t[1] = r /\ t[2] = b
  <2>1. 1 .. n + 2 = {1, 2}
    BY <1>8
  <2>2. t[1] = v[1] /\ t[2] = w[1] /\ v[1] = u[1]
    <3>1. /\ \A i \in 1 .. 2 : t[i] = IF i <= 1 THEN v[i] ELSE w[i - 1]
          /\ \A i \in 1 .. 1 : v[i] = IF i <= 1 THEN u[i] ELSE s[i - 1]
      BY <1>4, <1>5, <1>6, <1>8
    <3> QED BY ONLY <3>1
  <2>3. DOMAIN t = {1, 2} /\ t[1] = r /\ t[2] = b
    BY <1>3, <1>7, <2>1, <2>2
  <2> QED BY <2>3
<1>9. ASSUME n = 1
      PROVE  DOMAIN t = {1, 2, 3} /\ t[1] = r /\ t[2] = s[1] /\ t[3] = b
  <2>1. 1 .. n + 2 = {1, 2, 3}
    BY <1>9
  <2>2. t[1] = v[1] /\ t[2] = v[2] /\ t[3] = w[1] /\ v[1] = u[1] /\ v[2] = s[1]
    <3>1. /\ \A i \in 1 .. 3 : t[i] = IF i <= 2 THEN v[i] ELSE w[i - 2]
          /\ \A i \in 1 .. 2 : v[i] = IF i <= 1 THEN u[i] ELSE s[i - 1]
      BY <1>4, <1>5, <1>6, <1>9
    <3> QED BY ONLY <3>1
  <2>3. DOMAIN t = {1, 2, 3} /\ t[1] = r /\ t[2] = s[1] /\ t[3] = b
    BY <1>3, <1>7, <2>1, <2>2
  <2> QED BY <2>3
<1>10. s = <<>> => Len(s) = 0
  OBVIOUS
<1>11. IsBetween(t, r, s, b)
  BY <1>5, <1>8, <1>9, <1>10 DEF IsBetween
<1> QED BY <1>1, <1>6, <1>11

(* What is pushed for an instruction will find what it refers to.          *)
LEMMA ResolvesInstruction ==
    ASSUME IInv, NEW i \in LinkedCode, i.op # "NEW"
    PROVE  \E s \in Activations :
              /\ Resolve(i) = <<s>> /\ ~IsLinking(s) /\ s.op # "class"
              /\ Serves(s, i) \/ IsMissed(i)
              /\ HasPurpose(s) \/ (s.op = "field" /\ s.c = i.c /\ Executes("GETSTATIC", s.c, s.m))
<1>1. i.c \in Classes /\ i.m \in Names /\ i \in Instructions /\ RefersToMember(program, i)
  BY LinkedCodeIsCompiled
<1>2. /\ i.op = "INVOKEVIRTUAL" => Resolve(i) = <<ResolveVirtual(i.c, i.m)>>
      /\ i.op = "INVOKESPECIAL" => Resolve(i) = <<Private(i.c, i.m)>>
      /\ i.op = "INVOKESTATIC" => Resolve(i) = <<Static(i.c, i.m)>>
      /\ i.op = "GETSTATIC" => Resolve(i) = <<Field(i.c, i.m)>>
  BY DEF Resolve
<1>3. i.c \in ProgramAbove(program, i.c)
  BY <1>1, AboveItself
<1>4. CASE i.op = "INVOKEVIRTUAL"
  <2>1. PICK s : s = ResolveVirtual(i.c, i.m)
    OBVIOUS
  <2>2. s.op = "virtual" /\ s.c = i.c /\ s.m = i.m /\ s \in Activations
    BY <1>1, <2>1 DEF ResolveVirtual, Activations
  <2>3. DeclaredAbove(i.c, i.m)
    BY <1>1, <1>4 DEF RefersToMember, DeclaredAbove, Declares, ClassFiles
  <2>4. Serves(s, i)
    BY <1>3, <1>4, <2>2, <2>3 DEF Serves, ServesVirtual, Leads
  <2>5. Searched(i.c, i.m)
    BY <1>3, <1>4 DEF Searched
  <2> QED BY <1>2, <1>4, <2>1, <2>2, <2>4, <2>5 DEF HasPurpose, IsLinking
<1>5. CASE i.op = "INVOKESPECIAL"
  <2>1. PICK s : s = Private(i.c, i.m)
    OBVIOUS
  <2>2. s.op = "private" /\ s.c = i.c /\ s.m = i.m /\ s \in Activations
    BY <1>1, <2>1 DEF Private, Activations
  <2>3. Serves(s, i) \/ IsMissed(i)
    BY <1>5, <2>2 DEF Serves, ServesAlone, IsMissed, IsInherited
  <2>4. Declares(i.c, i.m) => ClassFiles.methods[i.c][i.m] # "static"
    BY <1>1, <1>5 DEF RefersToMember, Declares, ClassFiles
  <2> QED BY <1>2, <1>5, <2>1, <2>2, <2>3, <2>4 DEF HasPurpose, IsLinking
<1>6. CASE i.op = "INVOKESTATIC"
  <2>1. PICK s : s = Static(i.c, i.m)
    OBVIOUS
  <2>2. s.op = "static" /\ s.c = i.c /\ s.m = i.m /\ s \in Activations
    BY <1>1, <2>1 DEF Static, Activations
  <2>3. Serves(s, i)
    BY <1>6, <2>2 DEF Serves, ServesAlone
  <2>4. Declares(i.c, i.m) => ClassFiles.methods[i.c][i.m] = "static"
    BY <1>1, <1>6 DEF RefersToMember, ClassFiles, Declares
  <2>5. Executes("INVOKESTATIC", i.c, i.m)
    BY <1>6 DEF Executes
  <2> QED BY <1>2, <1>6, <2>1, <2>2, <2>3, <2>4, <2>5 DEF HasPurpose, IsLinking
<1>7. CASE i.op = "GETSTATIC"
  <2>1. PICK s : s = Field(i.c, i.m)
    OBVIOUS
  <2>2. s.op = "field" /\ s.c = i.c /\ s.m = i.m /\ s \in Activations
    BY <1>1, <2>1 DEF Field, Activations
  <2>3. Serves(s, i)
    BY <1>7, <2>2 DEF Serves, ServesAlone
  <2>4. Executes("GETSTATIC", i.c, i.m)
    BY <1>7 DEF Executes
  <2> QED BY <1>2, <1>7, <2>1, <2>2, <2>3, <2>4 DEF HasPurpose, IsLinking
<1> QED BY <1>1, <1>4, <1>5, <1>6, <1>7 DEF Instructions

LEMMA NextInstructionResolves ==
    ASSUME IInv, IInv', ResolvesInv, NextInstruction
    PROVE  ResolvesInv'
<1>1. PICK h, c, m, n, i : /\ h = Head(todo) /\ c = h.c /\ m = h.m /\ n = h.n
                           /\ i = ClassFiles.code[c][m][n]
  OBVIOUS
<1>2. /\ todo # <<>> /\ h.op = "body" /\ phase \in {"link", "abstract"}
      /\ Call(IF n \in DOMAIN ClassFiles.code[c][m]
              THEN <<ResolveClass(i.c)>> \o Resolve(i) \o <<Body(c, m, n + 1)>>
              ELSE <<>>)
      /\ UNCHANGED <<program, order, extends, implements, provides, fields, phase>>
  BY <1>1 DEF NextInstruction, Top
<1>3. c \in Classes /\ m \in Names /\ n \in Nat /\ <<c, m>> \in provides
  BY <1>1, <1>2, HeadHasPurpose DEF Activations, IsJustified
<1>4. h.op # "class" /\ ~IsLinking(h)
  BY <1>2 DEF IsLinking
<1>5. \A j : ~Serves(h, j)
  BY <1>2 DEF Serves, ServesVirtual, ServesAlone
<1>6. CASE n \notin DOMAIN ClassFiles.code[c][m]
  BY <1>1, <1>2, <1>4, <1>5, <1>6, QuietReturn DEF Return
<1>7. CASE n \in DOMAIN ClassFiles.code[c][m]
  <2>1. PICK a, b, rs, as : /\ a = ResolveClass(i.c) /\ b = Body(c, m, n + 1)
                            /\ rs = Resolve(i) /\ as = (<<a>> \o rs) \o <<b>>
    OBVIOUS
  <2>2. Call(as)
    BY <1>2, <1>7, <2>1
  <2>3. i \in LinkedCode /\ i.c \in Classes /\ i.m \in Names /\ i \in Instructions
    <3>1. PICK x \in provides : x = <<c, m>>
      BY <1>3
    <3>2. x[1] = c /\ x[2] = m
      BY <3>1
    <3>3. i \in LinkedCode
      BY <1>1, <1>7, <3>2, CodeIsLinked
    <3> QED BY <3>3, LinkedCodeIsCompiled
  <2>4. a \in Activations /\ a.op = "class" /\ b \in Activations /\ b.op = "body"
    BY <1>3, <2>1, <2>3 DEF ResolveClass, Body, Activations
  <2>5. ~IsLinking(a) /\ HasPurpose(a)' /\ ~IsLinking(b) /\ HasPurpose(b)'
    BY <2>4 DEF IsLinking, HasPurpose
  <2>6. Grows /\ LinksHead /\ todo \in Seq(Activations)
    BY <1>1, <1>2, <1>4 DEF Grows, Linked, LinksHead, IInv, TypeOK
  <2>7. \/ i.op = "NEW" /\ rs = <<>>
        \/ /\ i.op # "NEW"
           /\ \E s \in Activations :
                 /\ rs = <<s>> /\ ~IsLinking(s)
                 /\ Serves(s, i) \/ IsMissed(i)
                 /\ HasPurpose(s) \/ (s.op = "field" /\ s.c = i.c /\ Executes("GETSTATIC", s.c, s.m))
    <3>1. i.op = "NEW" => Resolve(i) = <<>>
      BY DEF Resolve
    <3> QED BY <2>1, <2>3, <3>1, ResolvesInstruction
  <2>8. rs \in Seq(Activations) /\ Len(rs) <= 1 /\ Len(rs) \in Nat
    <3>1. \A s \in Activations : <<s>> \in Seq(Activations) /\ Len(<<s>>) = 1
      OBVIOUS
    <3>2. <<>> \in Seq(Activations) /\ Len(<<>>) = 0
      BY EmptySeq
    <3>3. rs = <<>> \/ \E s \in Activations : rs = <<s>>
      BY <2>7
    <3>4. CASE rs = <<>>
      BY <3>2, <3>4
    <3>5. ASSUME NEW s \in Activations, rs = <<s>>
          PROVE  rs \in Seq(Activations) /\ Len(rs) <= 1 /\ Len(rs) \in Nat
      BY <3>1, <3>5
    <3> QED BY <3>3, <3>4, <3>5
  <2>9. /\ rs = <<>> => Len(rs) = 0
        /\ \A s : rs = <<s>> => Len(rs) = 1 /\ rs[1] = s
    OBVIOUS
  <2>10. /\ as \in Seq(Activations) /\ as[1] = a
         /\ rs = <<>> => DOMAIN as = {1, 2} /\ as[2] = b
         /\ \A s : rs = <<s>> => DOMAIN as = {1, 2, 3} /\ as[2] = s /\ as[3] = b
    <3>1. as \in Seq(Activations) /\ IsBetween(as, a, rs, b)
      BY <2>1, <2>4, <2>8, Between
    <3> QED BY <2>9, <3>1 DEF IsBetween
  <2>11. 1 \in DOMAIN as /\ \E j \in DOMAIN as : as[j] = b
    <3>1. CASE rs = <<>>
      BY <2>10, <3>1
    <3>2. ASSUME NEW s, rs = <<s>> PROVE 1 \in DOMAIN as /\ \E j \in DOMAIN as : as[j] = b
      BY <2>10, <3>2
    <3> QED BY <2>7, <3>1, <3>2
  <2>12. Asked(i.c)'
    <3>1. todo' # <<>> /\ Head(todo') = a
      BY <1>2, <2>2, <2>6, <2>10, <2>11, NewHead
    <3> QED BY <2>1, <3>1 DEF Asked, ResolveClass
  <2>13. OnStack(b)'
    BY <1>2, <2>2, <2>6, <2>10, <2>11, PushedOnStack
  <2>14. \A j \in DOMAIN as : ~IsLinking(as[j]) /\ HasPurpose(as[j])'
    <3>1. CASE rs = <<>>
      <4>1. DOMAIN as = {1, 2} /\ as[1] = a /\ as[2] = b
        BY <2>10, <3>1
      <4> QED BY <2>5, <4>1
    <3>2. ASSUME NEW s \in Activations, rs = <<s>>, ~IsLinking(s),
                 HasPurpose(s) \/ (s.op = "field" /\ s.c = i.c /\ Executes("GETSTATIC", s.c, s.m))
          PROVE  \A j \in DOMAIN as : ~IsLinking(as[j]) /\ HasPurpose(as[j])'
      <4>1. DOMAIN as = {1, 2, 3} /\ as[1] = a /\ as[2] = s /\ as[3] = b
        BY <2>10, <3>2
      <4>2. HasPurpose(s)'
        <5>1. CASE HasPurpose(s)
          BY <2>6, <5>1, PurposeStays
        <5>2. CASE s.op = "field" /\ s.c = i.c /\ Executes("GETSTATIC", s.c, s.m)
          <6>1. Executes("GETSTATIC", s.c, s.m)'
            BY <2>6, <5>2, ExecutesStays
          <6>2. Asked(s.c)'
            BY <2>12, <5>2 DEF Asked
          <6> QED BY <5>2, <6>1, <6>2 DEF HasPurpose
        <5> QED BY <3>2, <5>1, <5>2
      <4> QED BY <2>5, <3>2, <4>1, <4>2
    <3> QED BY <2>7, <3>1, <3>2
  <2>15. IsHandled(i)'
    <3>1. CASE i.op = "NEW"
      BY <2>12, <3>1 DEF IsHandled, IsLinkedAbove
    <3>2. ASSUME NEW s, rs = <<s>>, Serves(s, i) PROVE IsServed(i)'
      <4>1. \E j \in DOMAIN as : as[j] = s
        BY <2>10, <3>2
      <4>2. OnStack(s)'
        BY <1>2, <2>2, <2>6, <2>10, <4>1, PushedOnStack
      <4>3. Serves(s, i)'
        BY <1>2, <3>2, SameProgram
      <4> QED BY <4>2, <4>3 DEF OnStack, IsServed
    <3>3. IsMissed(i)' <=> IsMissed(i)
      BY <1>2, SameProgram
    <3>4. CASE i.op # "NEW"
      BY <2>7, <2>12, <3>2, <3>3, <3>4 DEF IsHandled
    <3> QED BY <3>1, <3>4
  <2>16. provides' = provides /\ fields' = fields
    BY <1>2
  <2>17. h.op = "body" /\ h.n \in DOMAIN ClassFiles.code[h.c][h.m] =>
            /\ \A j : j = ClassFiles.code[h.c][h.m][h.n] => IsHandled(j)'
            /\ OnStack(Body(h.c, h.m, h.n + 1))'
    <3>1. \A j : j = ClassFiles.code[h.c][h.m][h.n] => j = i
      BY <1>1
    <3>2. OnStack(Body(h.c, h.m, h.n + 1))'
      BY <1>1, <2>1, <2>13
    <3> QED BY <2>15, <3>1, <3>2
  <2> QED BY <1>1, <1>2, <1>4, <1>5, <2>2, <2>10, <2>14, <2>16, <2>17, QuietCall
<1> QED BY <1>6, <1>7

(***************************************************************************)
(* The abstract methods.                                                   *)
(***************************************************************************)
LEMMA NextClassResolves ==
    ASSUME IInv, IInv', ResolvesInv, NextClass
    PROVE  ResolvesInv'
<1>1. PICK h, n, size, c, cs, len :
         /\ h = Head(todo) /\ n = h.n /\ size = h.size
         /\ c = order[n] /\ cs = Above(c) \ {c} /\ len = Len(order)
  OBVIOUS
<1>2. /\ todo # <<>> /\ h.op = "inherit" /\ phase \in {"link", "abstract"}
      /\ Call(IF n <= size THEN <<Hierarchy(c, cs), Inherit(n + 1, size)>>
              ELSE IF len # size THEN <<Inherit(1, len)>>
              ELSE <<>>)
      /\ UNCHANGED <<program, order, extends, implements, provides, fields, phase>>
  BY <1>1 DEF NextClass, Top
<1>3. h.op # "class" /\ ~IsLinking(h) /\ h.op # "body" /\ \A i : ~Serves(h, i)
  BY <1>2 DEF IsLinking, Serves, ServesVirtual, ServesAlone
<1>4. /\ n \in Nat /\ size \in Nat /\ 1 <= n /\ size <= len /\ len \in Nat
      /\ order \in Seq(Classes) /\ DOMAIN order = 1 .. len
  BY <1>1, <1>2, HeadHasPurpose DEF Activations, IsJustified, IInv, TypeOK
<1>5. CASE n <= size
  <2>1. PICK as, a, b : a = Hierarchy(c, cs) /\ b = Inherit(n + 1, size) /\ as = <<a, b>>
    OBVIOUS
  <2>2. c \in Classes /\ cs \subseteq Classes
    <3>1. n \in DOMAIN order
      BY <1>4, <1>5
    <3> QED BY <1>1, <1>4, <3>1, ClosureIn DEF Above
  <2>3. a \in Activations /\ b \in Activations /\ a.op = "hierarchy" /\ b.op = "inherit"
    BY <1>4, <2>1, <2>2 DEF Hierarchy, Inherit, Activations
  <2>4. as \in Seq(Activations) /\ Call(as) /\ DOMAIN as = {1, 2} /\ as[1] = a /\ as[2] = b
    BY <1>2, <1>5, <2>1, <2>3
  <2>5. ~IsLinking(a) /\ HasPurpose(a)' /\ ~IsLinking(b) /\ HasPurpose(b)'
    BY <2>3 DEF IsLinking, HasPurpose
  <2>6. \A j \in DOMAIN as : ~IsLinking(as[j]) /\ HasPurpose(as[j])'
    BY <2>4, <2>5
  <2> QED BY <1>1, <1>2, <1>3, <2>4, <2>6, QuietCall
<1>6. CASE ~(n <= size) /\ len # size
  <2>1. PICK as, a : a = Inherit(1, len) /\ as = <<a>>
    OBVIOUS
  <2>2. a \in Activations /\ a.op = "inherit"
    BY <1>4, <2>1 DEF Inherit, Activations
  <2>3. as \in Seq(Activations) /\ Call(as) /\ DOMAIN as = {1} /\ as[1] = a
    BY <1>2, <1>6, <2>1, <2>2
  <2>4. ~IsLinking(a) /\ HasPurpose(a)'
    BY <2>2 DEF IsLinking, HasPurpose
  <2>5. \A j \in DOMAIN as : ~IsLinking(as[j]) /\ HasPurpose(as[j])'
    BY <2>3, <2>4
  <2> QED BY <1>1, <1>2, <1>3, <2>3, <2>5, QuietCall
<1>7. CASE ~(n <= size) /\ len = size
  BY <1>1, <1>2, <1>3, <1>7, QuietReturn DEF Return
<1> QED BY <1>5, <1>6, <1>7

LEMMA NextOfHierarchyResolves ==
    ASSUME IInv, IInv', ResolvesInv, NextOfHierarchy
    PROVE  ResolvesInv'
<1>1. PICK h, c, cs : h = Head(todo) /\ c = h.c /\ cs = h.cs
  OBVIOUS
<1>2. /\ todo # <<>> /\ h.op = "hierarchy" /\ phase \in {"link", "abstract"}
      /\ \/ cs = {} /\ Return
         \/ \E d \in cs : Call(<<Abstracts(c, AbstractMethodsOf(d)), Hierarchy(c, cs \ {d})>>)
      /\ UNCHANGED <<program, order, extends, implements, provides, fields, phase>>
  BY <1>1 DEF NextOfHierarchy, Top
<1>3. h.op # "class" /\ ~IsLinking(h) /\ h.op # "body" /\ \A i : ~Serves(h, i)
  BY <1>2 DEF IsLinking, Serves, ServesVirtual, ServesAlone
<1>4. c \in Classes /\ cs \subseteq Classes /\ cs \subseteq ProgramAbove(program, c)
  BY <1>1, <1>2, HeadHasPurpose DEF Activations, IsJustified
<1>5. CASE cs = {} /\ Return
  BY <1>1, <1>2, <1>3, <1>5, QuietReturn
<1>6. ASSUME NEW d \in cs,
             Call(<<Abstracts(c, AbstractMethodsOf(d)), Hierarchy(c, cs \ {d})>>)
      PROVE  ResolvesInv'
  <2>1. PICK as, a, b, ms : /\ ms = AbstractMethodsOf(d) /\ a = Abstracts(c, ms)
                            /\ b = Hierarchy(c, cs \ {d}) /\ as = <<a, b>>
    OBVIOUS
  <2>2. /\ a \in Activations /\ b \in Activations /\ b.op = "hierarchy"
        /\ a.op = "abstracts" /\ a.c = c /\ a.ms = ms
    BY <1>4, <2>1 DEF Hierarchy, Abstracts, AbstractMethodsOf, Activations
  <2>3. as \in Seq(Activations) /\ Call(as) /\ DOMAIN as = {1, 2} /\ as[1] = a /\ as[2] = b
    BY <1>6, <2>1, <2>2
  <2>4. ASSUME NEW m \in ms PROVE \E e \in ProgramAbove(program, c) : IsAbstract(e, m)
    <3>1. PICK e \in Above(d) : IsAbstract(e, m)
      BY <2>1 DEF AbstractMethodsOf
    <3>2. e \in ProgramAbove(program, d)
      BY <1>4, <3>1, AboveIsAbove
    <3>3. e \in ProgramAbove(program, c)
      BY <1>4, <3>2, AboveTransitive
    <3> QED BY <3>1, <3>3
  <2>5. HasPurpose(a)
    BY <2>2, <2>4 DEF HasPurpose
  <2>6. HasPurpose(a)'
    <3>1. Grows /\ LinksHead
      BY <1>1, <1>2, <1>3 DEF Grows, LinksHead, Linked
    <3> QED BY <2>5, <3>1, PurposeStays
  <2>7. ~IsLinking(a) /\ ~IsLinking(b) /\ HasPurpose(b)'
    BY <2>2 DEF IsLinking, HasPurpose
  <2>8. \A j \in DOMAIN as : ~IsLinking(as[j]) /\ HasPurpose(as[j])'
    BY <2>3, <2>6, <2>7
  <2> QED BY <1>1, <1>2, <1>3, <2>3, <2>8, QuietCall
<1> QED BY <1>2, <1>5, <1>6

LEMMA NextAbstractResolves ==
    ASSUME IInv, IInv', ResolvesInv, NextAbstract
    PROVE  ResolvesInv'
<1>1. PICK h, c, ms : h = Head(todo) /\ c = h.c /\ ms = h.ms
  OBVIOUS
<1>2. /\ todo # <<>> /\ h.op = "abstracts" /\ phase \in {"link", "abstract"}
      /\ \/ ms = {} /\ Return
         \/ \E m \in ms : Call(<<ResolveVirtual(c, m), Abstracts(c, ms \ {m})>>)
      /\ UNCHANGED <<program, order, extends, implements, provides, fields, phase>>
  BY <1>1 DEF NextAbstract, Top
<1>3. h.op # "class" /\ ~IsLinking(h) /\ h.op # "body" /\ \A i : ~Serves(h, i)
  BY <1>2 DEF IsLinking, Serves, ServesVirtual, ServesAlone
<1>4. /\ c \in Classes /\ ms \subseteq Names
      /\ \A m \in ms : \E e \in ProgramAbove(program, c) : IsAbstract(e, m)
  BY <1>1, <1>2, HeadHasPurpose DEF Activations, HasPurpose
<1>5. CASE ms = {} /\ Return
  BY <1>1, <1>2, <1>3, <1>5, QuietReturn
<1>6. ASSUME NEW m \in ms, Call(<<ResolveVirtual(c, m), Abstracts(c, ms \ {m})>>)
      PROVE  ResolvesInv'
  <2>1. PICK as, a, b, ns : /\ ns = ms \ {m} /\ a = ResolveVirtual(c, m)
                            /\ b = Abstracts(c, ns) /\ as = <<a, b>>
    OBVIOUS
  <2>2. /\ a \in Activations /\ a.op = "virtual" /\ a.c = c /\ a.m = m
        /\ b \in Activations /\ b.op = "abstracts" /\ b.c = c /\ b.ms = ns
    BY <1>4, <2>1 DEF ResolveVirtual, Abstracts, Activations
  <2>3. as \in Seq(Activations) /\ Call(as) /\ DOMAIN as = {1, 2} /\ as[1] = a /\ as[2] = b
    BY <1>6, <2>1, <2>2
  <2>4. Searched(c, m)
    BY <1>4, AboveItself DEF Searched
  <2>5. HasPurpose(a)
    BY <2>2, <2>4 DEF HasPurpose
  <2>6. HasPurpose(b)
    BY <1>4, <2>1, <2>2 DEF HasPurpose
  <2>7. HasPurpose(a)' /\ HasPurpose(b)'
    <3>1. Grows /\ LinksHead
      BY <1>1, <1>2, <1>3 DEF Grows, LinksHead, Linked
    <3> QED BY <2>5, <2>6, <3>1, PurposeStays
  <2>8. ~IsLinking(a) /\ ~IsLinking(b)
    BY <2>2 DEF IsLinking
  <2>9. \A j \in DOMAIN as : ~IsLinking(as[j]) /\ HasPurpose(as[j])'
    BY <2>3, <2>7, <2>8
  <2> QED BY <1>1, <1>2, <1>3, <2>3, <2>9, QuietCall
<1> QED BY <1>2, <1>5, <1>6

(***************************************************************************)
(* Classes.                                                                *)
(***************************************************************************)
LEMMA FindClassResolves ==
    ASSUME IInv, IInv', ResolvesInv, FindClass
    PROVE  ResolvesInv'
<1>1. PICK h, as : h = Head(todo) /\ as = <<>>
  OBVIOUS
<1>2. /\ todo # <<>> /\ h.op = "class" /\ h.c \in Linked /\ phase \in {"link", "abstract"}
      /\ as \in Seq(Activations) /\ DOMAIN as = {} /\ Call(as)
      /\ UNCHANGED <<program, order, extends, implements, provides, fields, phase>>
  BY <1>1, EmptySeq DEF FindClass, Top, Return
<1>3. Linked' = Linked /\ Grows /\ LinksHead
  BY <1>1, <1>2 DEF Linked, Grows, LinksHead
<1>4. IsNested(todo)'
  BY <1>2, CallKeepsNesting DEF ResolvesInv
<1>5. EdgesCome'
  <2>1. \A c, n : h # LinkSuper(c) /\ h # Implement(c, n) /\ h # LinkInterfaces(c, n)
    BY <1>2 DEF LinkSuper, Implement, LinkInterfaces
  <2> QED BY <1>1, <1>2, <1>3, <2>1, CallKeepsEdgesComing DEF ResolvesInv
<1>6. EdgesLead'
  BY <1>2, <1>3, CallKeepsEdgesLeading DEF ResolvesInv
<1> QED BY <1>1, <1>2, <1>3, <1>4, <1>5, <1>6, LinkingCall

LEMMA AddSuperResolves ==
    ASSUME IInv, IInv', ResolvesInv, AddSuper
    PROVE  ResolvesInv'
<1>1. PICK h, c, s, as : h = Head(todo) /\ c = h.c /\ s = Super(c) /\ as = <<>>
  OBVIOUS
<1>2. /\ todo # <<>> /\ h.op = "super" /\ phase \in {"link", "abstract"}
      /\ extends' = extends \union {<<c, s>>}
      /\ as \in Seq(Activations) /\ DOMAIN as = {} /\ Call(as)
      /\ UNCHANGED <<program, order, implements, provides, fields, phase>>
  BY <1>1, EmptySeq DEF AddSuper, Top, Return, Super
<1>3. /\ Linked' = Linked /\ Grows /\ LinksHead /\ extends \subseteq extends'
      /\ IsLinking(h)
  BY <1>1, <1>2 DEF Linked, Grows, LinksHead, IsLinking
<1>4. c \in Classes /\ s # None /\ OnStack(h) /\ h = LinkSuper(c)
  <2>1. h \in Activations /\ IsJustified(h) /\ OnStack(h)
    BY <1>1, <1>2, HeadHasPurpose
  <2>2. h = [op |-> "super", c |-> c]
    BY <1>1, <1>2, <2>1 DEF Activations
  <2> QED BY <1>1, <1>2, <2>1, <2>2 DEF Activations, IsJustified, LinkSuper, Super
<1>5. s \in Linked'
  <2>1. Asked(s)
    BY <1>1, <1>4 DEF ResolvesInv, EdgesLead
  <2> QED BY <1>3, <2>1, AskedStays
<1>6. IsNested(todo)'
  BY <1>2, CallKeepsNesting DEF ResolvesInv
<1>7. EdgesCome'
  <2>1. \A d, n : h # Implement(d, n) /\ h # LinkInterfaces(d, n)
    BY <1>2 DEF Implement, LinkInterfaces
  <2>2. \A d : h = LinkSuper(d) => <<d, Super(d)>> \in extends'
    BY <1>1, <1>2 DEF LinkSuper
  <2> QED BY <1>1, <1>2, <1>3, <2>1, <2>2, CallKeepsEdgesComing DEF ResolvesInv
<1>8. EdgesLead'
  <2>1. \A e \in extends' \ extends : e[2] = Super(e[1]) /\ e[2] # None /\ e[2] \in Linked'
    <3> SUFFICES ASSUME NEW e, e = <<c, s>>
                 PROVE  e[2] = Super(e[1]) /\ e[2] # None /\ e[2] \in Linked'
      BY <1>2
    <3>1. e[1] = c /\ e[2] = s
      OBVIOUS
    <3> QED BY <1>1, <1>4, <1>5, <3>1
  <2> QED BY <1>2, <1>3, <2>1, CallKeepsEdgesLeading DEF ResolvesInv
<1> QED BY <1>1, <1>2, <1>3, <1>6, <1>7, <1>8, LinkingCall

LEMMA AddInterfaceResolves ==
    ASSUME IInv, IInv', ResolvesInv, AddInterface
    PROVE  ResolvesInv'
<1>1. PICK h, c, n, s, as : /\ h = Head(todo) /\ c = h.c /\ n = h.n
                            /\ s = Interfaces(c)[n] /\ as = <<>>
  OBVIOUS
<1>2. /\ todo # <<>> /\ h.op = "implements" /\ phase \in {"link", "abstract"}
      /\ implements' = implements \union {<<c, s>>}
      /\ as \in Seq(Activations) /\ DOMAIN as = {} /\ Call(as)
      /\ UNCHANGED <<program, order, extends, provides, fields, phase>>
  BY <1>1, EmptySeq DEF AddInterface, Top, Return, Interfaces
<1>3. /\ Linked' = Linked /\ Grows /\ LinksHead /\ implements \subseteq implements'
      /\ IsLinking(h)
  BY <1>1, <1>2 DEF Linked, Grows, LinksHead, IsLinking
<1>4. c \in Classes /\ n \in DOMAIN Interfaces(c) /\ OnStack(h) /\ h = Implement(c, n)
  <2>1. h \in Activations /\ IsJustified(h) /\ OnStack(h)
    BY <1>1, <1>2, HeadHasPurpose
  <2>2. h = [op |-> "implements", c |-> c, n |-> n]
    BY <1>1, <1>2, <2>1 DEF Activations
  <2> QED BY <1>1, <1>2, <2>1, <2>2 DEF Activations, IsJustified, Implement, Interfaces
<1>5. s \in Linked'
  <2>1. Asked(s)
    BY <1>1, <1>4 DEF ResolvesInv, EdgesLead
  <2> QED BY <1>3, <2>1, AskedStays
<1>6. IsNested(todo)'
  BY <1>2, CallKeepsNesting DEF ResolvesInv
<1>7. EdgesCome'
  <2>1. \A d, k : h # LinkSuper(d) /\ h # LinkInterfaces(d, k)
    BY <1>2 DEF LinkSuper, LinkInterfaces
  <2>2. \A d, k : h = Implement(d, k) => d = c /\ k = n
    BY <1>1 DEF Implement
  <2>3. \A d, k : h = Implement(d, k) => <<d, Interfaces(d)[k]>> \in implements'
    BY <1>1, <1>2, <2>2
  <2>4. EdgesCome /\ extends \subseteq extends' /\ UNCHANGED program
    BY <1>2 DEF ResolvesInv
  <2>5. \A d \in Classes :
            /\ h = LinkSuper(d) => <<d, Super(d)>> \in extends'
            /\ \A k \in DOMAIN Interfaces(d) :
                  /\ h = Implement(d, k) => <<d, Interfaces(d)[k]>> \in implements'
                  /\ \A l \in 1 .. k : h = LinkInterfaces(d, l) =>
                        IF l = k THEN OnStack(Implement(d, k))'
                        ELSE OnStack(LinkInterfaces(d, l + 1))'
    BY <2>1, <2>3
  <2>6. /\ todo # <<>> /\ h = Head(todo) /\ as \in Seq(Activations) /\ Call(as)
        /\ implements \subseteq implements' /\ Linked' \ Linked = {}
    BY <1>1, <1>2, <1>3
  <2> QED BY <2>4, <2>5, <2>6, CallKeepsEdgesComing
<1>8. EdgesLead'
  <2>1. \A e \in implements' \ implements : e[2] \in Linked'
    <3> SUFFICES ASSUME NEW e, e = <<c, s>>
                 PROVE  e[2] \in Linked'
      BY <1>2
    <3>1. e[2] = s
      OBVIOUS
    <3> QED BY <1>5, <3>1
  <2> QED BY <1>2, <1>3, <2>1, CallKeepsEdgesLeading DEF ResolvesInv
<1> QED BY <1>1, <1>2, <1>3, <1>6, <1>7, <1>8, LinkingCall

LEMMA JoinPairs ==
    ASSUME NEW S, NEW a \in S, NEW b \in S, NEW x \in S, NEW y \in S
    PROVE  <<a, b>> \o <<x, y>> = <<a, b, x, y>>
<1>1. PICK u, v, t : u = <<a, b>> /\ v = <<x, y>> /\ t = u \o v
  OBVIOUS
<1>2. /\ u \in Seq(S) /\ v \in Seq(S) /\ Len(u) = 2 /\ Len(v) = 2
      /\ u[1] = a /\ u[2] = b /\ v[1] = x /\ v[2] = y
  BY <1>1
<1>3. /\ t \in Seq(S) /\ Len(t) = 4
      /\ \A i \in 1 .. 4 : t[i] = IF i <= 2 THEN u[i] ELSE v[i - 2]
  BY <1>1, <1>2, ConcatProperties
<1>4. t[1] = u[1] /\ t[2] = u[2] /\ t[3] = v[1] /\ t[4] = v[2]
  <2>1. \A i \in 1 .. 4 : t[i] = IF i <= 2 THEN u[i] ELSE v[i - 2]
    BY <1>3
  <2> QED BY ONLY <2>1
<1>5. t = <<a, b, x, y>>
  BY <1>2, <1>3, <1>4
<1> QED BY <1>1, <1>5

(* A linking step pushes what is under the same classes.                   *)
LEMMA LinkingNests ==
    ASSUME IInv, IsNested(todo), todo # <<>>, UNCHANGED program,
           NEW as \in Seq(Activations), Call(as),
           NEW c \in Classes, c = Head(todo).c,
           \A j \in DOMAIN as : IsUnder(as[j], c) /\ (IsLinking(as[j]) => as[j].c = c)
    PROVE  IsNested(todo)'
<1>1. \A j \in DOMAIN as : MustNest(as[j]) => \A i \in 1 .. j - 1 : IsUnder(as[i], as[j].c)
  <2> SUFFICES ASSUME NEW j \in DOMAIN as, MustNest(as[j]), NEW i \in 1 .. j - 1
               PROVE  IsUnder(as[i], as[j].c)
    OBVIOUS
  <2>1. as[j].c = c
    BY DEF MustNest
  <2>2. PICK l \in Nat : DOMAIN as = 1 .. l
    BY LenProperties
  <2>3. i \in 1 .. l
    <3>1. j \in 1 .. l /\ i \in 1 .. j - 1
      BY <2>2
    <3> QED BY ONLY <3>1, l \in Nat
  <2> QED BY <2>1, <2>2, <2>3
<1>2. ASSUME NEW d \in Classes, IsUnder(Head(todo), d), NEW j \in DOMAIN as
      PROVE  IsUnder(as[j], d)
  <2>1. c \in ProgramAbove(program, d)
    BY <1>2 DEF IsUnder
  <2>2. as[j].op = "class" \/ IsLinking(as[j])
    BY DEF IsUnder
  <2>3. as[j].c \in ProgramAbove(program, c)
    BY DEF IsUnder
  <2>4. as[j].c \in ProgramAbove(program, d)
    BY <2>1, <2>3, AboveTransitive
  <2> QED BY <2>2, <2>4 DEF IsUnder
<1> QED BY <1>1, <1>2, CallKeepsNesting

LEMMA InitializeClassResolves ==
    ASSUME IInv, IInv', ResolvesInv, InitializeClass
    PROVE  ResolvesInv'
<1>1. PICK h, c, a, as :
         /\ h = Head(todo) /\ c = h.c /\ a = Static(c, "<clinit>")
         /\ as = IF Declares(c, "<clinit>") THEN <<a>> ELSE <<>>
  OBVIOUS
<1>2. /\ todo # <<>> /\ h.op = "clinit" /\ phase \in {"link", "abstract"} /\ Call(as)
      /\ UNCHANGED <<program, order, extends, implements, provides, fields, phase>>
  BY <1>1 DEF InitializeClass, Top
<1>3. c \in Classes
  BY <1>1, <1>2, HeadHasPurpose DEF Activations
<1>4. a \in Activations /\ a.op = "static" /\ a.c = c /\ a.m = "<clinit>"
  BY <1>1, <1>3, ProgramAssumption DEF Static, Activations
<1>5. /\ as \in Seq(Activations)
      /\ \A j \in DOMAIN as : as[j] = a /\ Declares(c, "<clinit>")
  <2>1. CASE Declares(c, "<clinit>")
    <3>1. as = <<a>>
      BY <1>1, <2>1
    <3> QED BY <1>4, <2>1, <3>1
  <2>2. CASE ~Declares(c, "<clinit>")
    <3>1. as = <<>>
      BY <1>1, <2>2
    <3> QED BY <3>1, EmptySeq
  <2> QED BY <2>1, <2>2
<1>6. Linked' = Linked /\ Grows /\ LinksHead /\ IsLinking(h) /\ ~IsLinking(a)
  BY <1>1, <1>2, <1>4 DEF Linked, Grows, LinksHead, IsLinking
<1>7. \A j \in DOMAIN as : HasPurpose(as[j])'
  <2> SUFFICES ASSUME Declares(c, "<clinit>") PROVE HasPurpose(a)'
    BY <1>5
  <2>1. IsCompiled(program)
    BY CompiledAssumption DEF IInv, TypeOK
  <2>2. ClassFiles.methods[c]["<clinit>"] = "static"
    BY <1>3, <2>1 DEF IsCompiled, Declares, ClassFiles
  <2>3. HasPurpose(a)
    BY <1>4, <2>2 DEF HasPurpose
  <2> QED BY <1>6, <2>3, PurposeStays
<1>8. IsNested(todo)'
  <2>1. \A j \in DOMAIN as : ~MustNest(as[j])
    BY <1>5, <1>6 DEF MustNest
  <2>2. \A d \in Classes : IsUnder(Head(todo), d) /\ ~HasInitializerAbove(d) => DOMAIN as = {}
    BY <1>1, <1>5 DEF IsUnder, HasInitializerAbove
  <2> QED BY <1>2, <1>5, <2>1, <2>2, CallKeepsNesting DEF ResolvesInv
<1>9. EdgesCome'
  <2>1. \A d, n : h # LinkSuper(d) /\ h # Implement(d, n) /\ h # LinkInterfaces(d, n)
    BY <1>2 DEF LinkSuper, Implement, LinkInterfaces
  <2>2. /\ EdgesCome /\ extends \subseteq extends' /\ implements \subseteq implements'
        /\ todo # <<>> /\ h = Head(todo) /\ as \in Seq(Activations) /\ Call(as)
        /\ UNCHANGED program /\ Linked' \ Linked = {}
    BY <1>1, <1>2, <1>5, <1>6 DEF ResolvesInv
  <2>3. \A d \in Classes :
            /\ h = LinkSuper(d) => <<d, Super(d)>> \in extends'
            /\ \A k \in DOMAIN Interfaces(d) :
                  /\ h = Implement(d, k) => <<d, Interfaces(d)[k]>> \in implements'
                  /\ \A l \in 1 .. k : h = LinkInterfaces(d, l) =>
                        IF l = k THEN OnStack(Implement(d, k))'
                        ELSE OnStack(LinkInterfaces(d, l + 1))'
    BY <2>1
  <2> QED BY <2>2, <2>3, CallKeepsEdgesComing
<1>10. EdgesLead'
  <2>1. \A d, n : a # LinkSuper(d) /\ a # Implement(d, n)
    BY <1>4 DEF LinkSuper, Implement
  <2> QED BY <1>2, <1>5, <1>6, <2>1, CallKeepsEdgesLeading DEF ResolvesInv
<1> QED BY <1>1, <1>2, <1>5, <1>6, <1>7, <1>8, <1>9, <1>10, LinkingCall

LEMMA NextInterfaceResolves ==
    ASSUME IInv, IInv', ResolvesInv, NextInterface
    PROVE  ResolvesInv'
<1>1. PICK h, c, n, s : h = Head(todo) /\ c = h.c /\ n = h.n /\ s = Interfaces(c)[n]
  OBVIOUS
<1>2. PICK a, b, e, as :
         /\ a = ResolveClass(s) /\ b = Implement(c, n) /\ e = LinkInterfaces(c, n + 1)
         /\ as = IF n \in DOMAIN Interfaces(c) THEN <<a, b, e>> ELSE <<>>
  OBVIOUS
<1>3. /\ todo # <<>> /\ h.op = "interfaces" /\ phase \in {"link", "abstract"} /\ Call(as)
      /\ UNCHANGED <<program, order, extends, implements, provides, fields, phase>>
  BY <1>1, <1>2 DEF NextInterface, Top, Interfaces
<1>4. c \in Classes /\ n \in Nat
  BY <1>1, <1>3, HeadHasPurpose DEF Activations
<1>5. /\ a.op = "class" /\ a.c = s /\ b.op = "implements" /\ b.c = c
      /\ e.op = "interfaces" /\ e.c = c
  BY <1>2 DEF ResolveClass, Implement, LinkInterfaces
<1>6. Linked' = Linked /\ Grows /\ LinksHead /\ IsLinking(h) /\ todo \in Seq(Activations)
  BY <1>1, <1>3 DEF Linked, Grows, LinksHead, IsLinking, IInv, TypeOK
<1>7. \A d, k : h = LinkInterfaces(d, k) => d = c /\ k = n
  BY <1>1 DEF LinkInterfaces
<1>8. \A d, k : h # LinkSuper(d) /\ h # Implement(d, k)
  BY <1>3 DEF LinkSuper, Implement
<1>9. CASE n \notin DOMAIN Interfaces(c)
  <2>1. as \in Seq(Activations) /\ DOMAIN as = {}
    BY <1>2, <1>9, EmptySeq
  <2>2. IsNested(todo)'
    BY <1>3, <2>1, CallKeepsNesting DEF ResolvesInv
  <2>3. EdgesCome'
    <3>1. ASSUME NEW d \in Classes, NEW k \in DOMAIN Interfaces(d), NEW l \in 1 .. k
          PROVE  h # LinkInterfaces(d, l)
      <4> SUFFICES ASSUME h = LinkInterfaces(d, l) PROVE FALSE
        OBVIOUS
      <4>1. d = c /\ l = n
        BY <1>7
      <4>2. Interfaces(c) \in Seq(Classes)
        BY <1>4, ClassFileTypes
      <4>3. DOMAIN Interfaces(c) = 1 .. Len(Interfaces(c)) /\ Len(Interfaces(c)) \in Nat
        BY <4>2, LenProperties
      <4>4. n \in DOMAIN Interfaces(c)
        BY <4>1, <4>3
      <4> QED BY <1>9, <4>4
    <3>2. Linked' \ Linked = {} /\ extends \subseteq extends' /\ implements \subseteq implements'
      BY <1>3, <1>6
    <3>3. \A d \in Classes :
              /\ h = LinkSuper(d) => <<d, Super(d)>> \in extends'
              /\ \A k \in DOMAIN Interfaces(d) :
                    /\ h = Implement(d, k) => <<d, Interfaces(d)[k]>> \in implements'
                    /\ \A l \in 1 .. k : h = LinkInterfaces(d, l) =>
                          IF l = k THEN OnStack(Implement(d, k))'
                          ELSE OnStack(LinkInterfaces(d, l + 1))'
      BY <1>8, <3>1
    <3>4. EdgesCome /\ UNCHANGED program /\ todo # <<>> /\ h = Head(todo) /\ Call(as)
      BY <1>1, <1>3 DEF ResolvesInv
    <3> QED BY <2>1, <3>2, <3>3, <3>4, CallKeepsEdgesComing
  <2>4. EdgesLead'
    BY <1>3, <1>6, <2>1, CallKeepsEdgesLeading DEF ResolvesInv
  <2> QED BY <1>1, <1>3, <1>6, <2>1, <2>2, <2>3, <2>4, LinkingCall
<1>10. CASE n \in DOMAIN Interfaces(c)
  <2>1. s \in Classes /\ s \in ProgramAbove(program, c) /\ c \in ProgramAbove(program, c)
    BY <1>1, <1>4, <1>10, InterfaceAbove, AboveItself
  <2>2. a \in Activations /\ b \in Activations /\ e \in Activations
    BY <1>2, <1>4, <2>1 DEF ResolveClass, Implement, LinkInterfaces, Activations
  <2>3. /\ as \in Seq(Activations) /\ DOMAIN as = {1, 2, 3}
        /\ as[1] = a /\ as[2] = b /\ as[3] = e
    BY <1>2, <1>10, <2>2
  <2>4. \A j \in DOMAIN as : HasPurpose(as[j])'
    <3>1. HasPurpose(a)' /\ HasPurpose(b)' /\ HasPurpose(e)'
      BY <1>5 DEF HasPurpose
    <3> QED BY <2>3, <3>1
  <2>5. IsNested(todo)'
    <3>1. IsUnder(a, c) /\ IsUnder(b, c) /\ IsUnder(e, c) /\ ~IsLinking(a)
      BY <1>5, <2>1 DEF IsUnder, IsLinking
    <3>2. \A j \in DOMAIN as : IsUnder(as[j], c) /\ (IsLinking(as[j]) => as[j].c = c)
      BY <1>5, <2>3, <3>1
    <3> QED BY <1>1, <1>3, <1>4, <2>3, <3>2, LinkingNests DEF ResolvesInv
  <2>6. EdgesCome'
    <3>1. OnStack(b)' /\ OnStack(e)'
      BY <1>3, <1>6, <2>3, PushedOnStack
    <3>2. ASSUME NEW d \in Classes, NEW k \in DOMAIN Interfaces(d), NEW l \in 1 .. k,
                 h = LinkInterfaces(d, l)
          PROVE  IF l = k THEN OnStack(Implement(d, k))' ELSE OnStack(LinkInterfaces(d, l + 1))'
      <4>1. d = c /\ l = n
        BY <1>7, <3>2
      <4> QED BY <1>2, <3>1, <4>1
    <3>3. Linked' \ Linked = {} /\ extends \subseteq extends' /\ implements \subseteq implements'
      BY <1>3, <1>6
    <3>4. \A d \in Classes :
              /\ h = LinkSuper(d) => <<d, Super(d)>> \in extends'
              /\ \A k \in DOMAIN Interfaces(d) :
                    /\ h = Implement(d, k) => <<d, Interfaces(d)[k]>> \in implements'
                    /\ \A l \in 1 .. k : h = LinkInterfaces(d, l) =>
                          IF l = k THEN OnStack(Implement(d, k))'
                          ELSE OnStack(LinkInterfaces(d, l + 1))'
      BY <1>8, <3>2
    <3>5. EdgesCome /\ UNCHANGED program /\ todo # <<>> /\ h = Head(todo) /\ Call(as)
      BY <1>1, <1>3 DEF ResolvesInv
    <3> QED BY <2>3, <3>3, <3>4, <3>5, CallKeepsEdgesComing
  <2>7. EdgesLead'
    <3>1. Asked(s)'
      <4>1. todo' # <<>> /\ Head(todo') = a
        BY <1>3, <1>6, <2>3, NewHead
      <4> QED BY <1>2, <4>1 DEF Asked, ResolveClass
    <3>2. \A d, k : a # LinkSuper(d) /\ b # LinkSuper(d) /\ e # LinkSuper(d)
                    /\ a # Implement(d, k) /\ e # Implement(d, k)
      BY <1>5 DEF LinkSuper, Implement
    <3>3. \A d, k : b = Implement(d, k) => d = c /\ k = n
      BY <1>2 DEF Implement
    <3>4. \A d, k : b = Implement(d, k) => Interfaces(d)[k] = s
      BY <1>1, <3>3
    <3>5. ASSUME NEW d \in Classes, NEW j \in DOMAIN as
          PROVE  /\ as[j] # LinkSuper(d)
                 /\ \A k \in DOMAIN Interfaces(d) :
                      as[j] = Implement(d, k) => Asked(Interfaces(d)[k])'
      <4>1. as[j] # LinkSuper(d)
        BY <2>3, <3>2
      <4>2. ASSUME NEW k, as[j] = Implement(d, k) PROVE Interfaces(d)[k] = s
        BY <2>3, <3>2, <3>4, <4>2
      <4>3. \A x : Interfaces(x)' = Interfaces(x)
        BY <1>3, SameProgram
      <4> QED BY <3>1, <4>1, <4>2, <4>3 DEF Asked
    <3>6. extends' \ extends = {} /\ implements' \ implements = {}
      BY <1>3
    <3> QED BY <1>3, <1>6, <2>3, <3>5, <3>6, CallKeepsEdgesLeading DEF ResolvesInv
  <2> QED BY <1>1, <1>3, <1>6, <2>3, <2>4, <2>5, <2>6, <2>7, LinkingCall
<1> QED BY <1>9, <1>10

LEMMA AddClassResolves ==
    ASSUME IInv, IInv', ResolvesInv, AddClass
    PROVE  ResolvesInv'
<1>1. PICK h, c, s, a, b, x, y, as :
         /\ h = Head(todo) /\ c = h.c /\ s = Super(c)
         /\ a = ResolveClass(s) /\ b = LinkSuper(c)
         /\ x = Initializer(c) /\ y = LinkInterfaces(c, 1)
         /\ as = (IF s # None THEN <<a, b>> ELSE <<>>) \o <<x, y>>
  OBVIOUS
<1>2. /\ todo # <<>> /\ h.op = "class" /\ phase \in {"link", "abstract"} /\ Call(as)
      /\ order' = Append(order, c) /\ c \notin Linked
      /\ UNCHANGED <<program, extends, implements, provides, fields, phase>>
  BY <1>1 DEF AddClass, Top, Super
<1>3. c \in Classes
  BY <1>1, <1>2, HeadHasPurpose DEF Activations
<1>4. Linked' = Linked \union {c}
  <2>1. order \in Seq(Classes)
    BY DEF IInv, TypeOK
  <2>2. /\ DOMAIN order' = DOMAIN order \union {Len(order) + 1}
        /\ \A i \in DOMAIN order : order'[i] = order[i]
        /\ order'[Len(order) + 1] = c
    BY <1>2, <1>3, <2>1
  <2> QED BY <2>2 DEF Linked
<1>5. /\ Grows /\ LinksHead /\ todo \in Seq(Activations)
      /\ extends \subseteq extends' /\ implements \subseteq implements'
  BY <1>1, <1>2, <1>4 DEF Grows, LinksHead, IInv, TypeOK
<1>6. /\ a.op = "class" /\ a.c = s /\ b.op = "super" /\ b.c = c
      /\ x.op = "clinit" /\ x.c = c /\ y.op = "interfaces" /\ y.c = c
  BY <1>1 DEF ResolveClass, LinkSuper, Initializer, LinkInterfaces
<1>7. /\ b \in Activations /\ x \in Activations /\ y \in Activations
      /\ s # None => a \in Activations
  BY <1>1, <1>3, ClassFileTypes
     DEF ResolveClass, LinkSuper, Initializer, LinkInterfaces, Activations
<1>8. /\ as \in Seq(Activations) /\ \A j \in DOMAIN as : as[j] \in {a, b, x, y}
      /\ \E j \in DOMAIN as : as[j] = y
      /\ IF s # None THEN 1 \in DOMAIN as /\ as[1] = a /\ \E j \in DOMAIN as : as[j] = b
         ELSE \A j \in DOMAIN as : as[j] \in {x, y}
  <2>1. CASE s # None
    <3>1. as = <<a, b, x, y>>
      BY <1>1, <1>7, <2>1, JoinPairs
    <3>2. /\ as \in Seq(Activations) /\ DOMAIN as = {1, 2, 3, 4}
          /\ as[1] = a /\ as[2] = b /\ as[3] = x /\ as[4] = y
      BY <1>7, <2>1, <3>1
    <3> QED BY <2>1, <3>2
  <2>2. CASE s = None
    <3>1. as = <<x, y>>
      <4>1. <<x, y>> \in Seq(Activations)
        BY <1>7
      <4>2. as = <<>> \o <<x, y>>
        BY <1>1, <2>2
      <4> QED BY <4>1, <4>2, ConcatEmptySeq
    <3>2. as \in Seq(Activations) /\ DOMAIN as = {1, 2} /\ as[1] = x /\ as[2] = y
      BY <1>7, <3>1
    <3> QED BY <2>2, <3>2
  <2> QED BY <2>1, <2>2
<1>9. \A j \in DOMAIN as : HasPurpose(as[j])'
  <2>1. HasPurpose(a)' /\ HasPurpose(b)' /\ HasPurpose(x)' /\ HasPurpose(y)'
    BY <1>6 DEF HasPurpose
  <2> QED BY <1>8, <2>1
<1>10. IsNested(todo)'
  <2>1. c \in ProgramAbove(program, c) /\ (s # None => s \in ProgramAbove(program, c))
    BY <1>1, <1>3, AboveItself, SuperAbove
  <2>2. /\ IsUnder(b, c) /\ IsUnder(x, c) /\ IsUnder(y, c)
        /\ s # None => IsUnder(a, c) /\ ~IsLinking(a)
    BY <1>6, <2>1 DEF IsUnder, IsLinking
  <2>3. \A j \in DOMAIN as : IsUnder(as[j], c) /\ (IsLinking(as[j]) => as[j].c = c)
    BY <1>6, <1>8, <2>2
  <2>4. /\ IsNested(todo) /\ todo # <<>> /\ c = Head(todo).c /\ UNCHANGED program
        /\ as \in Seq(Activations) /\ Call(as)
    BY <1>1, <1>2, <1>8 DEF ResolvesInv
  <2> QED BY <1>3, <2>3, <2>4, LinkingNests
<1>11. EdgesCome'
  <2>1. /\ OnStack(y)' /\ (s # None => OnStack(b)')
    BY <1>2, <1>5, <1>8, PushedOnStack
  <2>2. \A d \in Linked' \ Linked : /\ Super(d) # None => OnStack(LinkSuper(d))'
                                    /\ OnStack(LinkInterfaces(d, 1))'
    BY <1>1, <1>4, <2>1
  <2>3. \A d, n : h # LinkSuper(d) /\ h # Implement(d, n) /\ h # LinkInterfaces(d, n)
    BY <1>2 DEF LinkSuper, Implement, LinkInterfaces
  <2>4. \A d \in Classes :
            /\ h = LinkSuper(d) => <<d, Super(d)>> \in extends'
            /\ \A k \in DOMAIN Interfaces(d) :
                  /\ h = Implement(d, k) => <<d, Interfaces(d)[k]>> \in implements'
                  /\ \A l \in 1 .. k : h = LinkInterfaces(d, l) =>
                        IF l = k THEN OnStack(Implement(d, k))'
                        ELSE OnStack(LinkInterfaces(d, l + 1))'
    BY <2>3
  <2>5. EdgesCome /\ UNCHANGED program /\ todo # <<>> /\ h = Head(todo) /\ Call(as)
    BY <1>1, <1>2 DEF ResolvesInv
  <2> QED BY <1>5, <1>8, <2>2, <2>4, <2>5, CallKeepsEdgesComing
<1>12. EdgesLead'
  <2>1. s # None => Asked(s)'
    <3> SUFFICES ASSUME s # None PROVE Asked(s)'
      OBVIOUS
    <3>1. todo' # <<>> /\ Head(todo') = a
      BY <1>2, <1>5, <1>8, NewHead
    <3> QED BY <1>1, <3>1 DEF Asked
  <2>2. /\ \A d, n : a # LinkSuper(d) /\ x # LinkSuper(d) /\ y # LinkSuper(d)
        /\ \A d, n : a # Implement(d, n) /\ b # Implement(d, n)
                     /\ x # Implement(d, n) /\ y # Implement(d, n)
        /\ \A d : b = LinkSuper(d) => d = c
    BY <1>1, <1>6 DEF LinkSuper, Implement
  <2>3. ASSUME NEW d \in Classes, NEW j \in DOMAIN as
        PROVE  /\ as[j] = LinkSuper(d) => Asked(Super(d))'
               /\ \A n \in DOMAIN Interfaces(d) : as[j] # Implement(d, n)
    <3>1. as[j] = LinkSuper(d) => d = c /\ s # None
      BY <1>8, <2>2
    <3>2. Super(d)' = Super(d)
      BY <1>2, SameProgram
    <3>3. as[j] = LinkSuper(d) => Asked(Super(d))'
      BY <1>1, <2>1, <3>1, <3>2 DEF Asked
    <3> QED BY <1>8, <2>2, <3>3
  <2>4. extends' \ extends = {} /\ implements' \ implements = {}
    BY <1>2
  <2>5. /\ EdgesLead /\ todo # <<>> /\ Grows /\ LinksHead
        /\ as \in Seq(Activations) /\ Call(as)
    BY <1>2, <1>5, <1>8 DEF ResolvesInv
  <2>6. \A d \in Classes, j \in DOMAIN as :
            /\ as[j] = LinkSuper(d) => Asked(Super(d))'
            /\ \A n \in DOMAIN Interfaces(d) :
                  as[j] = Implement(d, n) => Asked(Interfaces(d)[n])'
    BY <2>3
  <2>7. /\ \A e \in extends' \ extends : e[2] = Super(e[1]) /\ e[2] # None /\ e[2] \in Linked'
        /\ \A e \in implements' \ implements : e[2] \in Linked'
    BY <2>4
  <2> QED BY <2>5, <2>6, <2>7, CallKeepsEdgesLeading
<1>13. /\ todo # <<>> /\ phase \in {"link", "abstract"} /\ h = Head(todo) /\ h.op = "class"
       /\ LinksHead /\ Grows /\ UNCHANGED <<provides, phase>>
       /\ as \in Seq(Activations) /\ Call(as)
  BY <1>1, <1>2, <1>5, <1>8
<1> QED BY <1>9, <1>10, <1>11, <1>12, <1>13, LinkingCall

(***************************************************************************)
(* The steps between the phases, and a step that changes nothing.  With an *)
(* empty stack all code is answered.                                       *)
(***************************************************************************)
LEMMA NothingLeft ==
    ASSUME CodeHandled, todo = <<>>, NEW i \in LinkedCode
    PROVE  i.c \in Linked /\ (IsMissed(i) \/ IsLinkedAbove(i))
<1>1. \A a : ~OnStack(a)
  BY DEF OnStack
<1>2. \A c, m, n : ~InBody(c, m, n)
  BY <1>1 DEF InBody
<1>3. ~IsServed(i)
  BY DEF IsServed
<1>4. IsHandled(i)
  BY <1>2 DEF CodeHandled, LinkedCode
<1> QED BY <1>3, <1>4 DEF IsHandled, Asked

LEMMA StartAbstractResolves ==
    ASSUME IInv, IInv', ResolvesInv, StartAbstract
    PROVE  ResolvesInv'
<1>1. PICK a : a = Inherit(1, Len(order))
  OBVIOUS
<1>2. /\ todo = <<>> /\ todo' = <<a>> /\ phase' = "abstract" /\ a.op = "inherit"
      /\ UNCHANGED <<program, order, extends, implements, provides, fields>>
  BY <1>1 DEF StartAbstract, Inherit
<1>3. /\ UNCHANGED <<Linked, ClassFiles, LinkedCode>>
      /\ \A c : Super(c)' = Super(c) /\ Interfaces(c)' = Interfaces(c)
  BY <1>2, SameProgram DEF Linked, LinkedCode
<1>4. DOMAIN todo' = {1} /\ todo'[1] = a
  BY <1>2
<1>5. Purposeful'
  <2>1. HasPurpose(a)'
    BY <1>2 DEF HasPurpose
  <2> QED BY <1>4, <2>1 DEF Purposeful
<1>6. /\ \A b : ~OnStack(b)
      /\ \A b : OnStack(b)' => b.op = "inherit"
  BY <1>2, <1>4 DEF OnStack
<1>7. /\ \A c : ~OnStack(LinkSuper(c))'
      /\ \A c, n : ~OnStack(Implement(c, n))'
  BY <1>2, <1>6 DEF LinkSuper, Implement
<1>8. EdgesCome'
  <2>1. \A c \in Linked : /\ Super(c) # None => <<c, Super(c)>> \in extends
                          /\ \A n \in DOMAIN Interfaces(c) : <<c, Interfaces(c)[n]>> \in implements
    BY <1>6 DEF ResolvesInv, EdgesCome, SuperComes, InterfaceComes
  <2> QED BY <1>2, <1>3, <2>1 DEF EdgesCome, SuperComes, InterfaceComes
<1>9. EdgesLead'
  BY <1>2, <1>3, <1>7 DEF ResolvesInv, EdgesLead
<1>10. IsNested(todo)'
  BY <1>2, <1>4 DEF IsNested, MustNest, IsLinking
<1>11. CodeHandled'
  <2>1. \A i \in LinkedCode : IsHandled(i)'
    <3> SUFFICES ASSUME NEW i \in LinkedCode PROVE IsHandled(i)'
      OBVIOUS
    <3>1. i.c \in Linked /\ (IsMissed(i) \/ IsLinkedAbove(i))
      BY <1>2, NothingLeft DEF ResolvesInv
    <3>2. Asked(i.c)'
      BY <1>3, <3>1 DEF Asked
    <3>3. (IsMissed(i) \/ IsLinkedAbove(i))'
      BY <1>2, <3>1, SameProgram DEF IsLinkedAbove
    <3> QED BY <3>2, <3>3 DEF IsHandled
  <2>2. \A i \in LinkedCode' : IsHandled(i)'
    BY <1>3, <2>1
  <2> QED BY <2>2 DEF CodeHandled, LinkedCode
<1>12. EndsWell'
  BY <1>2 DEF EndsWell
<1> QED BY <1>5, <1>8, <1>9, <1>10, <1>11, <1>12 DEF ResolvesInv

LEMMA FinishResolves ==
    ASSUME ResolvesInv, Finish
    PROVE  ResolvesInv'
<1>1. /\ todo = <<>> /\ phase' = "done"
      /\ UNCHANGED <<program, order, extends, implements, provides, fields, todo>>
  BY DEF Finish
<1>2. EndsWell'
  BY <1>1 DEF EndsWell
<1> QED BY <1>1, <1>2, SameState

LEMMA StutterResolves ==
    ASSUME ResolvesInv, UNCHANGED vars
    PROVE  ResolvesInv'
<1>1. UNCHANGED <<program, order, extends, implements, provides, fields, todo, phase>>
  BY DEF vars
<1>2. UNCHANGED LinkedCode
  BY <1>1, SameProgram DEF LinkedCode
<1>3. Explained => Explained'
  BY <1>1, <1>2, SameProgram DEF Explained
<1>4. EndsWell'
  BY <1>1, <1>3 DEF ResolvesInv, EndsWell
<1> QED BY <1>1, <1>4, SameState

LEMMA InitResolves ==
    ASSUME Init
    PROVE  ResolvesInv
<1>1. PICK c, a, b : c = ClassFiles.main /\ a = ResolveClass(c) /\ b = Static(c, "main")
  OBVIOUS
<1>2. /\ order = <<>> /\ extends = {} /\ implements = {} /\ provides = {} /\ phase = "link"
      /\ todo = <<a, b>> /\ program \in DOMAIN Programs
  BY <1>1 DEF Init
<1>3. a.op = "class" /\ b.op = "static" /\ b.c = c /\ b.m = "main"
  BY <1>1 DEF ResolveClass, Static
<1>4. DOMAIN todo = {1, 2} /\ todo[1] = a /\ todo[2] = b /\ Linked = {}
  BY <1>2 DEF Linked
<1>5. Purposeful
  <2>1. IsCompiled(program)
    BY <1>2, CompiledAssumption
  <2>2. Declares(c, "main") /\ ClassFiles.methods[c]["main"] = "static"
    BY <1>1, <2>1 DEF IsCompiled, Declares, ClassFiles
  <2>3. HasPurpose(a) /\ HasPurpose(b)
    BY <1>3, <2>2 DEF HasPurpose
  <2> QED BY <1>4, <2>3 DEF Purposeful
<1>6. \A d, n : ~OnStack(LinkSuper(d)) /\ ~OnStack(Implement(d, n))
  BY <1>3, <1>4 DEF OnStack, LinkSuper, Implement
<1>7. EdgesCome /\ EdgesLead
  BY <1>2, <1>4, <1>6 DEF EdgesCome, EdgesLead
<1>8. IsNested(todo)
  BY <1>3, <1>4 DEF IsNested, MustNest, IsLinking
<1>9. CodeHandled /\ EndsWell
  BY <1>2 DEF CodeHandled, EndsWell
<1> QED BY <1>5, <1>7, <1>8, <1>9 DEF ResolvesInv

LEMMA NextResolves ==
    ASSUME IInv, IInv', ResolvesInv, [Next]_vars
    PROVE  ResolvesInv'
<1>1. CASE FindClass BY <1>1, FindClassResolves
<1>2. CASE AddClass BY <1>2, AddClassResolves
<1>3. CASE AddSuper BY <1>3, AddSuperResolves
<1>4. CASE InitializeClass BY <1>4, InitializeClassResolves
<1>5. CASE NextInterface BY <1>5, NextInterfaceResolves
<1>6. CASE AddInterface BY <1>6, AddInterfaceResolves
<1>7. CASE FindVirtual BY <1>7, FindVirtualResolves
<1>8. CASE NextOfInterfaces BY <1>8, NextOfInterfacesResolves
<1>9. CASE OwnMethod BY <1>9, OwnMethodResolves
<1>10. CASE PrivateMethod BY <1>10, PrivateMethodResolves
<1>11. CASE StaticMethod BY <1>11, StaticMethodResolves
<1>12. CASE StaticField BY <1>12, StaticFieldResolves
<1>13. CASE NextInstruction BY <1>13, NextInstructionResolves
<1>14. CASE StartAbstract BY <1>14, StartAbstractResolves
<1>15. CASE NextClass BY <1>15, NextClassResolves
<1>16. CASE NextOfHierarchy BY <1>16, NextOfHierarchyResolves
<1>17. CASE NextAbstract BY <1>17, NextAbstractResolves
<1>18. CASE Finish BY <1>18, FinishResolves
<1>19. CASE UNCHANGED vars BY <1>19, StutterResolves
<1> QED BY <1>1, <1>2, <1>3, <1>4, <1>5, <1>6, <1>7, <1>8, <1>9, <1>10, <1>11, <1>12,
           <1>13, <1>14, <1>15, <1>16, <1>17, <1>18, <1>19 DEF Next

(***************************************************************************)
(* The code of a linked program finds what it refers to, unless there is a *)
(* static initialiser above the class or a superclass is asked for a       *)
(* method which it inherits itself; and a program without static           *)
(* initialisers above the classes it uses, in which no static method is    *)
(* called through a subclass, never fails to link.                         *)
(***************************************************************************)
LinkedCodeResolves ==
    /\ phase = "done" => \A i \in LinkedCode : i.c \in Linked /\ (IsMissed(i) \/ IsLinkedAbove(i))
    /\ (\A i \in LinkedCode : ~HasInitializerAbove(i.c) /\ ~AsksSubclass(i)) => phase # "failed"

LEMMA ResolvesInvImplies ==
    ASSUME ResolvesInv
    PROVE  LinkedCodeResolves
<1>1. ASSUME phase = "done", NEW i \in LinkedCode
      PROVE  i.c \in Linked /\ (IsMissed(i) \/ IsLinkedAbove(i))
  BY <1>1, NothingLeft DEF ResolvesInv, EndsWell
<1>2. ASSUME \A i \in LinkedCode : ~HasInitializerAbove(i.c) /\ ~AsksSubclass(i)
      PROVE  phase # "failed"
  BY <1>2 DEF ResolvesInv, EndsWell, Explained
<1> QED BY <1>1, <1>2 DEF LinkedCodeResolves

-----------------------------------------------------------------------------
(***************************************************************************)
(* In every program a compiler accepts, whatever the linked code refers to *)
(* is linked when linking ends, and linking fails only for programs that   *)
(* call a static method through a subclass - except below a static         *)
(* initialiser, through which code is linked while the classes lack their  *)
(* edges, and except where a superclass is asked for a method which it     *)
(* inherits itself.                                                        *)
(***************************************************************************)
THEOREM LinkedCodeDoesResolve == Spec => []LinkedCodeResolves
<1>1. Init => IInv /\ ResolvesInv
  BY InitIsJustified, InitResolves
<1>2. IInv /\ ResolvesInv /\ [Next]_vars => IInv' /\ ResolvesInv'
  BY NextStep, NextResolves
<1>3. ResolvesInv => LinkedCodeResolves
  BY ResolvesInvImplies
<1> QED BY <1>1, <1>2, <1>3, PTL DEF Spec

-----------------------------------------------------------------------------
(***************************************************************************)
(* A virtual call of a linked program runs the method Java runs.  The      *)
(* argument is about the lists of methods the backends work with: merging  *)
(* only adds to the end of a list, so the methods of a class stand after   *)
(* those of the classes above it, by induction over the class's depth; the *)
(* method Java selects is the last one of its name (JavaScript), and where *)
(* no other one is concrete the only one (WebAssembly).                    *)
(***************************************************************************)
(***************************************************************************)
(* Lists of methods: merging adds to the end of a list what it lacks.      *)
(***************************************************************************)
Continues(t, s, X) ==
    /\ Len(s) <= Len(t)
    /\ \A i \in 1 .. Len(s) : t[i] = s[i]
    /\ \A i \in 1 .. Len(t) : i > Len(s) => t[i] \in X

LEMMA ContinuesItself ==
    ASSUME NEW E, NEW s \in Seq(E), NEW X
    PROVE  Continues(s, s, X)
BY DEF Continues

LEMMA ContinuesOn ==
    ASSUME NEW E, NEW s \in Seq(E), NEW t \in Seq(E), NEW u \in Seq(E), NEW X, NEW Y, NEW Z,
           Continues(t, s, X), Continues(u, t, Y), X \subseteq Z, Y \subseteq Z
    PROVE  Continues(u, s, Z)
<1>1. Len(s) \in Nat /\ Len(t) \in Nat /\ Len(u) \in Nat
  OBVIOUS
<1>2. Len(s) <= Len(u)
  BY <1>1 DEF Continues
<1>3. ASSUME NEW i \in 1 .. Len(s) PROVE u[i] = s[i]
  <2>1. i \in 1 .. Len(t)
    BY <1>1 DEF Continues
  <2> QED BY <2>1 DEF Continues
<1>4. ASSUME NEW i \in 1 .. Len(u), i > Len(s) PROVE u[i] \in Z
  <2>1. CASE i > Len(t)
    BY <2>1 DEF Continues
  <2>2. CASE ~(i > Len(t))
    <3>1. i \in 1 .. Len(t)
      BY <1>1, <2>2
    <3>2. u[i] = t[i] /\ t[i] \in X
      BY <1>4, <3>1 DEF Continues
    <3> QED BY <3>2
  <2> QED BY <2>1, <2>2
<1> QED BY <1>2, <1>3, <1>4 DEF Continues

LEMMA RegisterAdds ==
    ASSUME NEW E, NEW s \in Seq(E), NEW x \in E
    PROVE  /\ register(s, x) \in Seq(E)
           /\ Continues(register(s, x), s, {x} \ Range(s))
<1>1. CASE x \in Range(s)
  BY <1>1, ContinuesItself DEF register
<1>2. CASE x \notin Range(s)
  <2>1. register(s, x) = Append(s, x)
    BY <1>2 DEF register
  <2>2. /\ Append(s, x) \in Seq(E) /\ Len(Append(s, x)) = Len(s) + 1
        /\ \A i \in 1 .. Len(s) : Append(s, x)[i] = s[i]
        /\ Append(s, x)[Len(s) + 1] = x
    BY AppendProperties
  <2>3. Len(s) \in Nat
    BY LenProperties
  <2>4. \A i \in 1 .. Len(Append(s, x)) : i > Len(s) => i = Len(s) + 1
    BY <2>2, <2>3
  <2>5. Continues(Append(s, x), s, {x} \ Range(s))
    BY <1>2, <2>2, <2>3, <2>4 DEF Continues
  <2> QED BY <2>1, <2>2, <2>5
<1> QED BY <1>1, <1>2

LEMMA RegisterRange ==
    ASSUME NEW E, NEW s \in Seq(E), NEW x \in E
    PROVE  Range(register(s, x)) = Range(s) \union {x}
<1>1. CASE x \in Range(s)
  BY <1>1 DEF register
<1>2. CASE x \notin Range(s)
  <2>1. PICK t : t = Append(s, x) /\ t = register(s, x)
    BY <1>2 DEF register
  <2>2. /\ Len(t) = Len(s) + 1 /\ Len(s) \in Nat /\ t \in Seq(E)
        /\ \A i \in 1 .. Len(s) : t[i] = s[i]
        /\ t[Len(s) + 1] = x
    <3>1. /\ Append(s, x) \in Seq(E) /\ Len(Append(s, x)) = Len(s) + 1
          /\ \A i \in 1 .. Len(s) : Append(s, x)[i] = s[i]
          /\ Append(s, x)[Len(s) + 1] = x
      BY AppendProperties
    <3>2. Len(s) \in Nat
      BY LenProperties
    <3> QED BY <2>1, <3>1, <3>2
  <2>3. DOMAIN t = 1 .. Len(s) + 1 /\ DOMAIN s = 1 .. Len(s)
    BY <2>2
  <2>4. ASSUME NEW i \in DOMAIN t PROVE t[i] \in Range(s) \union {x}
    <3>1. CASE i = Len(s) + 1
      BY <2>2, <3>1
    <3>2. CASE i # Len(s) + 1
      <4>1. i \in DOMAIN s /\ t[i] = s[i]
        BY <2>2, <2>3, <3>2
      <4> QED BY <4>1 DEF Range
    <3> QED BY <3>1, <3>2
  <2>5. ASSUME NEW i \in DOMAIN s PROVE s[i] \in Range(t)
    <3>1. i \in DOMAIN t /\ t[i] = s[i]
      BY <2>2, <2>3
    <3> QED BY <3>1 DEF Range
  <2>6. x \in Range(t)
    BY <2>2, <2>3 DEF Range
  <2> QED BY <2>1, <2>4, <2>5, <2>6 DEF Range
<1> QED BY <1>1, <1>2

LEMMA MergeIsRecursive ==
    ASSUME NEW s, NEW t, Len(t) \in Nat
    PROVE  \E f : /\ f = [n \in 0 .. Len(t) |-> IF n = 0 THEN s ELSE register(f[n - 1], t[n])]
                  /\ merge(s, t) = f[Len(t)]
<1> DEFINE step(f, n) == IF n = 0 THEN s ELSE register(f[n - 1], t[n])
           S == {k \in Nat : \E f : f = [n \in 0 .. k |-> step(f, n)]}
<1>1. 0 \in S
  <2>1. PICK f : f = [n \in 0 .. 0 |-> s]
    OBVIOUS
  <2>2. f = [n \in 0 .. 0 |-> step(f, n)]
    BY <2>1
  <2> QED BY <2>2
<1>2. ASSUME NEW k \in Nat, k \in S PROVE k + 1 \in S
  <2>1. PICK f : f = [n \in 0 .. k |-> step(f, n)]
    BY <1>2
  <2>2. PICK g : g = [n \in 0 .. k + 1 |-> step(f, n)]
    OBVIOUS
  <2>3. \A n \in 0 .. k : g[n] = f[n]
    <3>1. \A n \in 0 .. k : f[n] = step(f, n) /\ n \in 0 .. k + 1
      BY <2>1
    <3> HIDE DEF step
    <3> QED BY <2>2, <3>1
  <2>4. \A n \in 0 .. k + 1 : n = 0 \/ n - 1 \in 0 .. k
    OBVIOUS
  <2>5. \A n \in 0 .. k + 1 : step(f, n) = step(g, n)
    BY <2>3, <2>4
  <2>6. g = [n \in 0 .. k + 1 |-> step(g, n)]
    <3> HIDE DEF step
    <3> QED BY <2>2, <2>5
  <2> HIDE DEF step
  <2> QED BY <2>6
<1>3. Len(t) \in S
  <2> HIDE DEF S
  <2> QED BY <1>1, <1>2, SetInduction
<1>4. \E f : f = [n \in 0 .. Len(t) |-> step(f, n)]
  BY <1>3
<1>5. merge(s, t) = (CHOOSE f : f = [n \in 0 .. Len(t) |-> step(f, n)])[Len(t)]
  BY DEF merge
<1> HIDE DEF step
<1>6. PICK f : f = (CHOOSE h : h = [n \in 0 .. Len(t) |-> step(h, n)])
  OBVIOUS
<1>7. f = [n \in 0 .. Len(t) |-> step(f, n)]
  BY <1>4, <1>6
<1>8. merge(s, t) = f[Len(t)]
  BY <1>5, <1>6
<1>9. f = [n \in 0 .. Len(t) |-> IF n = 0 THEN s ELSE register(f[n - 1], t[n])]
  BY <1>7 DEF step
<1> QED BY <1>8, <1>9

LEMMA MergeAdds ==
    ASSUME NEW E, NEW s \in Seq(E), NEW t \in Seq(E)
    PROVE  /\ merge(s, t) \in Seq(E)
           /\ Range(merge(s, t)) = Range(s) \union Range(t)
           /\ Continues(merge(s, t), s, Range(t) \ Range(s))
<1>1. Len(t) \in Nat /\ DOMAIN t = 1 .. Len(t)
  BY LenProperties
<1>2. PICK f : /\ f = [n \in 0 .. Len(t) |-> IF n = 0 THEN s ELSE register(f[n - 1], t[n])]
               /\ merge(s, t) = f[Len(t)]
  BY <1>1, MergeIsRecursive
<1> DEFINE first(n) == {t[k] : k \in 1 .. n}
           P(n) == /\ f[n] \in Seq(E)
                   /\ Range(f[n]) = Range(s) \union first(n)
                   /\ Continues(f[n], s, Range(t) \ Range(s))
           S == {n \in Nat : n <= Len(t) => P(n)}
<1>3. 0 \in S
  <2>1. f[0] = s
    BY <1>1, <1>2
  <2>2. first(0) = {}
    OBVIOUS
  <2>3. P(0)
    BY <2>1, <2>2, ContinuesItself
  <2> QED BY <2>3
<1>4. ASSUME NEW n \in Nat, n \in S PROVE n + 1 \in S
  <2> SUFFICES ASSUME n + 1 <= Len(t) PROVE P(n + 1)
    OBVIOUS
  <2>1. P(n) /\ n + 1 \in DOMAIN t /\ n + 1 \in 0 .. Len(t)
    BY <1>1, <1>4
  <2>2. f[n + 1] = register(f[n], t[n + 1])
    BY <1>1, <1>2, <2>1
  <2>3. t[n + 1] \in E /\ t[n + 1] \in Range(t)
    BY <2>1 DEF Range
  <2>4. first(n + 1) = first(n) \union {t[n + 1]}
    <3>1. 1 .. n + 1 = (1 .. n) \union {n + 1}
      OBVIOUS
    <3> QED BY <3>1
  <2> HIDE DEF first
  <2>5. f[n + 1] \in Seq(E) /\ Range(f[n + 1]) = Range(f[n]) \union {t[n + 1]}
    <3>1. f[n] \in Seq(E)
      BY <2>1
    <3>2. register(f[n], t[n + 1]) \in Seq(E)
      BY <2>3, <3>1, RegisterAdds
    <3>3. Range(register(f[n], t[n + 1])) = Range(f[n]) \union {t[n + 1]}
      <4>1. t[n + 1] \in E
        BY <2>3
      <4> QED BY <3>1, <4>1, RegisterRange
    <3> QED BY ONLY <2>2, <3>2, <3>3
  <2>6. Continues(f[n + 1], f[n], {t[n + 1]} \ Range(f[n]))
    BY <2>1, <2>2, <2>3, RegisterAdds
  <2>7. Continues(f[n + 1], s, Range(t) \ Range(s))
    <3>1. {t[n + 1]} \ Range(f[n]) \subseteq Range(t) \ Range(s)
      BY <2>1, <2>3
    <3>2. f[n] \in Seq(E) /\ Continues(f[n], s, Range(t) \ Range(s))
      BY <2>1
    <3> QED BY <2>5, <2>6, <3>1, <3>2, ContinuesOn
  <2> QED BY <2>1, <2>4, <2>5, <2>7
<1>5. Len(t) \in S
  <2> HIDE DEF S
  <2> QED BY <1>1, <1>3, <1>4, SetInduction
<1>6. P(Len(t))
  BY <1>1, <1>5
<1>7. first(Len(t)) = Range(t)
  BY <1>1 DEF Range
<1> QED BY <1>2, <1>6, <1>7

LEMMA MergeAllIsRecursive ==
    ASSUME NEW s, NEW t, Len(t) \in Nat
    PROVE  \E f : /\ f = [n \in 0 .. Len(t) |-> IF n = 0 THEN s ELSE merge(f[n - 1], t[n])]
                  /\ mergeAll(s, t) = f[Len(t)]
<1> DEFINE step(f, n) == IF n = 0 THEN s ELSE merge(f[n - 1], t[n])
           S == {k \in Nat : \E f : f = [n \in 0 .. k |-> step(f, n)]}
<1>1. 0 \in S
  <2>1. PICK f : f = [n \in 0 .. 0 |-> s]
    OBVIOUS
  <2>2. f = [n \in 0 .. 0 |-> step(f, n)]
    BY <2>1
  <2> QED BY <2>2
<1>2. ASSUME NEW k \in Nat, k \in S PROVE k + 1 \in S
  <2>1. PICK f : f = [n \in 0 .. k |-> step(f, n)]
    BY <1>2
  <2>2. PICK g : g = [n \in 0 .. k + 1 |-> step(f, n)]
    OBVIOUS
  <2>3. \A n \in 0 .. k : g[n] = f[n]
    <3>1. \A n \in 0 .. k : f[n] = step(f, n) /\ n \in 0 .. k + 1
      BY <2>1
    <3> HIDE DEF step
    <3> QED BY <2>2, <3>1
  <2>4. \A n \in 0 .. k + 1 : n = 0 \/ n - 1 \in 0 .. k
    OBVIOUS
  <2>5. \A n \in 0 .. k + 1 : step(f, n) = step(g, n)
    BY <2>3, <2>4
  <2>6. g = [n \in 0 .. k + 1 |-> step(g, n)]
    <3> HIDE DEF step
    <3> QED BY <2>2, <2>5
  <2> HIDE DEF step
  <2> QED BY <2>6
<1>3. Len(t) \in S
  <2> HIDE DEF S
  <2> QED BY <1>1, <1>2, SetInduction
<1>4. \E f : f = [n \in 0 .. Len(t) |-> step(f, n)]
  BY <1>3
<1>5. mergeAll(s, t) = (CHOOSE f : f = [n \in 0 .. Len(t) |-> step(f, n)])[Len(t)]
  BY DEF mergeAll
<1> HIDE DEF step
<1>6. PICK f : f = (CHOOSE h : h = [n \in 0 .. Len(t) |-> step(h, n)])
  OBVIOUS
<1>7. f = [n \in 0 .. Len(t) |-> step(f, n)]
  BY <1>4, <1>6
<1>8. mergeAll(s, t) = f[Len(t)]
  BY <1>5, <1>6
<1>9. f = [n \in 0 .. Len(t) |-> IF n = 0 THEN s ELSE merge(f[n - 1], t[n])]
  BY <1>7 DEF step
<1> QED BY <1>8, <1>9

LEMMA MergeAllAdds ==
    ASSUME NEW E, NEW s \in Seq(E), NEW lists \in Seq(Seq(E)),
           NEW others, others = UNION {Range(lists[k]) : k \in DOMAIN lists}
    PROVE  /\ mergeAll(s, lists) \in Seq(E)
           /\ \A x : x \in Range(mergeAll(s, lists)) <=> x \in Range(s) \/ x \in others
           /\ Continues(mergeAll(s, lists), s, others)
<1>1. Len(lists) \in Nat /\ DOMAIN lists = 1 .. Len(lists)
  BY LenProperties
<1>2. PICK f : /\ f = [n \in 0 .. Len(lists) |-> IF n = 0 THEN s ELSE merge(f[n - 1], lists[n])]
               /\ mergeAll(s, lists) = f[Len(lists)]
  BY <1>1, MergeAllIsRecursive
<1> DEFINE first(n) == UNION {Range(lists[k]) : k \in 1 .. n}
           P(n) == /\ f[n] \in Seq(E)
                   /\ Range(f[n]) = Range(s) \union first(n)
                   /\ Continues(f[n], s, others)
           S == {n \in Nat : n <= Len(lists) => P(n)}
<1>3. 0 \in S
  <2>1. f[0] = s
    BY <1>1, <1>2
  <2>2. first(0) = {}
    OBVIOUS
  <2> HIDE DEF first
  <2>3. P(0)
    BY <2>1, <2>2, ContinuesItself
  <2> QED BY <2>3
<1>4. ASSUME NEW n \in Nat, n \in S PROVE n + 1 \in S
  <2> SUFFICES ASSUME n + 1 <= Len(lists) PROVE P(n + 1)
    OBVIOUS
  <2>1. P(n) /\ n + 1 \in DOMAIN lists /\ n + 1 \in 0 .. Len(lists)
    BY <1>1, <1>4
  <2>2. f[n + 1] = merge(f[n], lists[n + 1])
    <3>1. n + 1 # 0 /\ (n + 1) - 1 = n
      OBVIOUS
    <3> QED BY ONLY <1>2, <2>1, <3>1
  <2>3. lists[n + 1] \in Seq(E)
    BY <2>1
  <2>4. Range(lists[n + 1]) \subseteq others
    BY <2>1
  <2>5. first(n + 1) = first(n) \union Range(lists[n + 1])
    <3>1. 1 .. n + 1 = (1 .. n) \union {n + 1}
      OBVIOUS
    <3> QED BY <3>1
  <2> HIDE DEF first
  <2>6. f[n + 1] \in Seq(E) /\ Range(f[n + 1]) = Range(f[n]) \union Range(lists[n + 1])
    <3>1. f[n] \in Seq(E)
      BY <2>1
    <3>2. merge(f[n], lists[n + 1]) \in Seq(E)
      BY <2>3, <3>1, MergeAdds
    <3>3. Range(merge(f[n], lists[n + 1])) = Range(f[n]) \union Range(lists[n + 1])
      BY <2>3, <3>1, MergeAdds
    <3> QED BY ONLY <2>2, <3>2, <3>3
  <2>7. Continues(f[n + 1], f[n], Range(lists[n + 1]) \ Range(f[n]))
    BY <2>1, <2>2, <2>3, MergeAdds
  <2>8. Continues(f[n + 1], s, others)
    <3>1. Range(lists[n + 1]) \ Range(f[n]) \subseteq others
      BY <2>4
    <3>2. f[n] \in Seq(E) /\ Continues(f[n], s, others)
      BY <2>1
    <3> QED BY <2>6, <2>7, <3>1, <3>2, ContinuesOn
  <2> QED BY <2>1, <2>5, <2>6, <2>8
<1>5. Len(lists) \in S
  <2> HIDE DEF S
  <2> QED BY <1>1, <1>3, <1>4, SetInduction
<1>6. P(Len(lists))
  BY <1>1, <1>5
<1>7. first(Len(lists)) = others
  BY <1>1
<1> HIDE DEF first
<1> QED BY <1>2, <1>6, <1>7

(***************************************************************************)
(* A finite set as a list.                                                 *)
(***************************************************************************)
LEMMA ListsOfSet ==
    ASSUME NEW T, IsFiniteSet(T)
    PROVE  /\ SetToSeqs(T) # {}
           /\ \A f \in SetToSeqs(T) : f \in Seq(T) /\ Range(f) = T
           /\ SetToSeq(T) \in Seq(T) /\ Range(SetToSeq(T)) = T
<1> DEFINE D == 1 .. Cardinality(T)
<1>1. Cardinality(T) \in Nat /\ ExistsBijection(D, T)
  BY FS_CardinalityType
<1>2. IsFiniteSet(D) /\ Cardinality(D) = Cardinality(T)
  BY <1>1, FS_Interval
<1>3. ASSUME NEW f \in [D -> T], \A i, j \in D : i # j => f[i] # f[j]
      PROVE  f \in Seq(T) /\ Range(f) = T
  <2>1. f \in Injection(D, T)
    BY <1>3 DEF Injection, IsInjective
  <2>2. f \in Surjection(D, T)
    BY <1>2, <2>1, FS_Injection
  <2>3. f \in Seq(T)
    BY <1>1, SeqDef
  <2>4. \A x \in T : \E i \in D : f[i] = x
    BY <2>2 DEF Surjection
  <2>5. Range(f) = T
    BY <2>4 DEF Range
  <2> QED BY <2>3, <2>5
<1>4. PICK b \in [D -> T] : \A i, j \in D : i # j => b[i] # b[j]
  <2>1. PICK b : b \in Bijection(D, T)
    BY <1>1 DEF ExistsBijection
  <2>2. b \in [D -> T] /\ \A i, j \in D : i # j => b[i] # b[j]
    BY <2>1 DEF Bijection, Injection, IsInjective
  <2> QED BY <2>2
<1>5. SetToSeqs(T) # {} /\ \A f \in SetToSeqs(T) : f \in Seq(T) /\ Range(f) = T
  BY <1>3, <1>4 DEF SetToSeqs
<1>6. SetToSeq(T) \in [D -> T] /\ \A i, j \in D : i # j => SetToSeq(T)[i] # SetToSeq(T)[j]
  <2>1. IsInjective(b)
    BY <1>4 DEF IsInjective
  <2>2. \E f \in [D -> T] : IsInjective(f)
    BY <1>4, <2>1
  <2>3. SetToSeq(T) \in [D -> T] /\ IsInjective(SetToSeq(T))
    BY <2>2 DEF SetToSeq
  <2> QED BY <2>3 DEF IsInjective
<1> QED BY <1>3, <1>5, <1>6

-----------------------------------------------------------------------------
(***************************************************************************)
(* A class is deeper than what is above it.                                *)
(***************************************************************************)
Depth(c) == Cardinality(ProgramAbove(program, c))

LEMMA DepthIsNat ==
    ASSUME IInv, NEW c \in Classes
    PROVE  /\ IsFiniteSet(ProgramAbove(program, c))
           /\ Depth(c) \in Nat /\ Depth(c) <= Cardinality(Classes)
<1>1. ProgramAbove(program, c) \in SUBSET Classes /\ IsFiniteSet(Classes)
  BY AboveIsClosure, HierarchyAssumption
<1>2. IsFiniteSet(ProgramAbove(program, c)) /\ Depth(c) <= Cardinality(Classes)
  BY <1>1, FS_Subset DEF Depth
<1> QED BY <1>2, FS_CardinalityType DEF Depth

LEMMA EdgeLeadsUp ==
    ASSUME IInv, NEW e \in ProgramEdges(program)
    PROVE  /\ e[1] \in Classes /\ e[2] \in Classes
           /\ e[2] \in ProgramAbove(program, e[1])
           /\ e[1] \notin ProgramAbove(program, e[2])
<1>1. program \in DOMAIN Programs
  BY DEF IInv, TypeOK
<1>2. e[1] \notin ProgramAbove(program, e[2])
  BY <1>1, HierarchyAssumption
<1>3. PICK c \in Classes : \/ Super(c) # None /\ e = <<c, Super(c)>>
                           \/ \E n \in DOMAIN Interfaces(c) : e = <<c, Interfaces(c)[n]>>
  BY EdgeKinds
<1> QED BY <1>2, <1>3, SuperAbove, InterfaceAbove

LEMMA NothingAboveItself ==
    ASSUME IInv, NEW c \in Classes, NEW d \in ProgramAbove(program, c), d # c
    PROVE  /\ d \in Classes
           /\ c \notin ProgramAbove(program, d)
           /\ Depth(d) < Depth(c)
<1>1. d \in Classes
  BY AboveIsClosure
<1>2. c \notin ProgramAbove(program, d)
  <2>1. ASSUME NEW e \in Classes, <<c, e>> \in ProgramEdges(program), d \in ProgramAbove(program, e)
        PROVE  c \notin ProgramAbove(program, d)
    <3>1. c \notin ProgramAbove(program, e)
      BY <2>1, EdgeLeadsUp
    <3> QED BY <2>1, <3>1, AboveTransitive
  <2> QED BY <2>1, AboveSplit, SuperAbove, InterfaceAbove
<1>3. ProgramAbove(program, d) \in SUBSET ProgramAbove(program, c)
  BY AboveTransitive
<1>4. c \in ProgramAbove(program, c)
  BY AboveItself
<1>5. /\ IsFiniteSet(ProgramAbove(program, c))
      /\ Depth(c) \in Nat /\ Depth(d) \in Nat
  BY <1>1, DepthIsNat
<1>6. Depth(d) <= Depth(c) /\ Depth(d) # Depth(c)
  BY <1>2, <1>3, <1>4, <1>5, FS_Subset DEF Depth
<1> QED BY <1>1, <1>2, <1>5, <1>6

LEMMA ParentsAbove ==
    ASSUME IInv, NEW c \in Classes, NEW d \in SuperOf(c) \union InterfacesOf(c)
    PROVE  /\ d \in Classes
           /\ d \in ProgramAbove(program, c)
           /\ d # c
<1>1. CASE d \in SuperOf(c)
  <2>1. PICK e \in extends : e[1] = c /\ e[2] = d
    BY <1>1 DEF SuperOf
  <2>2. e \in ProgramEdges(program)
    BY <2>1 DEF IInv
  <2>3. d \in Classes /\ d \in ProgramAbove(program, c) /\ c \notin ProgramAbove(program, d)
    BY <2>1, <2>2, EdgeLeadsUp
  <2> QED BY <2>3, AboveItself
<1>2. CASE d \in InterfacesOf(c)
  <2>1. PICK e \in implements : e[1] = c /\ d \in Above(e[2])
    BY <1>2 DEF InterfacesOf
  <2>2. e \in ProgramEdges(program)
    BY <2>1 DEF IInv
  <2>3. /\ e[2] \in Classes /\ e[2] \in ProgramAbove(program, c)
        /\ c \notin ProgramAbove(program, e[2])
    BY <2>1, <2>2, EdgeLeadsUp
  <2>4. d \in ProgramAbove(program, e[2])
    BY <2>1, <2>3, AboveIsAbove
  <2> QED BY <2>3, <2>4, AboveTransitive
<1> QED BY <1>1, <1>2

(***************************************************************************)
(* resolvedMethods follows the hierarchy upwards, so its recursion ends.   *)
(***************************************************************************)
LEMMA ResolvedIsRecursive ==
    ASSUME IInv, NEW c \in Classes
    PROVE  resolvedMethods[c] =
             methodsOf(c,
                       IF SuperOf(c) = {} THEN {<<>>}
                       ELSE UNION {resolvedMethods[s] : s \in SuperOf(c)},
                       [i \in InterfacesOf(c) |-> resolvedMethods[i]])
<1> DEFINE step(f, d) ==
             methodsOf(d,
                       IF SuperOf(d) = {} THEN {<<>>} ELSE UNION {f[s] : s \in SuperOf(d)},
                       [i \in InterfacesOf(d) |-> f[i]])
           D(n) == {d \in Classes : Depth(d) < n}
           S == {n \in Nat : \E f : f = [d \in D(n) |-> step(f, d)]}
<1>1. 0 \in S
  <2>1. D(0) = {}
    BY DepthIsNat
  <2>2. PICK f : f = [d \in D(0) |-> {}]
    OBVIOUS
  <2> HIDE DEF D, step
  <2>3. f = [d \in D(0) |-> step(f, d)]
    BY <2>1, <2>2
  <2> QED BY <2>3
<1>2. ASSUME NEW n \in Nat, n \in S PROVE n + 1 \in S
  <2>1. PICK f : f = [d \in D(n) |-> step(f, d)]
    BY <1>2
  <2>2. PICK g : g = [d \in D(n + 1) |-> step(f, d)]
    OBVIOUS
  <2>3. D(n) \subseteq D(n + 1)
    BY DepthIsNat
  <2>4. \A d \in D(n) : g[d] = f[d]
    <3> HIDE DEF step, D
    <3> QED BY <2>1, <2>2, <2>3
  <2>5. ASSUME NEW d \in D(n + 1) PROVE step(f, d) = step(g, d)
    <3>1. \A s \in SuperOf(d) \union InterfacesOf(d) : s \in D(n)
      <4> SUFFICES ASSUME NEW s \in SuperOf(d) \union InterfacesOf(d) PROVE s \in D(n)
        OBVIOUS
      <4>1. d \in Classes /\ Depth(d) < n + 1
        OBVIOUS
      <4>2. s \in Classes /\ Depth(s) < Depth(d)
        BY <4>1, ParentsAbove, NothingAboveItself
      <4>3. Depth(s) \in Nat /\ Depth(d) \in Nat
        BY <4>1, <4>2, DepthIsNat
      <4>4. Depth(s) < n
        BY <4>1, <4>2, <4>3
      <4> QED BY <4>2, <4>4
    <3>2. {f[s] : s \in SuperOf(d)} = {g[s] : s \in SuperOf(d)}
      BY <2>4, <3>1
    <3>3. [i \in InterfacesOf(d) |-> f[i]] = [i \in InterfacesOf(d) |-> g[i]]
      BY <2>4, <3>1
    <3> QED BY <3>2, <3>3
  <2> HIDE DEF step, D
  <2>6. g = [d \in D(n + 1) |-> step(g, d)]
    BY <2>2, <2>5
  <2> QED BY <2>6
<1>3. Cardinality(Classes) + 1 \in S
  <2>1. Cardinality(Classes) + 1 \in Nat
    BY HierarchyAssumption, FS_CardinalityType
  <2> HIDE DEF S
  <2> QED BY <1>1, <1>2, <2>1, SetInduction
<1>4. D(Cardinality(Classes) + 1) = Classes
  <2>1. Cardinality(Classes) \in Nat
    BY HierarchyAssumption, FS_CardinalityType
  <2> QED BY <2>1, DepthIsNat
<1>5. \E f : f = [d \in Classes |-> step(f, d)]
  <2> HIDE DEF step, D
  <2> QED BY <1>3, <1>4
<1>6. resolvedMethods = CHOOSE f : f = [d \in Classes |-> step(f, d)]
  BY DEF resolvedMethods
<1> HIDE DEF step
<1>7. PICK f : f = (CHOOSE h : h = [d \in Classes |-> step(h, d)])
  OBVIOUS
<1>8. f = [d \in Classes |-> step(f, d)]
  BY <1>5, <1>7
<1>9. f[c] = step(f, c)
  BY <1>8
<1>10. resolvedMethods[c] = step(resolvedMethods, c)
  BY <1>6, <1>7, <1>9
<1> QED BY <1>10 DEF step

(***************************************************************************)
(* The methods of a class: those of its superclass first, then what its    *)
(* interfaces add, then its own.                                           *)
(***************************************************************************)
Members == Classes \X Names
ProvidedBy(S) == {x \in provides : x[1] \in S}

ListsAllAbove(c) ==
    /\ resolvedMethods[c] # {}
    /\ \A entries \in resolvedMethods[c] :
          entries \in Seq(Members) /\ Range(entries) = ProvidedBy(Above(c))

(* Where the list entries of the class c comes from. *)
IsMergedFrom(entries, c, start, inherited) ==
    /\ \/ SuperOf(c) = {} /\ start = <<>>
       \/ \E s \in SuperOf(c) : start \in resolvedMethods[s]
    /\ start \in Seq(Members) /\ inherited \in Seq(Members) /\ entries \in Seq(Members)
    /\ Range(inherited) = Range(start) \union ProvidedBy(InterfacesOf(c))
    /\ Continues(inherited, start, ProvidedBy(InterfacesOf(c)))
    /\ Range(entries) = Range(inherited) \union ProvidedBy({c})
    /\ Continues(entries, inherited, ProvidedBy({c}) \ Range(inherited))

LEMMA OwnMethodsListed ==
    ASSUME IInv, NEW c \in Classes
    PROVE  OwnMethods(c) \in Seq(Members) /\ Range(OwnMethods(c)) = ProvidedBy({c})
<1>1. PICK T : T = {x \in provides : x[1] = c}
  OBVIOUS
<1>2. T \in SUBSET Members
  BY <1>1 DEF IInv, TypeOK, Members
<1>3. IsFiniteSet(T)
  BY <1>2, HierarchyAssumption, FS_Product, FS_Subset DEF Members
<1>4. SetToSeq(T) \in Seq(T) /\ Range(SetToSeq(T)) = T
  BY <1>3, ListsOfSet
<1>5. SetToSeq(T) \in Seq(Members)
  BY <1>2, <1>4, SeqMonotonic
<1>6. T = ProvidedBy({c})
  BY <1>1 DEF ProvidedBy
<1> QED BY <1>1, <1>4, <1>5, <1>6 DEF OwnMethods

LEMMA InterfacesAreClosed ==
    ASSUME IInv, NEW c \in Classes, NEW i \in InterfacesOf(c)
    PROVE  i \in Classes /\ i \in Above(i) /\ Above(i) \subseteq InterfacesOf(c)
<1>1. i \in Classes
  BY ParentsAbove
<1>2. PICK e \in implements : e[1] = c /\ i \in Above(e[2])
  BY DEF InterfacesOf
<1>3. e[2] \in Classes
  BY DEF IInv, TypeOK
<1>4. Above(i) \subseteq Above(e[2])
  BY <1>2, <1>3, ClosureTransitive DEF Above
<1>5. Above(e[2]) \subseteq InterfacesOf(c)
  BY <1>2 DEF InterfacesOf
<1> QED BY <1>1, <1>4, <1>5, ClosureReflexive DEF Above

LEMMA InterfacesFinite ==
    ASSUME IInv, NEW c \in Classes
    PROVE  IsFiniteSet(InterfacesOf(c))
<1>1. InterfacesOf(c) \in SUBSET Classes
  BY ParentsAbove
<1> QED BY <1>1, HierarchyAssumption, FS_Subset

LEMMA ResolvedParts ==
    ASSUME IInv, NEW c \in Classes,
           \A d \in SuperOf(c) \union InterfacesOf(c) : ListsAllAbove(d),
           NEW entries \in resolvedMethods[c]
    PROVE  \E start, inherited : IsMergedFrom(entries, c, start, inherited)
<1> DEFINE inh == IF SuperOf(c) = {} THEN {<<>>} ELSE UNION {resolvedMethods[s] : s \in SuperOf(c)}
           ifs == [i \in InterfacesOf(c) |-> resolvedMethods[i]]
<1>1. entries \in methodsOf(c, inh, ifs)
  BY ResolvedIsRecursive
<1>2. DOMAIN ifs = InterfacesOf(c) /\ \A i \in InterfacesOf(c) : ifs[i] = resolvedMethods[i]
  OBVIOUS
<1> HIDE DEF inh, ifs
<1>3. PICK start \in inh, list \in OneOfEach(ifs), is \in SetToSeqs(InterfacesOf(c)) :
         entries = merge(mergeAll(start, [k \in DOMAIN is |-> list[is[k]]]), OwnMethods(c))
  BY <1>1, <1>2 DEF methodsOf
<1>4. PICK lists : lists = [k \in DOMAIN is |-> list[is[k]]]
  OBVIOUS
<1>5. PICK inherited : inherited = mergeAll(start, lists)
  OBVIOUS
<1>6. \/ SuperOf(c) = {} /\ start = <<>>
      \/ \E s \in SuperOf(c) : start \in resolvedMethods[s]
  BY <1>3 DEF inh
<1>7. start \in Seq(Members)
  <2>1. CASE start = <<>>
    BY <2>1
  <2>2. ASSUME NEW s \in SuperOf(c), start \in resolvedMethods[s] PROVE start \in Seq(Members)
    BY <2>2 DEF ListsAllAbove
  <2> QED BY <1>6, <2>1, <2>2
<1>8. is \in Seq(InterfacesOf(c)) /\ Range(is) = InterfacesOf(c)
  BY InterfacesFinite, ListsOfSet
<1>9. ASSUME NEW i \in InterfacesOf(c)
      PROVE  list[i] \in Seq(Members) /\ Range(list[i]) = ProvidedBy(Above(i))
  <2>1. list[i] \in ifs[i]
    BY <1>2 DEF OneOfEach
  <2>2. list[i] \in resolvedMethods[i]
    BY <1>2, <2>1
  <2> QED BY <2>2 DEF ListsAllAbove
<1>10. DOMAIN is = 1 .. Len(is) /\ Len(is) \in Nat /\ \A k \in DOMAIN is : is[k] \in InterfacesOf(c)
  BY <1>8, LenProperties
<1>11. lists \in Seq(Seq(Members))
  <2>1. \A k \in 1 .. Len(is) : list[is[k]] \in Seq(Members)
    BY <1>9, <1>10
  <2>2. lists \in [1 .. Len(is) -> Seq(Members)]
    BY <1>4, <1>10, <2>1
  <2> QED BY <1>10, <2>2, SeqDef
<1>12. UNION {Range(lists[k]) : k \in DOMAIN lists} = ProvidedBy(InterfacesOf(c))
  <2>1. DOMAIN lists = DOMAIN is /\ \A k \in DOMAIN is : lists[k] = list[is[k]]
    BY <1>4
  <2>2. ASSUME NEW k \in DOMAIN lists PROVE Range(lists[k]) \subseteq ProvidedBy(InterfacesOf(c))
    <3>1. is[k] \in InterfacesOf(c) /\ Range(lists[k]) = ProvidedBy(Above(is[k]))
      BY <1>9, <1>10, <2>1
    <3>2. Above(is[k]) \subseteq InterfacesOf(c)
      BY <3>1, InterfacesAreClosed
    <3> QED BY <3>1, <3>2 DEF ProvidedBy
  <2>3. ASSUME NEW x \in ProvidedBy(InterfacesOf(c))
        PROVE  \E k \in DOMAIN lists : x \in Range(lists[k])
    <3>1. x \in provides /\ x[1] \in InterfacesOf(c)
      BY DEF ProvidedBy
    <3>2. PICK k \in DOMAIN is : is[k] = x[1]
      BY <1>8, <3>1 DEF Range
    <3>3. Range(lists[k]) = ProvidedBy(Above(x[1]))
      BY <1>9, <2>1, <3>1, <3>2
    <3>4. x[1] \in Above(x[1])
      BY <3>1, InterfacesAreClosed
    <3> QED BY <2>1, <3>1, <3>3, <3>4 DEF ProvidedBy
  <2> HIDE DEF ProvidedBy
  <2> QED BY <2>2, <2>3
<1>13. /\ inherited \in Seq(Members)
       /\ Range(inherited) = Range(start) \union ProvidedBy(InterfacesOf(c))
       /\ Continues(inherited, start, ProvidedBy(InterfacesOf(c)))
  <2>1. PICK others : /\ others = ProvidedBy(InterfacesOf(c))
                      /\ others = UNION {Range(lists[k]) : k \in DOMAIN lists}
    BY <1>12
  <2>2. /\ inherited \in Seq(Members)
        /\ Range(inherited) = Range(start) \union others
        /\ Continues(inherited, start, others)
    <3>1. others = UNION {Range(lists[k]) : k \in DOMAIN lists}
      BY <2>1
    <3>2. mergeAll(start, lists) \in Seq(Members)
      BY <1>7, <1>11, <3>1, MergeAllAdds
    <3>3. Range(mergeAll(start, lists)) = Range(start) \union others
      <4>1. \A x : x \in Range(mergeAll(start, lists)) <=> x \in Range(start) \/ x \in others
        BY <1>7, <1>11, <3>1, MergeAllAdds
      <4> QED BY ONLY <4>1
    <3>4. Continues(mergeAll(start, lists), start, others)
      BY <1>7, <1>11, <3>1, MergeAllAdds
    <3> QED BY ONLY <1>5, <3>2, <3>3, <3>4
  <2> QED BY ONLY <2>1, <2>2
<1>14. entries = merge(inherited, OwnMethods(c))
  BY <1>3, <1>4, <1>5
<1>15. /\ entries \in Seq(Members)
       /\ Range(entries) = Range(inherited) \union ProvidedBy({c})
       /\ Continues(entries, inherited, ProvidedBy({c}) \ Range(inherited))
  <2>1. PICK own \in Seq(Members) : own = OwnMethods(c) /\ Range(own) = ProvidedBy({c})
    BY OwnMethodsListed
  <2>2. inherited \in Seq(Members)
    BY <1>13
  <2>3. merge(inherited, own) \in Seq(Members)
    BY <2>2, MergeAdds
  <2>4. Range(merge(inherited, own)) = Range(inherited) \union Range(own)
    BY <2>2, MergeAdds
  <2>5. Continues(merge(inherited, own), inherited, Range(own) \ Range(inherited))
    BY <2>2, MergeAdds
  <2> QED BY ONLY <1>14, <2>1, <2>3, <2>4, <2>5
<1>16. IsMergedFrom(entries, c, start, inherited)
  BY <1>6, <1>7, <1>13, <1>15 DEF IsMergedFrom
<1> QED BY <1>16

LEMMA ClosureSplit ==
    ASSUME NEW F, F \subseteq Classes \X Classes, NEW c \in Classes, NEW d \in Closure(F, c), d # c
    PROVE  \E e \in F : e[1] = c /\ d \in Closure(F, e[2])
<1> DEFINE S == {x \in Classes : x = c \/ \E e \in F : e[1] = c /\ x \in Closure(F, e[2])}
<1>1. c \in S
  OBVIOUS
<1>2. ASSUME NEW e \in F, e[1] \in S PROVE e[2] \in S
  <2>0. e[1] \in Classes /\ e[2] \in Classes /\ <<e[1], e[2]>> \in F
    OBVIOUS
  <2>1. CASE e[1] = c
    BY <2>0, <2>1, ClosureReflexive
  <2>2. CASE e[1] # c
    <3>1. PICK f \in F : f[1] = c /\ e[1] \in Closure(F, f[2])
      BY <1>2, <2>2
    <3>2. e[2] \in Closure(F, e[1])
      BY <2>0, ClosureEdge
    <3>3. f[2] \in Classes
      OBVIOUS
    <3>4. e[2] \in Closure(F, f[2])
      BY <3>1, <3>2, <3>3, ClosureTransitive
    <3> QED BY <2>0, <3>1, <3>4
  <2> QED BY <2>1, <2>2
<1>3. d \in S
  BY <1>1, <1>2 DEF Closure
<1> QED BY <1>3

LEMMA AboveParts ==
    ASSUME IInv, NEW c \in Classes
    PROVE  /\ \A d \in Above(c) : \/ d = c \/ d \in InterfacesOf(c)
                                  \/ \E s \in SuperOf(c) : d \in Above(s)
           /\ c \in Above(c) /\ InterfacesOf(c) \subseteq Above(c)
           /\ \A s \in SuperOf(c) : Above(s) \subseteq Above(c)
<1> DEFINE F == extends \union implements
<1>1. F \subseteq Classes \X Classes
  BY DEF IInv, TypeOK
<1>2. \A d : Above(d) = Closure(F, d)
  BY DEF Above
<1>3. ASSUME NEW e \in F, e[1] = c PROVE Above(e[2]) \subseteq Above(c)
  <2>1. e[2] \in Classes /\ <<c, e[2]>> \in F
    BY <1>1, <1>3
  <2> HIDE DEF F
  <2>2. e[2] \in Closure(F, c)
    BY <2>1, ClosureEdge
  <2> QED BY <1>2, <2>2, ClosureTransitive
<1>4. ASSUME NEW d \in Above(c), d # c
      PROVE  \/ d \in InterfacesOf(c)
             \/ \E s \in SuperOf(c) : d \in Above(s)
  <2>1. PICK e \in F : e[1] = c /\ d \in Closure(F, e[2])
    <3> HIDE DEF F
    <3> QED BY <1>1, <1>2, <1>4, ClosureSplit
  <2>2. CASE e \in extends
    BY <1>2, <2>1, <2>2 DEF SuperOf
  <2>3. CASE e \in implements
    BY <1>2, <2>1, <2>3 DEF InterfacesOf
  <2> QED BY <2>1, <2>2, <2>3
<1>5. c \in Above(c)
  BY ClosureReflexive DEF Above
<1>6. InterfacesOf(c) \subseteq Above(c)
  BY <1>3 DEF InterfacesOf
<1>7. \A s \in SuperOf(c) : Above(s) \subseteq Above(c)
  BY <1>3 DEF SuperOf
<1> QED BY <1>4, <1>5, <1>6, <1>7

(* A class has one superclass. *)
LEMMA SuperIsSuper ==
    ASSUME EdgesLead, NEW c, NEW s \in SuperOf(c)
    PROVE  s = Super(c) /\ s # None /\ s \in Linked /\ SuperOf(c) = {s}
<1>1. \A e \in extends : e[1] = c => e[2] = Super(c) /\ e[2] # None /\ e[2] \in Linked
  BY DEF EdgesLead
<1> QED BY <1>1 DEF SuperOf

LEMMA ListAbove ==
    ASSUME IInv, EdgesLead, NEW c \in Classes,
           \A d \in SuperOf(c) \union InterfacesOf(c) : ListsAllAbove(d)
    PROVE  ListsAllAbove(c)
<1>1. ASSUME NEW entries \in resolvedMethods[c]
      PROVE  entries \in Seq(Members) /\ Range(entries) = ProvidedBy(Above(c))
  <2>1. PICK start, inherited : IsMergedFrom(entries, c, start, inherited)
    BY ResolvedParts
  <2>2. /\ entries \in Seq(Members)
        /\ Range(entries) = Range(start) \union ProvidedBy(InterfacesOf(c)) \union ProvidedBy({c})
    BY <2>1 DEF IsMergedFrom
  <2>3. \A x : x \in Range(start) <=> \E s \in SuperOf(c) : x \in ProvidedBy(Above(s))
    <3>1. CASE SuperOf(c) = {}
      <4>1. start = <<>>
        BY <2>1, <3>1 DEF IsMergedFrom
      <4> QED BY <3>1, <4>1 DEF Range
    <3>2. ASSUME NEW s \in SuperOf(c) PROVE Range(start) = ProvidedBy(Above(s)) /\ SuperOf(c) = {s}
      <4>1. SuperOf(c) = {s}
        BY SuperIsSuper
      <4>2. start \in resolvedMethods[s]
        BY <2>1, <4>1 DEF IsMergedFrom
      <4> QED BY <4>1, <4>2 DEF ListsAllAbove
    <3> QED BY <3>1, <3>2
  <2>4. \A x : x \in Range(entries) <=> x \in ProvidedBy(Above(c))
    BY <2>2, <2>3, AboveParts DEF ProvidedBy
  <2> QED BY <2>2, <2>4
<1>2. resolvedMethods[c] # {}
  <2> DEFINE inh == IF SuperOf(c) = {} THEN {<<>>} ELSE UNION {resolvedMethods[s] : s \in SuperOf(c)}
             ifs == [i \in InterfacesOf(c) |-> resolvedMethods[i]]
  <2>1. inh # {}
    <3>1. CASE SuperOf(c) = {}
      BY <3>1
    <3>2. ASSUME NEW s \in SuperOf(c) PROVE inh # {}
      <4>1. SuperOf(c) # {} /\ resolvedMethods[s] # {}
        BY DEF ListsAllAbove
      <4>2. PICK l : l \in resolvedMethods[s]
        BY <4>1
      <4>3. l \in inh
        BY <4>1, <4>2
      <4> QED BY <4>3
    <3> QED BY <3>1, <3>2
  <2>2. OneOfEach(ifs) # {}
    <3>1. PICK f : f = [i \in DOMAIN ifs |-> CHOOSE y \in ifs[i] : TRUE]
      OBVIOUS
    <3>2. \A i \in DOMAIN ifs : ifs[i] # {}
      BY DEF ListsAllAbove
    <3> HIDE DEF ifs
    <3>3. \A i \in DOMAIN ifs : f[i] \in ifs[i] /\ ifs[i] \in Range(ifs)
      BY <3>1, <3>2 DEF Range
    <3>4. f \in [DOMAIN ifs -> UNION Range(ifs)]
      BY <3>1, <3>3
    <3>5. f \in OneOfEach(ifs)
      BY <3>3, <3>4 DEF OneOfEach
    <3> QED BY <3>5
  <2>3. SetToSeqs(DOMAIN ifs) # {}
    BY InterfacesFinite, ListsOfSet
  <2>4. resolvedMethods[c] = methodsOf(c, inh, ifs)
    BY ResolvedIsRecursive
  <2> HIDE DEF inh, ifs
  <2>5. methodsOf(c, inh, ifs) # {}
    <3>1. PICK start \in inh, list \in OneOfEach(ifs), js \in SetToSeqs(DOMAIN ifs) : TRUE
      BY <2>1, <2>2, <2>3
    <3> DEFINE joined(s, f, is) ==
                 merge(mergeAll(s, [k \in DOMAIN is |-> f[is[k]]]), OwnMethods(c))
    <3>2. methodsOf(c, inh, ifs) =
            {joined(s, f, is) : s \in inh, f \in OneOfEach(ifs), is \in SetToSeqs(DOMAIN ifs)}
      BY DEF methodsOf
    <3> HIDE DEF joined
    <3>3. joined(start, list, js) \in methodsOf(c, inh, ifs)
      BY <3>1, <3>2
    <3> QED BY <3>3
  <2> QED BY <2>4, <2>5
<1> QED BY <1>1, <1>2 DEF ListsAllAbove

LEMMA ListsAreComplete ==
    ASSUME IInv, EdgesLead, NEW c \in Classes
    PROVE  ListsAllAbove(c)
<1> DEFINE S == {n \in Nat : \A d \in Classes : Depth(d) < n => ListsAllAbove(d)}
<1>1. 0 \in S
  BY DepthIsNat
<1>2. ASSUME NEW n \in Nat, n \in S PROVE n + 1 \in S
  <2> SUFFICES ASSUME NEW d \in Classes, Depth(d) < n + 1 PROVE ListsAllAbove(d)
    OBVIOUS
  <2>1. ASSUME NEW s \in SuperOf(d) \union InterfacesOf(d) PROVE ListsAllAbove(s)
    <3>1. s \in Classes /\ Depth(s) < Depth(d)
      BY ParentsAbove, NothingAboveItself
    <3>2. Depth(s) \in Nat /\ Depth(d) \in Nat
      BY <3>1, DepthIsNat
    <3>3. Depth(s) < n
      BY <3>1, <3>2
    <3> QED BY <1>2, <3>1, <3>3
  <2> QED BY <2>1, ListAbove
<1>3. Depth(c) + 1 \in Nat /\ Depth(c) \in Nat /\ Depth(c) < Depth(c) + 1
  BY DepthIsNat
<1>4. Depth(c) + 1 \in S
  <2> HIDE DEF S
  <2> QED BY <1>1, <1>2, <1>3, SetInduction
<1> QED BY <1>3, <1>4

-----------------------------------------------------------------------------
(***************************************************************************)
(* When linking is done, the graph has all edges above a linked class, and *)
(* only interfaces are implemented.                                        *)
(***************************************************************************)
ImplementsInterfaces ==
    \A e \in implements : \E n \in DOMAIN Interfaces(e[1]) : e[2] = Interfaces(e[1])[n]

LEMMA InterfacesStayImplemented ==
    ASSUME IInv, ImplementsInterfaces, [Next]_vars
    PROVE  ImplementsInterfaces'
<1>1. ASSUME UNCHANGED <<program, implements>> PROVE ImplementsInterfaces'
  BY <1>1 DEF ImplementsInterfaces, Interfaces, ClassFiles
<1>2. CASE AddInterface
  <2>1. PICK a : a = Head(todo)
    OBVIOUS
  <2>2. /\ todo # <<>> /\ a.op = "implements" /\ program' = program
        /\ implements' = implements \union {<<a.c, ClassFiles.interfaces[a.c][a.n]>>}
    BY <1>2, <2>1 DEF AddInterface, Top
  <2>3. a.n \in DOMAIN Interfaces(a.c)
    BY <2>1, <2>2, HeadOfTodo DEF IsJustified, Interfaces
  <2>4. \A c : Interfaces(c)' = Interfaces(c)
    BY <2>2 DEF Interfaces, ClassFiles
  <2>5. ASSUME NEW e \in implements'
        PROVE  \E n \in DOMAIN Interfaces(e[1]) : e[2] = Interfaces(e[1])[n]
    <3>1. CASE e \in implements
      BY <3>1 DEF ImplementsInterfaces
    <3>2. CASE e \notin implements
      <4>1. e[1] = a.c /\ e[2] = Interfaces(a.c)[a.n]
        BY <2>2, <3>2 DEF Interfaces
      <4> QED BY <2>3, <4>1
    <3> QED BY <3>1, <3>2
  <2> QED BY <2>4, <2>5 DEF ImplementsInterfaces
<1>3. CASE ~AddInterface
  <2>1. UNCHANGED <<program, implements>>
    BY <1>3 DEF Next, vars, FindClass, AddClass, AddSuper, InitializeClass, NextInterface,
                FindVirtual, NextOfInterfaces, OwnMethod, PrivateMethod, StaticMethod,
                StaticField, NextInstruction, StartAbstract, NextClass, NextOfHierarchy,
                NextAbstract, Finish
  <2> QED BY <1>1, <2>1
<1> QED BY <1>2, <1>3

LEMMA ImplementedAreInterfaces ==
    ASSUME IInv, ImplementsInterfaces
    PROVE  \A c \in Classes : InterfacesOf(c) \subseteq ClassFiles.isInterface
<1>1. \A e \in ProgramEdges(program) :
         e[1] \in ClassFiles.isInterface => e[2] \in ClassFiles.isInterface
  <2> SUFFICES ASSUME NEW e \in ProgramEdges(program), e[1] \in ClassFiles.isInterface
               PROVE  e[2] \in ClassFiles.isInterface
    OBVIOUS
  <2>1. PICK c \in Classes : \/ Super(c) # None /\ e = <<c, Super(c)>>
                             \/ \E n \in DOMAIN Interfaces(c) : e = <<c, Interfaces(c)[n]>>
    BY EdgeKinds
  <2>2. program \in DOMAIN Programs
    BY DEF IInv, TypeOK
  <2>3. /\ Super(c) # None => c \notin ClassFiles.isInterface
        /\ \A n \in DOMAIN Interfaces(c) : Interfaces(c)[n] \in ClassFiles.isInterface
    BY <2>2, HierarchyAssumption DEF Super, Interfaces, ClassFiles, Range
  <2> QED BY <2>1, <2>3
<1>2. ASSUME NEW i \in Classes, i \in ClassFiles.isInterface
      PROVE  ProgramAbove(program, i) \subseteq ClassFiles.isInterface
  <2> DEFINE S == Classes \cap ClassFiles.isInterface
             E == ProgramEdges(program)
  <2>1. i \in S /\ \A e \in E : e[1] \in S => e[2] \in S
    BY <1>1, <1>2, EdgeLeadsUp
  <2>2. S \in SUBSET Classes /\ ProgramAbove(program, i) = Closure(E, i)
    BY AboveIsClosure
  <2> HIDE DEF S, E
  <2>3. Closure(E, i) \subseteq S
    BY <2>1, <2>2 DEF Closure
  <2> QED BY <2>2, <2>3 DEF S
<1>3. ASSUME NEW e \in implements
      PROVE  Above(e[2]) \subseteq ClassFiles.isInterface
  <2>1. program \in DOMAIN Programs /\ e[1] \in Classes /\ e[2] \in Classes
    BY DEF IInv, TypeOK
  <2>2. e[2] \in ClassFiles.isInterface
    BY <2>1, HierarchyAssumption DEF ImplementsInterfaces, Interfaces, ClassFiles, Range
  <2> QED BY <1>2, <2>1, <2>2, AboveIsAbove
<1> QED BY <1>3 DEF InterfacesOf

IsDone == IInv /\ ResolvesInv /\ ImplementsInterfaces /\ phase = "done"

LEMMA DoneSeesAll ==
    ASSUME IsDone, NEW c \in Linked
    PROVE  /\ c \in Classes
           /\ Above(c) = ProgramAbove(program, c)
           /\ ProgramAbove(program, c) \subseteq Linked
           /\ Super(c) # None => Super(c) \in SuperOf(c)
<1> DEFINE E == ProgramEdges(program)
           F == extends \union implements
           S == {x \in Classes : x \in Linked /\ x \in Closure(F, c)}
<1> USE DEF IsDone
<1>1. todo = <<>>
  BY DEF ResolvesInv, EndsWell
<1>2. \A a : ~OnStack(a)
  BY <1>1 DEF OnStack
<1>3. \A d \in Linked : /\ Super(d) # None => <<d, Super(d)>> \in extends
                        /\ \A n \in DOMAIN Interfaces(d) : <<d, Interfaces(d)[n]>> \in implements
  BY <1>2 DEF ResolvesInv, EdgesCome, SuperComes, InterfaceComes
<1>4. c \in Classes /\ c \in S
  BY LinkedAreClasses, ClosureReflexive
<1>5. ASSUME NEW e \in E, e[1] \in S PROVE e[2] \in S
  <2>1. PICK x \in Classes : \/ Super(x) # None /\ e = <<x, Super(x)>>
                             \/ \E n \in DOMAIN Interfaces(x) : e = <<x, Interfaces(x)[n]>>
    BY EdgeKinds
  <2>2. e[1] = x /\ x \in Linked /\ x \in Closure(F, c) /\ e = <<x, e[2]>>
    BY <1>5, <2>1
  <2>3. e \in F
    BY <1>3, <2>1, <2>2
  <2>4. e[2] \in Linked /\ e[2] \in Classes
    BY <2>3, LinkedAreClasses DEF ResolvesInv, EdgesLead
  <2>5. e[2] \in Closure(F, x)
    <3> HIDE DEF F
    <3> QED BY <2>2, <2>3, <2>4, ClosureEdge
  <2>6. e[2] \in Closure(F, c)
    <3> HIDE DEF F
    <3> QED BY <1>4, <2>2, <2>5, ClosureTransitive
  <2> QED BY <2>4, <2>6
<1>6. ProgramAbove(program, c) = Closure(E, c) /\ S \in SUBSET Classes
  BY <1>4, AboveIsClosure
<1>7. ProgramAbove(program, c) \subseteq S
  <2> HIDE DEF S, E
  <2> QED BY <1>4, <1>5, <1>6 DEF Closure
<1>8. Above(c) \subseteq ProgramAbove(program, c)
  BY <1>4, AboveIsAbove
<1>9. S \subseteq Above(c)
  BY DEF Above
<1>10. ASSUME Super(c) # None PROVE Super(c) \in SuperOf(c)
  <2>1. PICK e \in extends : e = <<c, Super(c)>>
    BY <1>3, <1>10
  <2>2. e[1] = c /\ e[2] = Super(c)
    BY <2>1
  <2> QED BY <2>2 DEF SuperOf
<1> QED BY <1>4, <1>7, <1>8, <1>9, <1>10

(***************************************************************************)
(* The methods of a linked class that can be called.                       *)
(***************************************************************************)
LEMMA CallableEntries ==
    ASSUME IsDone, NEW c \in Linked, NEW entries \in resolvedMethods[c], NEW m \in Names
    PROVE  /\ entries \in Seq(Members)
           /\ Callable(entries, m) \subseteq 1 .. Len(entries) /\ Len(entries) \in Nat
           /\ \A i \in Callable(entries, m) :
                 /\ entries[i][1] \in ProgramAbove(program, c)
                 /\ <<entries[i][1], m>> \in provides
                 /\ IsConcrete(entries[i][1], m)
           /\ \A t \in ProgramAbove(program, c) : <<t, m>> \in provides /\ IsConcrete(t, m) =>
                 \E i \in Callable(entries, m) : entries[i][1] = t
<1>1. /\ c \in Classes /\ Above(c) = ProgramAbove(program, c)
      /\ ListsAllAbove(c)
  BY DoneSeesAll, ListsAreComplete DEF IsDone, ResolvesInv
<1>2. entries \in Seq(Members) /\ Range(entries) = ProvidedBy(ProgramAbove(program, c))
  BY <1>1 DEF ListsAllAbove
<1>3. DOMAIN entries = 1 .. Len(entries) /\ Len(entries) \in Nat
  BY <1>2, LenProperties
<1>4. ASSUME NEW i \in Callable(entries, m)
      PROVE  /\ entries[i][1] \in ProgramAbove(program, c)
             /\ <<entries[i][1], m>> \in provides
             /\ IsConcrete(entries[i][1], m)
  <2>1. i \in DOMAIN entries /\ entries[i][2] = m /\ IsConcrete(entries[i][1], m)
    BY DEF Callable
  <2>2. entries[i] \in ProvidedBy(ProgramAbove(program, c)) /\ entries[i] \in Members
    BY <1>2, <2>1 DEF Range
  <2>3. entries[i] = <<entries[i][1], m>>
    BY <2>1, <2>2 DEF Members
  <2> QED BY <2>1, <2>2, <2>3 DEF ProvidedBy
<1>5. ASSUME NEW t \in ProgramAbove(program, c), <<t, m>> \in provides, IsConcrete(t, m)
      PROVE  \E i \in Callable(entries, m) : entries[i][1] = t
  <2>1. <<t, m>> \in Range(entries)
    BY <1>2, <1>5 DEF ProvidedBy
  <2>2. PICK i \in DOMAIN entries : entries[i] = <<t, m>>
    BY <2>1 DEF Range
  <2>3. i \in Callable(entries, m)
    BY <1>5, <2>2 DEF Callable
  <2> QED BY <2>2, <2>3
<1>6. Callable(entries, m) \subseteq 1 .. Len(entries)
  BY <1>3 DEF Callable
<1> QED BY <1>2, <1>3, <1>4, <1>5, <1>6

LEMMA FirstAndLast ==
    ASSUME NEW n \in Nat, NEW T \in SUBSET (1 .. n), T # {}
    PROVE  /\ \E i \in T : \A j \in T : i <= j
           /\ \E i \in T : \A j \in T : j <= i
<1> DEFINE HasEnds(U) == /\ \E i \in U : \A j \in U : i <= j
                         /\ \E i \in U : \A j \in U : j <= i
           S == {k \in Nat : \A U \in SUBSET (1 .. k) : U # {} => HasEnds(U)}
<1>1. 0 \in S
  <2>1. 1 .. 0 = {}
    OBVIOUS
  <2> QED BY <2>1
<1>2. ASSUME NEW k \in Nat, k \in S PROVE k + 1 \in S
  <2> SUFFICES ASSUME NEW U \in SUBSET (1 .. k + 1), U # {} PROVE HasEnds(U)
    OBVIOUS
  <2>1. U \ {k + 1} \in SUBSET (1 .. k)
    OBVIOUS
  <2>2. CASE k + 1 \notin U
    BY <1>2, <2>1, <2>2
  <2>3. CASE U = {k + 1}
    BY <2>3
  <2>4. CASE k + 1 \in U /\ U \ {k + 1} # {}
    <3>1. PICK i \in U \ {k + 1} : \A j \in U \ {k + 1} : i <= j
      BY <1>2, <2>1, <2>4
    <3>2. i <= k + 1 /\ \A j \in U : j <= k + 1
      OBVIOUS
    <3>3. \A j \in U : i <= j
      BY <3>1, <3>2
    <3> QED BY <2>4, <3>2, <3>3
  <2> QED BY <2>2, <2>3, <2>4
<1>3. n \in S
  <2> HIDE DEF S
  <2> QED BY <1>1, <1>2, SetInduction
<1> QED BY <1>3

(* The first and the last one is the method of t if that is the only one   *)
(* that can be called.                                                     *)
LEMMA OnlyOneCallable ==
    ASSUME IsDone, NEW c \in Linked, NEW m \in Names, NEW t \in ProgramAbove(program, c),
           <<t, m>> \in provides, IsConcrete(t, m),
           \A d \in ProgramAbove(program, c) \ {t} : <<d, m>> \in provides => ~IsConcrete(d, m)
    PROVE  PrototypeMethod(c, m) = {t} /\ resolvevtableindex(c, m) = {t}
<1>1. c \in Classes /\ t \in Classes
  BY DoneSeesAll, AboveIsClosure DEF IsDone
<1>2. resolvedMethods[c] # {}
  BY <1>1, ListsAreComplete DEF IsDone, ResolvesInv, ListsAllAbove
<1>3. ASSUME NEW entries \in resolvedMethods[c]
      PROVE  /\ \A i \in Callable(entries, m) : entries[i][1] = t
             /\ \E i \in Callable(entries, m) : \A j \in Callable(entries, m) : i <= j
             /\ \E i \in Callable(entries, m) : \A j \in Callable(entries, m) : j <= i
  <2>1. \A i \in Callable(entries, m) : entries[i][1] = t
    BY CallableEntries
  <2>2. Callable(entries, m) # {}
    BY CallableEntries
  <2>3. Callable(entries, m) \in SUBSET (1 .. Len(entries)) /\ Len(entries) \in Nat
    BY CallableEntries
  <2> QED BY <2>1, <2>2, <2>3, FirstAndLast
<1>4. PrototypeMethod(c, m) = {t}
  BY <1>1, <1>2, <1>3 DEF PrototypeMethod
<1>5. resolvevtableindex(c, m) = {t}
  BY <1>1, <1>2, <1>3 DEF resolvevtableindex
<1> QED BY <1>4, <1>5

-----------------------------------------------------------------------------
(***************************************************************************)
(* The method t of a class above c is selected when c is called: then, in  *)
(* the list of c, it stands behind all methods of its name.                *)
(***************************************************************************)
DeclaringClasses(c, m) ==
    {d \in ProgramAbove(program, c) : Declares(d, m)} \ ClassFiles.isInterface

IsSelected(c, m, t) ==
    /\ t \in Nearest(DeclaringClasses(c, m))
    /\ <<t, m>> \in provides /\ IsConcrete(t, m)
    /\ \A d \in ProgramAbove(program, c) : ~IsDefault(d, m)

IsLast(entries, m, t) ==
    \E i \in Callable(entries, m) :
        entries[i][1] = t /\ \A j \in Callable(entries, m) : i <= j => entries[j][1] = t

LEMMA OwnMethodIsLast ==
    ASSUME IsDone, NEW c \in Linked, NEW m \in Names, <<c, m>> \in provides, IsConcrete(c, m),
           NEW entries \in resolvedMethods[c]
    PROVE  IsLast(entries, m, c)
<1>1. c \in Classes /\ \A d \in SuperOf(c) \union InterfacesOf(c) : d \in Classes /\ ListsAllAbove(d)
  BY DoneSeesAll, ParentsAbove, ListsAreComplete DEF IsDone, ResolvesInv
<1>2. PICK start, inherited : IsMergedFrom(entries, c, start, inherited)
  BY <1>1, ResolvedParts DEF IsDone
<1>3. Len(inherited) \in Nat /\ Len(entries) \in Nat /\ DOMAIN inherited = 1 .. Len(inherited)
  BY <1>2, LenProperties DEF IsMergedFrom
<1>4. <<c, m>> \notin Range(inherited)
  <2>1. \A d \in SuperOf(c) : c \notin Above(d)
    <3> SUFFICES ASSUME NEW d \in SuperOf(c) PROVE c \notin Above(d)
      OBVIOUS
    <3>1. c \notin ProgramAbove(program, d)
      BY <1>1, ParentsAbove, NothingAboveItself DEF IsDone
    <3> QED BY <1>1, <3>1, AboveIsAbove DEF IsDone
  <2>2. c \notin InterfacesOf(c)
    BY <1>1, ParentsAbove DEF IsDone
  <2>3. <<c, m>> \notin Range(start)
    <3>1. CASE start = <<>>
      BY <3>1 DEF Range
    <3>2. ASSUME NEW s \in SuperOf(c), start \in resolvedMethods[s] PROVE <<c, m>> \notin Range(start)
      <4>1. Range(start) = ProvidedBy(Above(s))
        BY <1>1, <3>2 DEF ListsAllAbove
      <4> QED BY <2>1, <4>1 DEF ProvidedBy
    <3> QED BY <1>2, <3>1, <3>2 DEF IsMergedFrom
  <2> QED BY <1>2, <2>2, <2>3 DEF IsMergedFrom, ProvidedBy
<1>5. PICK i \in Callable(entries, m) : entries[i][1] = c
  <2>1. c \in ProgramAbove(program, c)
    BY <1>1, AboveItself DEF IsDone
  <2> QED BY <2>1, CallableEntries
<1>6. Callable(entries, m) \subseteq 1 .. Len(entries)
  BY CallableEntries
<1>7. entries[i] = <<c, m>>
  <2>1. i \in 1 .. Len(entries) /\ entries \in Seq(Members) /\ entries[i][2] = m
    BY <1>2, <1>6 DEF IsMergedFrom, Callable
  <2>2. entries[i] \in Members
    BY <2>1
  <2> QED BY <1>5, <2>1, <2>2 DEF Members
<1>8. i > Len(inherited)
  <2>1. i \in 1 .. Len(inherited) => entries[i] \in Range(inherited)
    <3> SUFFICES ASSUME i \in 1 .. Len(inherited) PROVE entries[i] \in Range(inherited)
      OBVIOUS
    <3>1. entries[i] = inherited[i]
      BY <1>2 DEF IsMergedFrom, Continues
    <3> QED BY <1>3, <3>1 DEF Range
  <2> QED BY <1>3, <1>4, <1>6, <1>7, <2>1
<1>9. ASSUME NEW j \in Callable(entries, m), i <= j PROVE entries[j][1] = c
  <2>1. j \in 1 .. Len(entries) /\ j > Len(inherited)
    BY <1>3, <1>6, <1>8, <1>9
  <2>2. entries[j] \in ProvidedBy({c})
    BY <1>2, <2>1 DEF IsMergedFrom, Continues
  <2> QED BY <2>2 DEF ProvidedBy
<1> QED BY <1>5, <1>9 DEF IsLast

LEMMA InheritedMethodIsLast ==
    ASSUME IsDone, NEW c \in Linked, NEW m \in Names, NEW t, IsSelected(c, m, t), ~Declares(c, m),
           NEW s \in SuperOf(c),
           \A e \in resolvedMethods[s] : IsLast(e, m, t),
           NEW entries \in resolvedMethods[c]
    PROVE  IsLast(entries, m, t)
<1>1. c \in Classes /\ \A d \in SuperOf(c) \union InterfacesOf(c) : d \in Classes /\ ListsAllAbove(d)
  BY DoneSeesAll, ParentsAbove, ListsAreComplete DEF IsDone, ResolvesInv
<1>2. PICK start, inherited : IsMergedFrom(entries, c, start, inherited)
  BY <1>1, ResolvedParts DEF IsDone
<1>3. start \in resolvedMethods[s]
  <2>1. SuperOf(c) = {s}
    BY SuperIsSuper DEF IsDone, ResolvesInv
  <2> QED BY <1>2, <2>1 DEF IsMergedFrom
<1>4. PICK i \in Callable(start, m) :
         start[i][1] = t /\ \A j \in Callable(start, m) : i <= j => start[j][1] = t
  BY <1>3 DEF IsLast
<1>5. /\ Len(start) \in Nat /\ Len(inherited) \in Nat /\ Len(entries) \in Nat
      /\ DOMAIN start = 1 .. Len(start) /\ DOMAIN inherited = 1 .. Len(inherited)
      /\ DOMAIN entries = 1 .. Len(entries)
  BY <1>2, LenProperties DEF IsMergedFrom
<1>6. /\ Len(start) <= Len(inherited) /\ Len(inherited) <= Len(entries)
      /\ \A j \in 1 .. Len(start) : inherited[j] = start[j]
      /\ \A j \in 1 .. Len(inherited) : entries[j] = inherited[j]
      /\ \A j \in 1 .. Len(inherited) : j > Len(start) => inherited[j] \in ProvidedBy(InterfacesOf(c))
      /\ \A j \in 1 .. Len(entries) : j > Len(inherited) => entries[j] \in ProvidedBy({c})
  BY <1>2 DEF IsMergedFrom, Continues
<1>7. i \in 1 .. Len(start) /\ i \in 1 .. Len(entries) /\ entries[i] = start[i]
  <2>1. i \in 1 .. Len(start)
    BY <1>5 DEF Callable
  <2> QED BY <1>5, <1>6, <2>1
<1>8. i \in Callable(entries, m)
  BY <1>5, <1>7 DEF Callable
<1>9. ASSUME NEW j \in Callable(entries, m) PROVE j \in 1 .. Len(start)
  <2>1. j \in 1 .. Len(entries) /\ entries[j][2] = m /\ IsConcrete(entries[j][1], m)
    BY <1>5 DEF Callable
  <2>2. ~(j > Len(inherited))
    <3> SUFFICES ASSUME j > Len(inherited) PROVE FALSE
      OBVIOUS
    <3>1. entries[j][1] = c
      BY <1>6, <2>1 DEF ProvidedBy
    <3> QED BY <2>1, <3>1 DEF IsConcrete
  <2>3. j \in 1 .. Len(inherited) /\ entries[j] = inherited[j]
    BY <1>5, <1>6, <2>1, <2>2
  <2>4. ~(j > Len(start))
    <3> SUFFICES ASSUME j > Len(start) PROVE FALSE
      OBVIOUS
    <3>1. entries[j][1] \in InterfacesOf(c)
      BY <1>6, <2>3 DEF ProvidedBy
    <3>2. entries[j][1] \in ClassFiles.isInterface /\ entries[j][1] \in ProgramAbove(program, c)
      BY <1>1, <3>1, ImplementedAreInterfaces, ParentsAbove DEF IsDone
    <3> QED BY <2>1, <3>2 DEF IsSelected, IsDefault
  <2> QED BY <1>5, <2>3, <2>4
<1>10. ASSUME NEW j \in Callable(entries, m), i <= j PROVE entries[j][1] = t
  <2>1. j \in 1 .. Len(start)
    BY <1>9
  <2>2. j \in 1 .. Len(inherited) /\ entries[j] = start[j]
    BY <1>5, <1>6, <2>1
  <2>3. j \in Callable(start, m)
    BY <1>5, <2>1, <2>2 DEF Callable
  <2> QED BY <1>4, <1>10, <2>2, <2>3
<1> QED BY <1>4, <1>7, <1>8, <1>10 DEF IsLast

(* A class that declares the method is the nearest itself; otherwise the   *)
(* method is selected for the superclass already.                          *)
LEMMA SelectedAbove ==
    ASSUME IsDone, NEW c \in Linked, c \notin ClassFiles.isInterface,
           NEW m \in Names, NEW t, IsSelected(c, m, t)
    PROVE  \/ t = c
           \/ /\ ~Declares(c, m)
              /\ \E s \in SuperOf(c) : /\ s \in Linked /\ s \notin ClassFiles.isInterface
                                       /\ IsSelected(s, m, t)
<1>1. c \in Classes /\ c \in ProgramAbove(program, c)
  BY DoneSeesAll, AboveItself DEF IsDone
<1>2. /\ t \in DeclaringClasses(c, m)
      /\ \A d \in DeclaringClasses(c, m) \ {t} : t \notin ProgramAbove(program, d)
  BY DEF IsSelected, Nearest
<1>3. t \in ProgramAbove(program, c) /\ Declares(t, m) /\ t \notin ClassFiles.isInterface
  BY <1>2 DEF DeclaringClasses
<1>4. CASE Declares(c, m)
  <2>1. c \in DeclaringClasses(c, m)
    BY <1>1, <1>4 DEF DeclaringClasses
  <2> QED BY <1>2, <1>3, <2>1
<1>5. CASE ~Declares(c, m)
  <2>1. t \in Above(c) /\ t # c
    BY <1>3, <1>5, DoneSeesAll
  <2>2. t \notin InterfacesOf(c)
    BY <1>1, <1>3, ImplementedAreInterfaces DEF IsDone
  <2>3. PICK s \in SuperOf(c) : t \in Above(s)
    BY <1>1, <2>1, <2>2, AboveParts DEF IsDone
  <2>4. s = Super(c) /\ s # None /\ s \in Linked
    BY SuperIsSuper DEF IsDone, ResolvesInv
  <2>5. s \notin ClassFiles.isInterface
    <3>1. program \in DOMAIN Programs
      BY DEF IsDone, IInv, TypeOK
    <3> QED BY <1>1, <2>4, <3>1, HierarchyAssumption DEF Super, ClassFiles
  <2>6. t \in ProgramAbove(program, s)
    BY <2>3, <2>4, DoneSeesAll
  <2>7. ProgramAbove(program, s) \subseteq ProgramAbove(program, c)
    BY <1>1, ParentsAbove, AboveTransitive DEF IsDone
  <2>8. DeclaringClasses(s, m) \subseteq DeclaringClasses(c, m) /\ t \in DeclaringClasses(s, m)
    BY <1>3, <2>6, <2>7 DEF DeclaringClasses
  <2>9. t \in Nearest(DeclaringClasses(s, m))
    BY <1>2, <2>8 DEF Nearest
  <2>10. IsSelected(s, m, t)
    BY <2>7, <2>9 DEF IsSelected
  <2> QED BY <1>5, <2>4, <2>5, <2>10
<1> QED BY <1>4, <1>5

LEMMA SelectedIsLast ==
    ASSUME IsDone, NEW c \in Linked, c \notin ClassFiles.isInterface,
           NEW m \in Names, NEW t, IsSelected(c, m, t)
    PROVE  \A entries \in resolvedMethods[c] : IsLast(entries, m, t)
<1> DEFINE Claim(d) == d \notin ClassFiles.isInterface /\ IsSelected(d, m, t)
                          => \A entries \in resolvedMethods[d] : IsLast(entries, m, t)
           S == {n \in Nat : \A d \in Linked : Depth(d) < n => Claim(d)}
<1>1. \A d \in Linked : d \in Classes /\ Depth(d) \in Nat
  BY LinkedAreClasses, DepthIsNat DEF IsDone
<1>2. 0 \in S
  BY <1>1
<1>3. ASSUME NEW n \in Nat, n \in S PROVE n + 1 \in S
  <2> SUFFICES ASSUME NEW d \in Linked, Depth(d) < n + 1,
                      d \notin ClassFiles.isInterface, IsSelected(d, m, t)
               PROVE  \A entries \in resolvedMethods[d] : IsLast(entries, m, t)
    OBVIOUS
  <2>1. CASE t = d
    <3>1. <<d, m>> \in provides /\ IsConcrete(d, m)
      BY <2>1 DEF IsSelected
    <3> QED BY <2>1, <3>1, OwnMethodIsLast
  <2>2. ASSUME ~Declares(d, m),
               NEW s \in SuperOf(d), s \in Linked, s \notin ClassFiles.isInterface,
               IsSelected(s, m, t)
        PROVE  \A entries \in resolvedMethods[d] : IsLast(entries, m, t)
    <3>1. Depth(s) < Depth(d)
      BY <1>1, ParentsAbove, NothingAboveItself DEF IsDone
    <3>2. Depth(s) < n
      BY <1>1, <2>2, <3>1
    <3>3. \A e \in resolvedMethods[s] : IsLast(e, m, t)
      BY <1>3, <2>2, <3>2
    <3> QED BY <2>2, <3>3, InheritedMethodIsLast
  <2> QED BY <2>1, <2>2, SelectedAbove
<1>4. Depth(c) + 1 \in S
  <2>1. Depth(c) + 1 \in Nat
    BY <1>1
  <2> HIDE DEF S
  <2> QED BY <1>2, <1>3, <2>1, SetInduction
<1>5. Claim(c)
  BY <1>1, <1>4
<1> QED BY <1>5

LEMMA PrototypeOfSelected ==
    ASSUME IsDone, NEW c \in Linked, c \notin ClassFiles.isInterface,
           NEW m \in Names, NEW t, IsSelected(c, m, t)
    PROVE  PrototypeMethod(c, m) = {t}
<1>1. c \in Classes /\ t \in Classes
  <2>1. c \in Classes /\ t \in ProgramAbove(program, c)
    BY DoneSeesAll DEF IsSelected, Nearest, DeclaringClasses
  <2> QED BY <2>1, AboveIsClosure DEF IsDone
<1>2. resolvedMethods[c] # {}
  BY <1>1, ListsAreComplete DEF IsDone, ResolvesInv, ListsAllAbove
<1>3. ASSUME NEW entries \in resolvedMethods[c]
      PROVE  /\ \E i \in Callable(entries, m) : \A j \in Callable(entries, m) : j <= i
             /\ \A i \in Callable(entries, m) :
                   (\A j \in Callable(entries, m) : j <= i) => entries[i][1] = t
  <2>1. PICK i \in Callable(entries, m) :
           entries[i][1] = t /\ \A j \in Callable(entries, m) : i <= j => entries[j][1] = t
    BY SelectedIsLast DEF IsLast
  <2>2. Callable(entries, m) \in SUBSET (1 .. Len(entries)) /\ Len(entries) \in Nat
    BY CallableEntries
  <2>3. \E k \in Callable(entries, m) : \A j \in Callable(entries, m) : j <= k
    BY <2>2, FirstAndLast
  <2> QED BY <2>1, <2>3
<1> QED BY <1>1, <1>2, <1>3 DEF PrototypeMethod

(* What the Java machine selects.                                          *)
LEMMA JavaMethodIs ==
    ASSUME NEW c, NEW m, NEW t \in JavaMethod(c, m)
    PROVE  /\ t \in ProgramAbove(program, c)
           /\ \/ t \in Nearest(DeclaringClasses(c, m))
              \/ IsDefault(t, m) /\ DeclaringClasses(c, m) = {}
<1> DEFINE declaring == {d \in ProgramAbove(program, c) : Declares(d, m)}
<1>1. CASE declaring \subseteq ClassFiles.isInterface
  <2>1. t \in Nearest({d \in declaring : IsDefault(d, m)})
    BY <1>1 DEF JavaMethod
  <2> QED BY <1>1, <2>1 DEF Nearest, DeclaringClasses
<1>2. CASE ~(declaring \subseteq ClassFiles.isInterface)
  <2>1. t \in Nearest(declaring \ ClassFiles.isInterface)
    BY <1>2 DEF JavaMethod
  <2> QED BY <2>1 DEF Nearest, DeclaringClasses
<1> QED BY <1>1, <1>2

LEMMA CallsJavaMethod ==
    ASSUME IsDone
    PROVE  JavaScriptCallsJavaMethod /\ WebAssemblyCallsJavaMethod
<1>1. ASSUME NEW c \in Instances, NEW m \in Names, NEW t \in JavaMethod(c, m),
             <<t, m>> \in provides, IsConcrete(t, m)
      PROVE  /\ (\A d \in ProgramAbove(program, c) : IsDefault(d, m) => d = t)
                => PrototypeMethod(c, m) = {t}
             /\ (\A d \in ProgramAbove(program, c) \ {t} :
                    <<d, m>> \in provides => ~IsConcrete(d, m))
                => resolvevtableindex(c, m) = {t}
  <2>1. /\ c \in Linked /\ c \notin ClassFiles.isInterface
        /\ t \in ProgramAbove(program, c) /\ t \in Linked
    BY JavaMethodIs, DoneSeesAll DEF Instances
  <2>2. ASSUME \A d \in ProgramAbove(program, c) : IsDefault(d, m) => d = t
        PROVE  PrototypeMethod(c, m) = {t}
    <3>1. CASE t \in Nearest(DeclaringClasses(c, m))
      <4>1. t \notin ClassFiles.isInterface
        BY <3>1 DEF Nearest, DeclaringClasses
      <4>2. IsSelected(c, m, t)
        BY <1>1, <2>2, <3>1, <4>1 DEF IsSelected, IsDefault
      <4> QED BY <2>1, <4>2, PrototypeOfSelected
    <3>2. CASE IsDefault(t, m) /\ DeclaringClasses(c, m) = {}
      <4>1. \A d \in ProgramAbove(program, c) : IsConcrete(d, m) => IsDefault(d, m)
        BY <3>2 DEF DeclaringClasses, IsConcrete, IsDefault
      <4>2. \A d \in ProgramAbove(program, c) \ {t} : <<d, m>> \in provides => ~IsConcrete(d, m)
        BY <2>2, <4>1
      <4> QED BY <1>1, <2>1, <4>2, OnlyOneCallable
    <3> QED BY <3>1, <3>2, JavaMethodIs
  <2>3. ASSUME \A d \in ProgramAbove(program, c) \ {t} : <<d, m>> \in provides => ~IsConcrete(d, m)
        PROVE  resolvevtableindex(c, m) = {t}
    BY <1>1, <2>1, <2>3, OnlyOneCallable
  <2> QED BY <2>2, <2>3
<1>2. JavaScriptCallsJavaMethod
  BY <1>1 DEF JavaScriptCallsJavaMethod
<1>3. WebAssemblyCallsJavaMethod
  BY <1>1 DEF WebAssemblyCallsJavaMethod
<1> QED BY <1>2, <1>3

LEMMA LinkedSafely ==
    Spec => [](IInv /\ ResolvesInv /\ ImplementsInterfaces)
<1>1. Init => IInv /\ ResolvesInv /\ ImplementsInterfaces
  BY InitIsJustified, InitResolves DEF Init, ImplementsInterfaces
<1>2. IInv /\ ResolvesInv /\ ImplementsInterfaces /\ [Next]_vars
         => (IInv /\ ResolvesInv /\ ImplementsInterfaces)'
  BY NextStep, NextResolves, InterfacesStayImplemented
<1> QED BY <1>1, <1>2, PTL DEF Spec

(***************************************************************************)
(* In every program a compiler accepts, once it is linked, a virtual call  *)
(* that JavaScript makes over the prototype runs the method Java selects - *)
(* except where an interface's default method is in the way.               *)
(***************************************************************************)
THEOREM JavaScriptDoesCallJavaMethod == Spec => []JavaScriptCallsJavaMethod
<1>1. IInv /\ ResolvesInv /\ ImplementsInterfaces => JavaScriptCallsJavaMethod
  BY CallsJavaMethod DEF IsDone, JavaScriptCallsJavaMethod
<1> QED BY <1>1, LinkedSafely, PTL

(***************************************************************************)
(* A virtual call in WebAssembly runs the method Java selects, unless a    *)
(* method it overrides is linked as well: the vtable function of the class *)
(* then finds that one first.                                              *)
(***************************************************************************)
THEOREM WebAssemblyDoesCallJavaMethod == Spec => []WebAssemblyCallsJavaMethod
<1>1. IInv /\ ResolvesInv /\ ImplementsInterfaces => WebAssemblyCallsJavaMethod
  BY CallsJavaMethod DEF IsDone, WebAssemblyCallsJavaMethod
<1> QED BY <1>1, LinkedSafely, PTL
=============================================================================
