------------------------------- MODULE Linker -------------------------------
(***************************************************************************)
(* The linker: BytecodeLinkerContext and BytecodeLinkedClass.  It walks    *)
(* from the entry point through the instructions of every method it links, *)
(* recursively; todo is the stack of that recursion, the innermost         *)
(* activation first.  A class is in the graph before its superclass, its   *)
(* static initialiser and its interfaces are, in this order: whatever is   *)
(* linked meanwhile sees a class without some of its edges.                *)
(*                                                                         *)
(* Programs is a family of programs, each a record of its class files:     *)
(*   super, interfaces   of a class: its superclass or None, a sequence    *)
(*   isInterface         the classes that are interfaces                   *)
(*   methods             of a class: name -> "concrete", "abstract" or     *)
(*                       "static", for those it declares                   *)
(*   code                of a class and a method: its instructions, with   *)
(*                       the types of its signature as NEWs in front, and  *)
(*                       the type of a field as a NEW behind GETSTATIC     *)
(*   fields              of a class: the static fields it declares         *)
(*   main                the class of the entry point                      *)
(*                                                                         *)
(* Names stand for names with a signature; static fields of different      *)
(* classes have different names.  Instance fields, lambdas and the         *)
(* methods the backends ask for themselves are left out.                   *)
(***************************************************************************)
EXTENDS Naturals, Sequences

CONSTANTS Classes, Names, Programs, None

Instructions == [op : {"NEW", "INVOKEVIRTUAL", "INVOKESPECIAL", "INVOKESTATIC", "GETSTATIC"},
                 c : Classes, m : Names]

ASSUME ProgramAssumption ==
    /\ {"main", "<clinit>"} \subseteq Names /\ "class" \notin Names
    /\ \A n \in DOMAIN Programs : LET p == Programs[n] IN
        /\ p.super \in [Classes -> Classes \union {None}]
        /\ \A c \in Classes : /\ p.interfaces[c] \in Seq(Classes)
                              /\ DOMAIN p.methods[c] \subseteq Names
                              /\ \A m \in DOMAIN p.methods[c] :
                                    p.methods[c][m] \in {"concrete", "abstract", "static"}
                              /\ p.fields[c] \subseteq Names
                              /\ p.code[c] \in [Names -> Seq(Instructions)]
        /\ p.main \in Classes

VARIABLES
    program,        \* the index of the program in Programs
    order,          \* the linked classes, a class's index is its unique id
    extends,        \* the edges from a class to its superclass
    implements,     \* and to its interfaces, as far as they are there
    provides,       \* the linked methods: <<class, name>>
    fields,         \* the linked static fields: <<class, name>>
    todo,           \* the stack
    phase           \* "link", "abstract", "done" or "failed"

vars == <<program, order, extends, implements, provides, fields, todo, phase>>

ClassFiles == Programs[program]

Linked == {order[i] : i \in DOMAIN order}

(***************************************************************************)
(* getImplementingTypes: the classes reached over edges, the class itself  *)
(* included.                                                               *)
(***************************************************************************)
Closure(edges, c) ==
    {d \in Classes : \A S \in SUBSET Classes :
        c \in S /\ (\A e \in edges : e[1] \in S => e[2] \in S) => d \in S}

Above(c) == Closure(extends \union implements, c)
InterfacesOf(c) == UNION {Above(e[2]) : e \in {f \in implements : f[1] = c}}

Declares(c, m) == m \in DOMAIN ClassFiles.methods[c]
IsAbstract(c, m) == Declares(c, m) /\ ClassFiles.methods[c][m] = "abstract"
SuperOf(c) == {e[2] : e \in {f \in extends : f[1] = c}}

(***************************************************************************)
(* Activations.                                                            *)
(***************************************************************************)
ResolveClass(c) == [op |-> "class", c |-> c]
LinkSuper(c) == [op |-> "super", c |-> c]
Initializer(c) == [op |-> "clinit", c |-> c]
LinkInterfaces(c, n) == [op |-> "interfaces", c |-> c, n |-> n]
Implement(c, n) == [op |-> "implements", c |-> c, n |-> n]
ResolveVirtual(c, m) == [op |-> "virtual", c |-> c, m |-> m]
ForEach(cs, m) == [op |-> "foreach", cs |-> cs, m |-> m]
Own(c, m) == [op |-> "own", c |-> c, m |-> m]
Private(c, m) == [op |-> "private", c |-> c, m |-> m]
Static(c, m) == [op |-> "static", c |-> c, m |-> m]
Field(c, m) == [op |-> "field", c |-> c, m |-> m]
Body(c, m, n) == [op |-> "body", c |-> c, m |-> m, n |-> n]
Inherit(n, size) == [op |-> "inherit", n |-> n, size |-> size]
Hierarchy(c, cs) == [op |-> "hierarchy", c |-> c, cs |-> cs]
Abstracts(c, ms) == [op |-> "abstracts", c |-> c, ms |-> ms]

Init ==
    /\ program \in DOMAIN Programs
    /\ order = <<>> /\ extends = {} /\ implements = {} /\ provides = {} /\ fields = {}
    /\ todo = <<ResolveClass(ClassFiles.main), Static(ClassFiles.main, "main")>>
    /\ phase = "link"

Top(op) == todo # <<>> /\ Head(todo).op = op /\ phase \in {"link", "abstract"}
Call(activations) == todo' = activations \o Tail(todo)
Return == Call(<<>>)

(***************************************************************************)
(* resolveClass.                                                           *)
(***************************************************************************)
FindClass ==
    LET c == Head(todo).c IN
    /\ Top("class") /\ c \in Linked
    /\ Return
    /\ UNCHANGED <<program, order, extends, implements, provides, fields, phase>>

AddClass_mutant ==
    LET c == Head(todo).c IN
    /\ Top("class") /\ c \notin Linked
    /\ order' = Append(order, c)
    /\ Call(<<ResolveClass(ClassFiles.super[c]), LinkSuper(c), Initializer(c), LinkInterfaces(c, 1)>>)
    /\ UNCHANGED <<program, extends, implements, provides, fields, phase>>

AddClass_eager ==
    LET c == Head(todo).c
        super == ClassFiles.super[c]
    IN  /\ Top("class") /\ c \notin Linked
        /\ order' = Append(order, c)
        /\ Call(<<Initializer(c)>>
                \o (IF super # None THEN <<ResolveClass(super), LinkSuper(c)>> ELSE <<>>)
                \o <<LinkInterfaces(c, 1)>>)
        /\ UNCHANGED <<program, extends, implements, provides, fields, phase>>

AddClass ==
    LET c == Head(todo).c
        super == ClassFiles.super[c]
    IN  /\ Top("class") /\ c \notin Linked
        /\ order' = Append(order, c)
        /\ Call((IF super # None THEN <<ResolveClass(super), LinkSuper(c)>> ELSE <<>>)
                \o <<Initializer(c), LinkInterfaces(c, 1)>>)
        /\ UNCHANGED <<program, extends, implements, provides, fields, phase>>

AddSuper ==
    LET c == Head(todo).c IN
    /\ Top("super")
    /\ extends' = extends \union {<<c, ClassFiles.super[c]>>}
    /\ Return
    /\ UNCHANGED <<program, order, implements, provides, fields, phase>>

InitializeClass ==
    LET c == Head(todo).c IN
    /\ Top("clinit")
    /\ Call(IF Declares(c, "<clinit>") THEN <<Static(c, "<clinit>")>> ELSE <<>>)
    /\ UNCHANGED <<program, order, extends, implements, provides, fields, phase>>

NextInterface ==
    LET c == Head(todo).c
        n == Head(todo).n
    IN  /\ Top("interfaces")
        /\ Call(IF n \in DOMAIN ClassFiles.interfaces[c]
                THEN <<ResolveClass(ClassFiles.interfaces[c][n]), Implement(c, n),
                       LinkInterfaces(c, n + 1)>>
                ELSE <<>>)
        /\ UNCHANGED <<program, order, extends, implements, provides, fields, phase>>

AddInterface ==
    LET c == Head(todo).c IN
    /\ Top("implements")
    /\ implements' = implements \union {<<c, ClassFiles.interfaces[c][Head(todo).n]>>}
    /\ Return
    /\ UNCHANGED <<program, order, extends, provides, fields, phase>>

(***************************************************************************)
(* The method found in the class is linked, and so is its body             *)
(* (resolveMethodSignatureAndBody), unless it is static where an instance  *)
(* method is looked for: then linking fails.                               *)
(***************************************************************************)
Provide(c, m, kinds) ==
    \/ /\ ClassFiles.methods[c][m] \in kinds
       /\ provides' = provides \union {<<c, m>>}
       /\ Call(<<Body(c, m, 1)>>)
       /\ UNCHANGED phase
    \/ /\ ClassFiles.methods[c][m] \notin kinds
       /\ phase' = "failed"
       /\ UNCHANGED <<provides, todo>>

(***************************************************************************)
(* resolveVirtualMethod.  The set of interfaces is a HashSet of objects    *)
(* without a hash code of their own: they come in any order.               *)
(***************************************************************************)
FindVirtual ==
    LET c == Head(todo).c
        m == Head(todo).m
    IN  /\ Top("virtual")
        /\ Call(IF <<c, m>> \in provides THEN <<>>
                ELSE <<ForEach(InterfacesOf(c), m), Own(c, m)>>)
        /\ UNCHANGED <<program, order, extends, implements, provides, fields, phase>>

NextOfInterfaces ==
    LET cs == Head(todo).cs
        m == Head(todo).m
    IN  /\ Top("foreach")
        /\ \/ cs = {} /\ Return
           \/ \E i \in cs : Call(<<ResolveVirtual(i, m), ForEach(cs \ {i}, m)>>)
        /\ UNCHANGED <<program, order, extends, implements, provides, fields, phase>>

AskSuper_mutant(c, m) == Return /\ UNCHANGED <<provides, phase>>

AskSuper(c, m) ==
    /\ \/ SuperOf(c) = {} /\ Return
       \/ \E super \in SuperOf(c) : Call(<<ResolveVirtual(super, m)>>)
    /\ UNCHANGED <<provides, phase>>

OwnMethod ==
    LET c == Head(todo).c
        m == Head(todo).m
    IN  /\ Top("own")
        /\ \/ Declares(c, m) /\ Provide(c, m, {"concrete", "abstract"})
           \/ ~Declares(c, m) /\ AskSuper(c, m)
        /\ UNCHANGED <<program, order, extends, implements, fields>>

(***************************************************************************)
(* resolveConstructorInvocation and resolvePrivateMethod: the class alone. *)
(* resolveStaticMethod: the class, but its superclass is asked for a       *)
(* virtual method.                                                         *)
(***************************************************************************)
PrivateMethod ==
    LET c == Head(todo).c
        m == Head(todo).m
    IN  /\ Top("private")
        /\ IF Declares(c, m) /\ <<c, m>> \notin provides
           THEN Provide(c, m, {"concrete", "abstract"})
           ELSE Return /\ UNCHANGED <<provides, phase>>
        /\ UNCHANGED <<program, order, extends, implements, fields>>

StaticMethod ==
    LET c == Head(todo).c
        m == Head(todo).m
        found == <<c, m>> \in provides /\ ClassFiles.methods[c][m] = "static"
    IN  /\ Top("static")
        /\ \/ found /\ Return /\ UNCHANGED <<provides, phase>>
           \/ ~found /\ Declares(c, m) /\ Provide(c, m, {"static"})
           \/ ~Declares(c, m) /\ AskSuper(c, m)
        /\ UNCHANGED <<program, order, extends, implements, fields>>

(***************************************************************************)
(* GETSTATIC: the class and what is above it so far; when none of them     *)
(* declares the field, linking fails.                                      *)
(***************************************************************************)
StaticField ==
    LET c == Head(todo).c
        f == Head(todo).m
        providers == {d \in Above(c) : f \in ClassFiles.fields[d]}
    IN  /\ Top("field")
        /\ \/ /\ providers = {}
              /\ phase' = "failed"
              /\ UNCHANGED <<fields, todo>>
           \/ /\ \E d \in providers : fields' = fields \union {<<d, f>>}
              /\ Return
              /\ UNCHANGED phase
        /\ UNCHANGED <<program, order, extends, implements, provides>>

(***************************************************************************)
(* performLinking of the instructions of a method.                         *)
(***************************************************************************)
Resolve(i) ==
    CASE i.op = "NEW" -> <<>>
      [] i.op = "INVOKEVIRTUAL" -> <<ResolveVirtual(i.c, i.m)>>
      [] i.op = "INVOKESPECIAL" -> <<Private(i.c, i.m)>>
      [] i.op = "INVOKESTATIC" -> <<Static(i.c, i.m)>>
      [] i.op = "GETSTATIC" -> <<Field(i.c, i.m)>>

NextInstruction ==
    LET c == Head(todo).c
        m == Head(todo).m
        n == Head(todo).n
        i == ClassFiles.code[c][m][n]
    IN  /\ Top("body")
        /\ Call(IF n \in DOMAIN ClassFiles.code[c][m]
                THEN <<ResolveClass(i.c)>> \o Resolve(i) \o <<Body(c, m, n + 1)>>
                ELSE <<>>)
        /\ UNCHANGED <<program, order, extends, implements, provides, fields, phase>>

(***************************************************************************)
(* resolveAbstractMethodsInSubclasses: once for each class linked when it  *)
(* starts, and again when there are more classes at the end.               *)
(***************************************************************************)
StartAbstract ==
    /\ todo = <<>> /\ phase = "link"
    /\ phase' = "abstract"
    /\ todo' = <<Inherit(1, Len(order))>>
    /\ UNCHANGED <<program, order, extends, implements, provides, fields>>

NextClass_mutant ==
    LET n == Head(todo).n
        size == Head(todo).size
        c == order[n]
    IN  /\ Top("inherit")
        /\ Call(IF n <= size
                THEN <<Hierarchy(c, Above(c) \ {c}), Inherit(n + 1, size)>>
                ELSE <<Inherit(1, Len(order))>>)
        /\ UNCHANGED <<program, order, extends, implements, provides, fields, phase>>

NextClass ==
    LET n == Head(todo).n
        size == Head(todo).size
        c == order[n]
    IN  /\ Top("inherit")
        /\ Call(IF n <= size
                THEN <<Hierarchy(c, Above(c) \ {c}), Inherit(n + 1, size)>>
                ELSE IF Len(order) # size THEN <<Inherit(1, Len(order))>>
                ELSE <<>>)
        /\ UNCHANGED <<program, order, extends, implements, provides, fields, phase>>

AbstractMethodsOf_mutant(d) == {m \in Names : \E e \in Above(d) : IsAbstract(e, m)}

AbstractMethodsOf(d) ==
    {m \in Names : \E e \in Above(d) : <<e, m>> \in provides /\ IsAbstract(e, m)}

NextOfHierarchy ==
    LET c == Head(todo).c
        cs == Head(todo).cs
    IN  /\ Top("hierarchy")
        /\ \/ cs = {} /\ Return
           \/ \E d \in cs : Call(<<Abstracts(c, AbstractMethodsOf(d)), Hierarchy(c, cs \ {d})>>)
        /\ UNCHANGED <<program, order, extends, implements, provides, fields, phase>>

NextAbstract ==
    LET c == Head(todo).c
        ms == Head(todo).ms
    IN  /\ Top("abstracts")
        /\ \/ ms = {} /\ Return
           \/ \E m \in ms : Call(<<ResolveVirtual(c, m), Abstracts(c, ms \ {m})>>)
        /\ UNCHANGED <<program, order, extends, implements, provides, fields, phase>>

Finish ==
    /\ todo = <<>> /\ phase = "abstract"
    /\ phase' = "done"
    /\ UNCHANGED <<program, order, extends, implements, provides, fields, todo>>

Next ==
    \/ FindClass \/ AddClass \/ AddSuper \/ InitializeClass
    \/ NextInterface \/ AddInterface
    \/ FindVirtual \/ NextOfInterfaces \/ OwnMethod
    \/ PrivateMethod \/ StaticMethod \/ StaticField \/ NextInstruction
    \/ StartAbstract \/ NextClass \/ NextOfHierarchy \/ NextAbstract \/ Finish

Spec == Init /\ [][Next]_vars /\ WF_vars(Next)

-----------------------------------------------------------------------------
Phases == {"link", "abstract", "done", "failed"}

Activations ==
    [op : {"class", "super", "clinit"}, c : Classes]
    \union [op : {"interfaces", "implements"}, c : Classes, n : Nat]
    \union [op : {"virtual", "own", "private", "static", "field"}, c : Classes, m : Names]
    \union [op : {"foreach"}, cs : SUBSET Classes, m : Names]
    \union [op : {"body"}, c : Classes, m : Names, n : Nat]
    \union [op : {"inherit"}, n : Nat, size : Nat]
    \union [op : {"hierarchy"}, c : Classes, cs : SUBSET Classes]
    \union [op : {"abstracts"}, c : Classes, ms : SUBSET Names]

TypeOK ==
    /\ program \in DOMAIN Programs
    /\ order \in Seq(Classes)
    /\ extends \subseteq Classes \X Classes
    /\ implements \subseteq Classes \X Classes
    /\ provides \subseteq Classes \X Names
    /\ fields \subseteq Classes \X Names
    /\ todo \in Seq(Activations)
    /\ phase \in Phases

(***************************************************************************)
(* What a set of items of the program refers to, however much of it is in  *)
(* the graph: an item is a member, or <<c, "class">> for a class.          *)
(***************************************************************************)
ProgramEdges(p) ==
    LET file == Programs[p] IN
    {<<c, file.super[c]>> : c \in {d \in Classes : file.super[d] # None}}
    \union UNION {{<<c, file.interfaces[c][n]>> : n \in DOMAIN file.interfaces[c]} : c \in Classes}

AboveInProgram ==
    [p \in DOMAIN Programs |-> [c \in Classes |-> Closure(ProgramEdges(p), c)]]

ProgramAbove(p, c) == AboveInProgram[p][c]

(* x is a member of the name m that the class c declares or inherits. *)
IsMember(p, x, c, m) ==
    /\ x[2] = m
    /\ m \in DOMAIN Programs[p].methods[x[1]] \/ m \in Programs[p].fields[x[1]]
    /\ x[1] \in ProgramAbove(p, c)

IsAbstractMember(p, x) ==
    x[2] \in DOMAIN Programs[p].methods[x[1]] /\ Programs[p].methods[x[1]][x[2]] = "abstract"

Items == Classes \X (Names \union {"class"})

IsMain(p, x) ==
    x = <<Programs[p].main, "class">> \/ IsMember(p, x, Programs[p].main, "main")

Uses(p, item, x) ==
    /\ item[2] # "class"
    /\ \E n \in DOMAIN Programs[p].code[item[1]][item[2]] :
         LET i == Programs[p].code[item[1]][item[2]][n] IN
         \/ x = <<i.c, "class">>
         \/ i.op # "NEW" /\ IsMember(p, x, i.c, i.m)

Needs(p, c, items, x) ==
    \/ x[2] = "class" /\ <<c, x[1]>> \in ProgramEdges(p)
    \/ IsMember(p, x, c, "<clinit>")
    \/ /\ IsMember(p, x, c, x[2])
       /\ \E y \in items : /\ y[2] = x[2] /\ IsAbstractMember(p, y)
                           /\ y[1] \in ProgramAbove(p, c)

Refers(p, items, x) ==
    \E item \in items :
        \/ Uses(p, item, x)
        \/ item[2] = "class" /\ Needs(p, item[1], items, x)

Found == {<<c, "class">> : c \in Linked} \union provides \union fields

Reference == INSTANCE ReferencedCode
    WITH IsEntry <- IsMain, found <- Found

(***************************************************************************)
(* Nothing else gets into the program: the linker implements the search    *)
(* for referenced code.                                                    *)
(***************************************************************************)
ImplementsReferencedCode == Reference!Spec

=============================================================================
