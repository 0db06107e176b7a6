------------------------------ MODULE Dispatch ------------------------------
(***************************************************************************)
(* Virtual calls: what the backends make of the linked classes, compared   *)
(* with what the Java machine does.                                        *)
(***************************************************************************)
EXTENDS Linker, SequencesExt

(***************************************************************************)
(* The hierarchy of a Java program: finitely many classes, none of them    *)
(* above itself; an interface extends nothing but interfaces, and only     *)
(* interfaces are implemented.                                             *)
(***************************************************************************)
ASSUME HierarchyAssumption ==
    /\ IsFiniteSet(Classes) /\ IsFiniteSet(Names)
    /\ \A p \in DOMAIN Programs :
          /\ \A e \in ProgramEdges(p) : e[1] \notin ProgramAbove(p, e[2])
          /\ \A c \in Classes :
                LET file == Programs[p] IN
                /\ file.super[c] # None =>
                      c \notin file.isInterface /\ file.super[c] \notin file.isInterface
                /\ Range(file.interfaces[c]) \subseteq file.isInterface

(***************************************************************************)
(* resolvedMethods: the methods of the superclass, of the interfaces and   *)
(* of the class itself, in this order and each of them once.  Interfaces   *)
(* come in any order, so there is a set of results.                        *)
(***************************************************************************)
register(entries, x) == IF x \in Range(entries) THEN entries ELSE Append(entries, x)

merge_mutant(entries, others) == others \o entries
merge(entries, others) ==
    LET merged[n \in 0 .. Len(others)] ==
            IF n = 0 THEN entries ELSE register(merged[n - 1], others[n])
    IN  merged[Len(others)]

mergeAll(start, lists) ==
    LET merged[n \in 0 .. Len(lists)] ==
            IF n = 0 THEN start ELSE merge(merged[n - 1], lists[n])
    IN  merged[Len(lists)]

OneOfEach(sets) ==
    {f \in [DOMAIN sets -> UNION Range(sets)] : \A i \in DOMAIN sets : f[i] \in sets[i]}

OwnMethods(c) == SetToSeq({x \in provides : x[1] = c})

methodsOf(c, inherited, ofInterfaces) ==
    {merge(mergeAll(start, [k \in DOMAIN is |-> list[is[k]]]), OwnMethods(c)) :
        start \in inherited, list \in OneOfEach(ofInterfaces),
        is \in SetToSeqs(DOMAIN ofInterfaces)}

resolvedMethods[c \in Classes] ==
    methodsOf(c,
              IF SuperOf(c) = {} THEN {<<>>} ELSE UNION {resolvedMethods[s] : s \in SuperOf(c)},
              [i \in InterfacesOf(c) |-> resolvedMethods[i]])

IsConcrete(c, m) == Declares(c, m) /\ ClassFiles.methods[c][m] = "concrete"

Callable_mutant(entries, m) == {i \in DOMAIN entries : entries[i][2] = m}
Callable(entries, m) ==
    {i \in DOMAIN entries : entries[i][2] = m /\ IsConcrete(entries[i][1], m)}

(* The JavaScript backend assigns the methods to the prototype one after   *)
(* the other: the last one of a name stays.                                *)
PrototypeMethod(c, m) ==
    {t \in Classes : \E entries \in resolvedMethods[c] : \E i \in Callable(entries, m) :
        entries[i][1] = t /\ \A j \in Callable(entries, m) : j <= i}

(* The WebAssembly backend compares the methods' numbers one after the     *)
(* other: the first one is taken.                                          *)
resolvevtableindex(c, m) ==
    {t \in Classes : \E entries \in resolvedMethods[c] : \E i \in Callable(entries, m) :
        entries[i][1] = t /\ \A j \in Callable(entries, m) : i <= j}

-----------------------------------------------------------------------------
(* The Java machine: the nearest class that declares the method, else the  *)
(* default methods of the interfaces.                                      *)
IsDefault(c, m) == c \in ClassFiles.isInterface /\ IsConcrete(c, m)

Nearest(S) == {c \in S : \A d \in S \ {c} : c \notin ProgramAbove(program, d)}

JavaMethod(c, m) ==
    LET declaring == {d \in ProgramAbove(program, c) : Declares(d, m)}
    IN  IF declaring \subseteq ClassFiles.isInterface
        THEN Nearest({d \in declaring : IsDefault(d, m)})
        ELSE Nearest(declaring \ ClassFiles.isInterface)

Instances == Linked \ ClassFiles.isInterface

(* Every call over the prototype whose Java method is linked runs that     *)
(* method in JavaScript - unless an interface's default method replaces    *)
(* the one inherited from a superclass.                                    *)
JavaScriptCallsJavaMethod ==
    phase = "done" => \A c \in Instances, m \in Names :
        \A t \in JavaMethod(c, m) :
            /\ <<t, m>> \in provides /\ IsConcrete(t, m)
            /\ \A d \in ProgramAbove(program, c) : IsDefault(d, m) => d = t
            => PrototypeMethod(c, m) = {t}

(* In WebAssembly it does unless a method it overrides is linked as well.  *)
WebAssemblyCallsJavaMethod ==
    phase = "done" => \A c \in Instances, m \in Names :
        \A t \in JavaMethod(c, m) :
            /\ <<t, m>> \in provides /\ IsConcrete(t, m)
            /\ \A d \in ProgramAbove(program, c) \ {t} :
                    <<d, m>> \in provides => ~IsConcrete(d, m)
            => resolvevtableindex(c, m) = {t}

-----------------------------------------------------------------------------
(***************************************************************************)
(* What a compiler accepts: the members the code refers to exist and are   *)
(* of the kind it asks for.  One kind of Java programs is left out: a       *)
(* static method does not have the name of one that is called on an        *)
(* instance below it (in Java an interface may have one).                  *)
(***************************************************************************)
RefersToMember(p, i) ==
    LET file == Programs[p]
        declaring(c) == {d \in ProgramAbove(p, c) : i.m \in DOMAIN file.methods[d]}
        static(c) == file.methods[c][i.m] = "static"
    IN  CASE i.op = "NEW" -> TRUE
          [] i.op = "INVOKEVIRTUAL" ->
                /\ declaring(i.c) # {}
                /\ \A d \in declaring(i.c) : ~static(d)
          [] i.op = "INVOKESPECIAL" ->
                /\ declaring(i.c) # {}
                /\ i.m \in DOMAIN file.methods[i.c] => ~static(i.c)
          [] i.op = "INVOKESTATIC" ->
                IF i.m \in DOMAIN file.methods[i.c] THEN static(i.c)
                ELSE file.super[i.c] # None /\ declaring(file.super[i.c]) # {}
          [] i.op = "GETSTATIC" -> \E d \in ProgramAbove(p, i.c) : i.m \in file.fields[d]

IsCompiled(p) ==
    LET methods == Programs[p].methods
        code == Programs[p].code
        main == Programs[p].main
    IN  /\ "main" \in DOMAIN methods[main] /\ methods[main]["main"] = "static"
        /\ \A c \in Classes :
              /\ "<clinit>" \in DOMAIN methods[c] => methods[c]["<clinit>"] = "static"
              /\ \A m \in DOMAIN methods[c] : \A n \in DOMAIN code[c][m] :
                    RefersToMember(p, code[c][m][n])
              /\ \A d, e \in ProgramAbove(p, c) :
                    \A m \in DOMAIN methods[d] \cap DOMAIN methods[e] :
                        methods[d][m] = "abstract" => methods[e][m] # "static"

ASSUME CompiledAssumption == \A p \in DOMAIN Programs : IsCompiled(p)

IsInherited(i) == ~Declares(i.c, i.m)

(* The classes in which the search for a member can end: those nearest to  *)
(* the class it starts from, which is the superclass for a static method   *)
(* that the class does not declare itself.                                 *)
ProvidersOf(i) ==
    LET start == IF i.op = "INVOKESTATIC" /\ IsInherited(i) THEN ClassFiles.super[i.c] ELSE i.c
    IN  Nearest({d \in ProgramAbove(program, start) : Declares(d, i.m)})

(* What the instruction refers to is linked, as far as the edges lead to it. *)
IsFound(i) ==
    CASE i.op = "NEW" -> TRUE
      [] i.op = "GETSTATIC" ->
            \E d \in ProgramAbove(program, i.c) : <<d, i.m>> \in fields
      [] OTHER -> \A d \in ProvidersOf(i) \cap Above(i.c) : <<d, i.m>> \in provides

(* The instruction that a body on the stack is at. *)
Current(k) == ClassFiles.code[todo[k].c][todo[k].m][todo[k].n - 1]

(* The body whose instruction is being linked: the innermost one. *)
IsInnermost(k) == todo[k].op = "body" /\ \A j \in 1 .. k - 1 : todo[j].op # "body"

(* The edges that the class and the classes above it still lack. *)
MissingEdges(c) ==
    {e \in ProgramEdges(program) \ (extends \union implements) : e[1] \in Above(c)}

(* A static initialiser above the class is being linked. *)
InitializesAbove(c) ==
    \E k \in DOMAIN todo :
        todo[k].op = "body" /\ todo[k].m = "<clinit>" /\ todo[k].c \in ProgramAbove(program, c)

(***************************************************************************)
(* When the linker is done with an instruction, what it refers to is       *)
(* linked: the method or field in which Java's search from the class named *)
(* ends, not just any of the name - as far as there are edges to it, or    *)
(* unless a superclass is asked for a method which it inherits itself.     *)
(* And a class lacks the edge to its superclass only while the initialiser *)
(* of a class above that one is being linked, the edge to an interface     *)
(* only while one above the class itself is.  Linking fails at a static    *)
(* method called through a subclass, or at a field of a class that lacks   *)
(* edges, and nowhere else.                                                *)
(***************************************************************************)
ReferencesResolve ==
    /\ Top("body") /\ Head(todo).n > 1 =>
          LET i == Current(1) IN
          /\ i.c \in Linked
          /\ \A e \in MissingEdges(i.c) :
                InitializesAbove(IF e[2] \in ClassFiles.isInterface THEN e[1] ELSE e[2])
          /\ IsFound(i) \/ (i.op = "INVOKESPECIAL" /\ IsInherited(i))
    /\ phase = "failed" =>
          \E k \in DOMAIN todo : IsInnermost(k) /\
              LET i == Current(k) IN
              \/ i.op = "INVOKESTATIC" /\ IsInherited(i)
              \/ i.op = "GETSTATIC" /\ MissingEdges(i.c) # {}

(* The search comes to an end.                                             *)
LinkingEnds == <>(phase \in {"done", "failed"})

(* A static method is linked through a subclass of its class as well:      *)
(* linking does not fail at one that a compiler accepts                    *)
(* (StaticInheritanceTest).                                                *)
StaticMethodsAreInherited ==
    phase = "failed" =>
        \A k \in DOMAIN todo : IsInnermost(k) =>
            ~(Current(k).op = "INVOKESTATIC" /\ IsInherited(Current(k)))

(* Before code is generated all implementations of the abstract methods in *)
(* use are linked (CompileTarget).                                         *)
AbstractMethodsAreImplemented ==
    phase = "done" => \A c \in Instances, x \in provides :
        x[1] \in ProgramAbove(program, c) /\ IsAbstract(x[1], x[2]) =>
            \A t \in JavaMethod(c, x[2]) : <<t, x[2]>> \in provides
=============================================================================
