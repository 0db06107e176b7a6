------------------------------ MODULE MCLinker ------------------------------
(***************************************************************************)
(* A family of small programs: Main's main, a class A, a class B that may  *)
(* be a subclass of A, and an interface I that both may implement.         *)
(***************************************************************************)
EXTENDS Dispatch

CONSTANTS Main, A, B, I

New(c) == [op |-> "NEW", c |-> c, m |-> "main"]
Virtual(c, m) == [op |-> "INVOKEVIRTUAL", c |-> c, m |-> m]
Special(c, m) == [op |-> "INVOKESPECIAL", c |-> c, m |-> m]
CallStatic(c, m) == [op |-> "INVOKESTATIC", c |-> c, m |-> m]
GetStatic(c, f) == [op |-> "GETSTATIC", c |-> c, m |-> f]

MainCode == {<<New(A), New(B), Virtual(I, "m")>>,
             <<New(B), Virtual(A, "m")>>,
             <<New(B), Special(B, "m"), Virtual(A, "n")>>,
             <<CallStatic(B, "s"), GetStatic(B, "f")>>}
MethodCode == {<<>>, <<Virtual(I, "n"), Virtual(A, "m")>>, <<New(B), Virtual(B, "n")>>}
InitCode == {<<Virtual(B, "m")>>, <<GetStatic(B, "f"), New(A)>>}

Kind(kind, names) == [n \in names |-> kind]

InterfaceMethods ==
    {Kind("abstract", {"m"}), Kind("abstract", {"m", "n"}), Kind("concrete", {"m"})}
Initializers == UNION {[S -> InitCode] : S \in {{}, {A}, {B}}}

(* x says which of the methods there are and what they do.                 *)
Parameters ==
    [superOfB : {None, A}, implementing : SUBSET {A, B},
     ofI : InterfaceMethods,
     ofA : {{}, {"m"}, {"m", "n"}}, ofB : {{}, {"m"}, {"m", "n"}},
     main : MainCode, bodyOfM : MethodCode, clinit : Initializers]

Program(x) ==
    [super |-> [c \in Classes |-> IF c = B THEN x.superOfB ELSE None],
     isInterface |-> {I},
     interfaces |-> [c \in Classes |-> IF c \in x.implementing THEN <<I>> ELSE <<>>],
     methods |-> [c \in Classes |->
        Kind("static", IF c \in DOMAIN x.clinit THEN {"<clinit>"} ELSE {})
        @@ CASE c = Main -> Kind("static", {"main"})
             [] c = I -> x.ofI
             [] c = A -> Kind("static", {"s"}) @@ Kind("concrete", x.ofA)
             [] c = B -> Kind("concrete", x.ofB)],
     code |-> [c \in Classes |-> [m \in Names |->
        CASE c = Main /\ m = "main" -> x.main
          [] c = A /\ m = "m" /\ m \in x.ofA -> x.bodyOfM
          [] c \in DOMAIN x.clinit /\ m = "<clinit>" -> x.clinit[c]
          [] OTHER -> <<>>]],
     fields |-> [c \in Classes |-> IF c = A THEN {"f"} ELSE {}],
     main |-> Main]

(* What a compiler accepts.                                                *)
Declaring(p, c, m, kinds) ==
    LET chain == {c, p.super[c]} \ {None}
        implemented == IF \E d \in chain : p.interfaces[d] # <<>> THEN {I} ELSE {}
    IN  {d \in chain \union implemented : m \in DOMAIN p.methods[d] /\ p.methods[d][m] \in kinds}

WellFormed(p, i) ==
    CASE i.op = "NEW" -> TRUE
      [] i.op = "INVOKESPECIAL" -> Declaring(p, i.c, i.m, {"concrete"}) # {}
      [] i.op = "INVOKEVIRTUAL" -> Declaring(p, i.c, i.m, {"concrete", "abstract"}) # {}
      [] i.op = "INVOKESTATIC" -> Declaring(p, i.c, i.m, {"static"}) # {}
      [] i.op = "GETSTATIC" -> i.c = A \/ p.super[i.c] = A

Valid(p) ==
    /\ \A c \in Classes, m \in Names : \A n \in DOMAIN p.code[c][m] :
            WellFormed(p, p.code[c][m][n])
    /\ \A c \in {A, B}, m \in {"m", "n"} :
            Declaring(p, c, m, {"abstract"}) # {} => Declaring(p, c, m, {"concrete"}) # {}

MCPrograms ==
    [x \in {y \in Parameters : (y.ofA = {} => y.bodyOfM = <<>>) /\ Valid(Program(y))} |-> Program(x)]

MCNames == {"main", "<clinit>", "m", "n", "s", "f"}
=============================================================================
