--------------------------- MODULE ReferencedCode ---------------------------
(***************************************************************************)
(* What the linker promises (README.md, "Dead Code removal"): starting     *)
(* from the entry point it searches the referenced classes, methods and    *)
(* fields, and takes nothing else into the program it compiles.            *)
(*                                                                         *)
(* An item is a class, or a member: a method or field together with the    *)
(* class that declares it.                                                 *)
(***************************************************************************)
CONSTANTS Programs, Items,
          IsEntry(_, _),        \* the search in a program starts from the item
          Refers(_, _, _)       \* in a program, some of a set of items refer to the item

VARIABLES program, found

Init == program \in DOMAIN Programs /\ found = {}

Find(item) ==
    /\ found' = found \union {item}
    /\ IsEntry(program, item) \/ Refers(program, found, item)
    /\ UNCHANGED program

Spec == Init /\ [][\E item \in Items \ found : Find(item)]_<<program, found>>
=============================================================================
