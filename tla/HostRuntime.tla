---------------------------- MODULE HostRuntime ----------------------------
(***************************************************************************)
(* The host library of compiled programs: the functions of the namespace   *)
(* runtime.math in runtime.ts, and runtime.js, which is compiled from it.  *)
(*                                                                         *)
(* A double is an integer number of grid steps, Unit of them in 1, or not  *)
(* a number, or infinite.  The grid stands for the precision of the        *)
(* format: the square root is rounded to it, and the sine of a number is   *)
(* some point of it in [-1, 1].  Negative zero is left out.                *)
(***************************************************************************)
EXTENDS Integers

CONSTANT Unit   \* grid steps in 1; even, so that 0.5 is on the grid

ASSUME UnitAssumption == Unit \in Nat \ {0} /\ Unit % 2 = 0

Finite(n) == [kind |-> "finite", n |-> n]
NaN == [kind |-> "nan", n |-> 0]
Infinity(sign) == [kind |-> "infinite", n |-> sign]
IsFinite(x) == x.kind = "finite"

IsDouble(x) ==
    /\ x \in [kind : {"finite", "nan", "infinite"}, n : Int]
    /\ x.kind = "nan" => x = NaN
    /\ x.kind = "infinite" => x.n \in {-1, 1}

Abs(n) == IF n < 0 THEN -n ELSE n
Sign(n) == IF n < 0 THEN -1 ELSE IF n = 0 THEN 0 ELSE 1
FloorDiv(a, b) == IF b > 0 THEN a \div b ELSE (-a) \div (-b)
TruncDiv(a, b) == Sign(a) * Sign(b) * (Abs(a) \div Abs(b))
TruncRem(a, b) == Sign(a) * (Abs(a) % Abs(b))

(***************************************************************************)
(* JavaScript's Math object and its operator %, as sets of results: only   *)
(* those of sin and cos are not determined on the grid.                    *)
(***************************************************************************)
OnFinite(x, n) == IF IsFinite(x) THEN Finite(n) ELSE x

MathFloor(x) == OnFinite(x, (x.n \div Unit) * Unit)
MathCeil(x) == OnFinite(x, -((-x.n) \div Unit) * Unit)
MathRound(x) == MathFloor(OnFinite(x, x.n + Unit \div 2))

NearestRoot(n) ==
    IF n = 0 THEN 0
    ELSE CHOOSE r \in 1 .. n * Unit :
            /\ (2 * r - 1) * (2 * r - 1) <= 4 * n * Unit
            /\ 4 * n * Unit < (2 * r + 1) * (2 * r + 1)

MathSqrt(x) == IF x = NaN \/ x.n < 0 THEN NaN
               ELSE OnFinite(x, NearestRoot(x.n))

MathWaves(x) == IF IsFinite(x) THEN {Finite(n) : n \in -Unit .. Unit} ELSE {NaN}

NumberRem(a, b) ==
    IF \/ a = NaN \/ b = NaN \/ a.kind = "infinite" \/ b = Finite(0) THEN NaN
    ELSE IF b.kind = "infinite" THEN a
    ELSE Finite(TruncRem(a.n, b.n))

\* Mutant: the remainder is never negative.
float_rem_mutant(a, b) ==
    {IF IsFinite(a) /\ IsFinite(b) /\ b.n # 0 THEN Finite(a.n % Abs(b.n)) ELSE NumberRem(a, b)}

(***************************************************************************)
(* The library.  Its functions are called the way the WebAssembly backend  *)
(* calls an imported static method: with a reference nobody uses before    *)
(* the argument.  float_rem is no method and has none.                     *)
(***************************************************************************)
floor(thisref, p1) == {MathFloor(p1)}
ceil(thisref, p1) == {MathCeil(p1)}
sin(thisref, p1) == MathWaves(p1)
cos(thisref, p1) == MathWaves(p1)
round(thisref, p1) == {MathRound(p1)}
sqrt(thisref, p1) == {MathSqrt(p1)}
float_rem(a, b) == {NumberRem(a, b)}

MathNames == {"floor", "ceil", "sin", "cos", "round", "sqrt"}

runtime_math(name, thisref, p1) ==
    CASE name = "floor" -> floor(thisref, p1)
      [] name = "ceil"  -> ceil(thisref, p1)
      [] name = "sin"   -> sin(thisref, p1)
      [] name = "cos"   -> cos(thisref, p1)
      [] name = "round" -> round(thisref, p1)
      [] name = "sqrt"  -> sqrt(thisref, p1)
=============================================================================
