------------------------------ MODULE Numbers ------------------------------
(***************************************************************************)
(* Java arithmetic, executed by the Java machine and by the code the two   *)
(* backends print for it.  A program is any sequence of instructions over  *)
(* the int registers Regs and one double; every machine executes each      *)
(* instruction on its own values.                                          *)
(*                                                                         *)
(*   - JavaScript has doubles only: int arithmetic does not wrap, bitwise  *)
(*     operators convert to 32 bits first, int division is Math.floor of   *)
(*     the quotient, a conversion to an integer type is Math.floor.        *)
(*   - WebAssembly has i32 and f32: int arithmetic wraps, int division     *)
(*     goes through f32 and its floor, conversions between integer types   *)
(*     do nothing.                                                         *)
(*                                                                         *)
(* Half is 2^31, DoubleExact 2^53 and FloatExact 2^24: instances scale     *)
(* them down together.  Doubles other than quotients are those both double *)
(* and f32 represent.                                                      *)
(***************************************************************************)
EXTENDS HostRuntime

CONSTANTS
    Regs,           \* int registers
    Half,           \* an int is in -Half .. Half - 1
    ByteHalf,       \* a byte is in -ByteHalf .. ByteHalf - 1
    DoubleExact,    \* integers up to here are exact as a double,
    FloatExact,     \* and up to here as an f32
    BitOps,         \* the bitwise instructions but the unsigned shift,
    BitFn,          \* and what each of them computes on ints
    UshrFn,         \* the unsigned shift: >>> as an unsigned number
    IntArgs, DoubleArgs,    \* the arguments of the program
    JSBound, MaxSteps       \* bounds of the model

Int32 == -Half .. Half - 1

ASSUME WidthAssumption ==
    /\ Half \in Nat \ {0, 1} /\ ByteHalf \in 1 .. Half
    /\ FloatExact \in Nat \ {0} /\ DoubleExact \in Nat
    /\ FloatExact < DoubleExact /\ 2 * Half <= DoubleExact

ASSUME BitAssumption ==
    /\ BitFn \in [BitOps -> [Int32 -> [Int32 -> Int32]]]
    /\ UshrFn \in [Int32 -> [Int32 -> 0 .. 2 * Half - 1]]

ASSUME ArgsAssumption ==
    /\ IntArgs \subseteq Int32
    /\ \A x \in DoubleArgs : IsDouble(x)

ASSUME BoundAssumption == JSBound \in Nat /\ MaxSteps \in Nat

VARIABLES
    java, js, wasm,     \* register -> its value, on each machine
    double,             \* machine -> the value of the double
    ended,              \* how a machine ended: "no", "throws", "traps", "no int"
    safe,               \* so far Java's values kept to what all number formats share
    used,               \* kinds of instructions executed so far
    wrapped,            \* the registers a bit operation wrote last
    steps

vars == <<java, js, wasm, double, ended, safe, used, wrapped, steps>>

Machine == {"java", "js", "wasm"}
RingOps == {"add", "sub", "mul"}

Wrap(n) == ((n + Half) % (2 * Half)) - Half
WrapByte(n) == ((n + ByteHalf) % (2 * ByteHalf)) - ByteHalf

Ring(op, x, y) ==
    CASE op = "add" -> x + y
      [] op = "sub" -> x - y
      [] op = "mul" -> x * y

(***************************************************************************)
(* Rounding to nearest, ties to even, of n / d for d > 0 to a format in    *)
(* which integers up to exact are exact: numerator and denominator of the  *)
(* result.  The number is scaled by a power of two so that as many bits    *)
(* are in front of the point as the format has.                            *)
(***************************************************************************)
NearestEven(n, d) ==
    LET q == n \div d
        r == n % d
    IN  IF 2 * r < d \/ (2 * r = d /\ q % 2 = 0) THEN q ELSE q + 1

Rounded(n, d, exact) ==
    LET limit == Abs(n) + exact * d
        power[k \in 0 .. limit] == IF k = 0 THEN 1 ELSE 2 * power[k - 1]
        fits(p, q) == exact * d * q <= 2 * Abs(n) * p /\ Abs(n) * p < exact * d * q
        up == power[CHOOSE k \in 0 .. limit : fits(power[k], 1)]
        down == power[CHOOSE k \in 0 .. limit : fits(1, power[k])]
    IN  IF n = 0 THEN <<0, 1>>
        ELSE IF Abs(n) < exact * d THEN <<NearestEven(n * up, d), up>>
        ELSE <<NearestEven(n, d * down) * down, 1>>

RoundInt(n, exact) == IF Abs(n) <= exact THEN n ELSE Rounded(n, 1, exact)[1]

\* Mutant: JavaScript's numbers have the precision of an f32.
ToDouble_mutant(n) == RoundInt(n, FloatExact)

ToDouble(n) == RoundInt(n, DoubleExact)
ToFloat(n) == RoundInt(n, FloatExact)

(***************************************************************************)
(* The floor of a floating point quotient.  The quotient of an exact       *)
(* dividend is rounded to an integer only when it is one: its floor is     *)
(* that of the fraction.                                                   *)
(***************************************************************************)
FloorOfQuotient(a, b, exact) ==
    IF Abs(a) <= exact THEN FloorDiv(a, b)
    ELSE LET q == Rounded(a * Sign(b), Abs(b), exact) IN q[1] \div q[2]

JSQuotient(a, b) == FloorOfQuotient(a, b, DoubleExact)
WasmQuotient(a, b) == FloorOfQuotient(ToFloat(a), ToFloat(b), FloatExact)

Init ==
    /\ java \in [Regs -> IntArgs]
    /\ js = java /\ wasm = java
    /\ \E x \in DoubleArgs : double = [m \in Machine |-> x]
    /\ ended = [m \in Machine |-> "no"]
    /\ safe = TRUE /\ used = {} /\ wrapped = {} /\ steps = 0

Running == /\ \A m \in Machine : ended[m] = "no"
           /\ steps < MaxSteps
           /\ steps' = steps + 1

JSInt(n) == Abs(n) <= JSBound

Wrote(r, kind) ==
    /\ used' = used \union {kind}
    /\ wrapped' = IF kind = "bit" THEN wrapped \union {r} ELSE wrapped \ {r}

WroteDouble(kind) == used' = used \union {kind} /\ UNCHANGED wrapped

(***************************************************************************)
(* iadd, isub, imul and ineg (isub with the register 0 minus itself).      *)
(***************************************************************************)
RingStep(op, r, s) ==
    LET exact == Ring(op, java[r], java[s])
        wide == Ring(op, js[r], js[s])
    IN  /\ Running /\ JSInt(wide)
        /\ java' = [java EXCEPT ![r] = Wrap(exact)]
        /\ js' = [js EXCEPT ![r] = ToDouble(wide)]
        /\ wasm' = [wasm EXCEPT ![r] = Wrap(Ring(op, wasm[r], wasm[s]))]
        /\ safe' = (safe /\ exact \in Int32)
        /\ Wrote(r, IF Abs(wide) <= DoubleExact THEN "ring" ELSE "rounded")
        /\ UNCHANGED <<double, ended>>

Negate(r) ==
    /\ Running
    /\ java' = [java EXCEPT ![r] = Wrap(-java[r])]
    /\ js' = [js EXCEPT ![r] = -js[r]]
    /\ wasm' = [wasm EXCEPT ![r] = Wrap(-1 * wasm[r])]
    /\ safe' = (safe /\ java[r] # -Half)
    /\ Wrote(r, "ring")
    /\ UNCHANGED <<double, ended>>

\* Mutant: the printed expression ends in ">>> 0".
BitStep_mutant(op, r, s) ==
    /\ Running
    /\ java' = [java EXCEPT ![r] = BitFn[op][java[r]][java[s]]]
    /\ js' = [js EXCEPT ![r] = BitFn[op][Wrap(js[r])][Wrap(js[s])] % (2 * Half)]
    /\ wasm' = [wasm EXCEPT ![r] = BitFn[op][wasm[r]][wasm[s]]]
    /\ Wrote(r, "bit")
    /\ UNCHANGED <<double, ended, safe>>

(***************************************************************************)
(* iand, ior, ixor, ishl and ishr; iushr is unsigned in JavaScript.        *)
(***************************************************************************)
BitStep(op, r, s) ==
    /\ Running
    /\ java' = [java EXCEPT ![r] = BitFn[op][java[r]][java[s]]]
    /\ js' = [js EXCEPT ![r] = BitFn[op][Wrap(js[r])][Wrap(js[s])]]
    /\ wasm' = [wasm EXCEPT ![r] = BitFn[op][wasm[r]][wasm[s]]]
    /\ Wrote(r, "bit")
    /\ UNCHANGED <<double, ended, safe>>

UnsignedShift(r, s) ==
    /\ Running
    /\ java' = [java EXCEPT ![r] = Wrap(UshrFn[java[r]][java[s]])]
    /\ js' = [js EXCEPT ![r] = UshrFn[Wrap(js[r])][Wrap(js[s])]]
    /\ wasm' = [wasm EXCEPT ![r] = Wrap(UshrFn[wasm[r]][wasm[s]])]
    /\ safe' = (safe /\ UshrFn[java[r]][java[s]] < Half)
    /\ Wrote(r, "unsigned")
    /\ UNCHANGED <<double, ended>>

\* Mutant: the conversion back to i32 does not look at the range.
WasmDivides_mutant(a, b) == ToFloat(b) # 0

(***************************************************************************)
(* idiv: NaiveProgramGenerator puts the quotient into a FloorExpression.   *)
(* Nobody checks for zero.                                                 *)
(***************************************************************************)
WasmDivides(a, b) == ToFloat(b) # 0 /\ WasmQuotient(a, b) \in Int32

SafeDivision(a, b) ==
    /\ b # 0 /\ Abs(a) <= FloatExact /\ Abs(b) <= FloatExact
    /\ FloorDiv(a, b) = TruncDiv(a, b) /\ TruncDiv(a, b) \in Int32

Divide(r, s) ==
    /\ Running
    /\ ended' = [m \in Machine |->
                   CASE m = "java" -> IF java[s] = 0 THEN "throws" ELSE "no"
                     [] m = "js" -> IF js[s] = 0 THEN "no int" ELSE "no"
                     [] m = "wasm" -> IF WasmDivides(wasm[r], wasm[s]) THEN "no" ELSE "traps"]
    /\ java' = IF ended'["java"] = "no"
               THEN [java EXCEPT ![r] = Wrap(TruncDiv(java[r], java[s]))] ELSE java
    /\ js' = IF ended'["js"] = "no"
             THEN [js EXCEPT ![r] = JSQuotient(js[r], js[s])] ELSE js
    /\ wasm' = IF ended'["wasm"] = "no"
               THEN [wasm EXCEPT ![r] = WasmQuotient(wasm[r], wasm[s])] ELSE wasm
    /\ safe' = (safe /\ SafeDivision(java[r], java[s]))
    /\ Wrote(r, "div")
    /\ UNCHANGED double

\* Mutant: the remainder takes the sign of the divisor.
Remainder_mutant(r, s) ==
    /\ Running
    /\ java[s] # 0 /\ js[s] # 0 /\ wasm[s] # 0
    /\ java' = [java EXCEPT ![r] = TruncRem(java[r], java[s])]
    /\ js' = [js EXCEPT ![r] = TruncRem(js[r], js[s])]
    /\ wasm' = [wasm EXCEPT ![r] = wasm[r] - wasm[s] * FloorDiv(wasm[r], wasm[s])]
    /\ Wrote(r, "order")
    /\ UNCHANGED <<double, ended, safe>>

(***************************************************************************)
(* irem: % in JavaScript, i32.rem_s in WebAssembly, which traps for zero.  *)
(***************************************************************************)
Remainder(r, s) ==
    /\ Running
    /\ ended' = [m \in Machine |->
                   CASE m = "java" -> IF java[s] = 0 THEN "throws" ELSE "no"
                     [] m = "js" -> IF js[s] = 0 THEN "no int" ELSE "no"
                     [] m = "wasm" -> IF wasm[s] = 0 THEN "traps" ELSE "no"]
    /\ java' = IF java[s] = 0 THEN java
               ELSE [java EXCEPT ![r] = TruncRem(java[r], java[s])]
    /\ js' = IF js[s] = 0 THEN js ELSE [js EXCEPT ![r] = TruncRem(js[r], js[s])]
    /\ wasm' = IF wasm[s] = 0 THEN wasm
               ELSE [wasm EXCEPT ![r] = TruncRem(wasm[r], wasm[s])]
    /\ safe' = (safe /\ java[s] # 0)
    /\ Wrote(r, "order")
    /\ UNCHANGED double

(***************************************************************************)
(* lcmp, and the comparisons of the conditional jumps.                     *)
(***************************************************************************)
Compare(r, s) ==
    /\ Running
    /\ java' = [java EXCEPT ![r] = Sign(java[r] - java[s])]
    /\ js' = [js EXCEPT ![r] = Sign(js[r] - js[s])]
    /\ wasm' = [wasm EXCEPT ![r] = Sign(wasm[r] - wasm[s])]
    /\ Wrote(r, "order")
    /\ UNCHANGED <<double, ended, safe>>

(***************************************************************************)
(* i2b, for all the conversions that narrow an int.                        *)
(***************************************************************************)
Narrow(r) ==
    /\ Running
    /\ java' = [java EXCEPT ![r] = WrapByte(java[r])]
    /\ safe' = (safe /\ WrapByte(java[r]) = java[r])
    /\ Wrote(r, "narrow")
    /\ UNCHANGED <<js, wasm, double, ended>>

(***************************************************************************)
(* i2d and d2i.  A double that is no int saturates in Java, stays in       *)
(* JavaScript what it is, and traps in WebAssembly.                        *)
(***************************************************************************)
IntToDouble(r) ==
    /\ Running
    /\ double' = [m \in Machine |->
                    Finite(Unit * CASE m = "java" -> java[r]
                                    [] m = "js" -> js[r]
                                    [] m = "wasm" -> ToFloat(wasm[r]))]
    /\ safe' = (safe /\ Abs(java[r]) <= FloatExact)
    /\ WroteDouble("convert")
    /\ UNCHANGED <<java, js, wasm, ended>>

Truncated(x) == TruncDiv(x.n, Unit)

JavaInt(x) ==
    IF x = NaN THEN 0
    ELSE IF IsFinite(x) /\ Truncated(x) \in Int32 THEN Truncated(x)
    ELSE IF x.n < 0 THEN -Half ELSE Half - 1

DoubleToInt(r) ==
    LET d == double
        floored == MathFloor(d["js"])
    IN  /\ Running
        /\ ended' = [m \in Machine |->
                       CASE m = "java" -> "no"
                         [] m = "js" -> IF IsFinite(floored) THEN "no" ELSE "no int"
                         [] m = "wasm" -> IF /\ IsFinite(d["wasm"])
                                             /\ Truncated(d["wasm"]) \in Int32
                                          THEN "no" ELSE "traps"]
        /\ java' = [java EXCEPT ![r] = JavaInt(d["java"])]
        /\ js' = IF ended'["js"] = "no"
                 THEN [js EXCEPT ![r] = floored.n \div Unit] ELSE js
        /\ wasm' = IF ended'["wasm"] = "no"
                   THEN [wasm EXCEPT ![r] = Truncated(d["wasm"])] ELSE wasm
        /\ safe' = /\ safe /\ IsFinite(d["java"])
                   /\ FloorDiv(d["java"].n, Unit) = Truncated(d["java"])
                   /\ Truncated(d["java"]) \in Int32
        /\ Wrote(r, "convert")
        /\ UNCHANGED double

(***************************************************************************)
(* drem: the operator % in JavaScript; in WebAssembly the imported         *)
(* float_rem.  Java's remainder is defined by what it satisfies.           *)
(***************************************************************************)
JavaRem(a, b) ==
    IF IsFinite(a) /\ IsFinite(b) /\ b.n # 0
    THEN Finite(CHOOSE n \in -Abs(a.n) .. Abs(a.n) :
                  /\ Abs(n) < Abs(b.n)
                  /\ (a.n - n) % Abs(b.n) = 0
                  /\ n = 0 \/ Sign(n) = Sign(a.n))
    ELSE IF IsFinite(a) /\ b.kind = "infinite" THEN a ELSE NaN

DoubleRemainder(x) ==
    /\ Running
    /\ \E w \in float_rem(double["wasm"], x) :
          double' = [java |-> JavaRem(double["java"], x),
                     js |-> NumberRem(double["js"], x), wasm |-> w]
    /\ WroteDouble("double")
    /\ UNCHANGED <<java, js, wasm, ended, safe>>

(***************************************************************************)
(* dcmpl and dcmpg: one CompareExpression for both.                        *)
(***************************************************************************)
DoubleSign(a, b, unordered) ==
    IF a = NaN \/ b = NaN THEN unordered
    ELSE IF a.kind = b.kind THEN Sign(a.n - b.n)
    ELSE IF IsFinite(a) THEN -Sign(b.n) ELSE Sign(a.n)

DoubleCompare(r, x, unordered) ==
    /\ Running
    /\ java' = [java EXCEPT ![r] = DoubleSign(double["java"], x, unordered)]
    /\ js' = [js EXCEPT ![r] = DoubleSign(double["js"], x, 0)]
    /\ wasm' = [wasm EXCEPT ![r] = DoubleSign(double["wasm"], x, -1)]
    /\ safe' = (safe /\ double["java"] # NaN /\ x # NaN)
    /\ Wrote(r, "convert")
    /\ UNCHANGED <<double, ended>>

(***************************************************************************)
(* A call of a native method of java.lang.Math that returns a double:      *)
(* JavaScript calls the import with the argument, WebAssembly with 0 and   *)
(* the argument.                                                           *)
(***************************************************************************)
DoubleMethods == MathNames \ {"round"}

JSImport(name, p1) ==
    CASE name = "floor" -> {MathFloor(p1)}
      [] name = "ceil"  -> {MathCeil(p1)}
      [] name = "sqrt"  -> {MathSqrt(p1)}
      [] name \in {"sin", "cos"} -> MathWaves(p1)

Whole(x) == x.n % Unit = 0

JavaMath(name, x) ==
    IF ~IsFinite(x)
    THEN {IF name \in {"sin", "cos"} \/ (name = "sqrt" /\ x.n < 0) THEN NaN ELSE x}
    ELSE CASE name = "floor" -> {y \in {Finite(x.n - i) : i \in 0 .. Unit - 1} : Whole(y)}
           [] name = "ceil" -> {y \in {Finite(x.n + i) : i \in 0 .. Unit - 1} : Whole(y)}
           [] name = "sqrt" -> {MathSqrt(x)}
           [] name \in {"sin", "cos"} -> MathWaves(x)

MathCall(name) ==
    /\ Running
    /\ \E a \in JavaMath(name, double["java"]), b \in JSImport(name, double["js"]),
          c \in runtime_math(name, 0, double["wasm"]) :
          /\ double' = [java |-> a, js |-> b, wasm |-> c]
          /\ safe' = (safe /\ (name \in {"sin", "cos"} => a = b /\ b = c))
    /\ WroteDouble("double")
    /\ UNCHANGED <<java, js, wasm, ended>>

(***************************************************************************)
(* A call of StrictMath.round, which takes a float and returns an int: the *)
(* nearest one, the upper of two, in Java.  JavaScript's Math.round stays  *)
(* a number of any size, and neither a NaN nor infinite values leave; what *)
(* the import returns to WebAssembly is converted to 32 bits.              *)
(***************************************************************************)
AsFloat(x) ==
    IF IsFinite(x) /\ Whole(x) THEN Finite(Unit * ToFloat(x.n \div Unit)) ELSE x

Nearest(n) == CHOOSE k \in -Abs(n) .. Abs(n) : 2 * (n - k * Unit) \in -Unit .. Unit - 1

JavaRound(x) == JavaInt(OnFinite(x, Unit * Nearest(x.n)))

ToInt32(x) == IF IsFinite(x) THEN Wrap(Truncated(x)) ELSE 0

RoundToInt(r) ==
    LET x == AsFloat(double["java"])
        y == MathRound(double["js"])
    IN  /\ Running
        /\ ended' = [ended EXCEPT !["js"] = IF IsFinite(y) THEN "no" ELSE "no int"]
        /\ java' = [java EXCEPT ![r] = JavaRound(x)]
        /\ js' = IF IsFinite(y) THEN [js EXCEPT ![r] = Truncated(y)] ELSE js
        /\ \E z \in round(0, double["wasm"]) : wasm' = [wasm EXCEPT ![r] = ToInt32(z)]
        /\ safe' = /\ safe /\ IsFinite(x) /\ x = double["java"]
                   /\ Nearest(x.n) \in Int32
        /\ Wrote(r, "convert")
        /\ UNCHANGED double

Next ==
    \/ \E r, s \in Regs :
          \/ \E op \in RingOps : RingStep(op, r, s)
          \/ \E op \in BitOps : BitStep(op, r, s)
          \/ UnsignedShift(r, s)
          \/ Divide(r, s)
          \/ Remainder(r, s)
          \/ Compare(r, s)
    \/ \E r \in Regs :
          \/ Negate(r) \/ Narrow(r)
          \/ IntToDouble(r) \/ DoubleToInt(r) \/ RoundToInt(r)
    \/ \E x \in DoubleArgs :
          \/ DoubleRemainder(x)
          \/ \E r \in Regs, unordered \in {-1, 1} : DoubleCompare(r, x, unordered)
    \/ \E name \in DoubleMethods : MathCall(name)

Spec == Init /\ [][Next]_vars

-----------------------------------------------------------------------------
(***************************************************************************)
(* Types: ints of Java and WebAssembly stay 32 bits wide, a register in    *)
(* JavaScript holds an integer as long as the program runs.                *)
(***************************************************************************)
Kinds == {"ring", "rounded", "bit", "unsigned", "div", "order", "narrow", "convert",
          "double"}

TypeOK ==
    /\ java \in [Regs -> Int32] /\ wasm \in [Regs -> Int32] /\ js \in [Regs -> Int]
    /\ \A m \in Machine : IsDouble(double[m])
    /\ ended \in [Machine -> {"no", "throws", "traps", "no int"}]
    /\ safe \in BOOLEAN /\ used \subseteq Kinds /\ wrapped \subseteq Regs /\ steps \in 0 .. MaxSteps

(***************************************************************************)
(* A program whose int results never overflow, that divides exactly or     *)
(* with operands of one sign, none of them zero or beyond 2^24, narrows    *)
(* only what fits, rounds only what an int holds and never compares a NaN  *)
(* computes the same on all three machines, and ends on none of them.      *)
(***************************************************************************)
SafeProgramsAgree ==
    safe => /\ js = java /\ wasm = java
            /\ double["js"] = double["java"] /\ double["wasm"] = double["java"]
            /\ \A m \in Machine : ended[m] = "no"

(***************************************************************************)
(* JavaScript does not wrap, and yet a program of additions, products and  *)
(* bit operations loses nothing but high bits: each register is Java's     *)
(* value modulo 2^32, as long as no product was so large that the double   *)
(* rounded it.                                                             *)
(***************************************************************************)
LowBitsOnly == used \subseteq {"ring", "bit", "unsigned"}

JSCongruent == LowBitsOnly => \A r \in Regs : Wrap(js[r]) = java[r]

(***************************************************************************)
(* A bit operation ("x | 0") repairs what overflows did before it: its     *)
(* result is Java's, in all of its 32 bits.                                *)
(***************************************************************************)
BitOpsRepair == LowBitsOnly => \A r \in wrapped : js[r] = java[r]

(***************************************************************************)
(* Without divisions, conversions and narrowings the ints of WebAssembly   *)
(* are Java's, whatever overflows.                                         *)
(***************************************************************************)
WasmExact == used \subseteq {"ring", "rounded", "bit", "unsigned", "order", "double"} => wasm = java
=============================================================================
