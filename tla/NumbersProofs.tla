--------------------------- MODULE NumbersProofs ---------------------------
(***************************************************************************)
(* Proofs about Numbers, for every width of the number formats: what the   *)
(* bounded runs check of 4 bit ints holds of 32 bit ones.                  *)
(***************************************************************************)
EXTENDS Numbers, Induction, TLAPS

(***************************************************************************)
(* Wrap returns an int, that differs from its argument by a multiple of    *)
(* 2^32, and there is only one such int.                                   *)
(***************************************************************************)
LEMMA DivMod ==
    ASSUME NEW n \in Int, NEW m \in Nat \ {0}
    PROVE  /\ n % m \in 0 .. m - 1
           /\ n \div m \in Int
           /\ n = m * (n \div m) + (n % m)
  <1>1. n % m \in 0 .. m - 1
    OBVIOUS
  <1>2. n \div m \in Int
    OBVIOUS
  <1>3. n = m * (n \div m) + (n % m)
    BY Z3
  <1> QED
    BY <1>1, <1>2, <1>3

LEMMA WrapType == ASSUME NEW n \in Int PROVE Wrap(n) \in Int32
  <1>1. (n + Half) % (2 * Half) \in 0 .. 2 * Half - 1
    BY DivMod, WidthAssumption, n + Half \in Int, 2 * Half \in Nat \ {0}
  <1> QED
    BY <1>1, WidthAssumption DEF Wrap, Int32

LEMMA WrapShifts ==
    ASSUME NEW n \in Int
    PROVE  \E k \in Int : Wrap(n) = n + k * (2 * Half)
  <1> DEFINE M == 2 * Half
             q == (n + Half) \div M
  <1>1. M \in Nat \ {0} /\ n + Half \in Int
    BY WidthAssumption DEF M
  <1>2. q \in Int /\ n + Half = M * q + ((n + Half) % M)
    BY <1>1, DivMod
  <1> DEFINE r == (n + Half) % M
  <1>3. r \in 0 .. M - 1
    BY <1>1, DivMod
  <1>4. Wrap(n) = r - Half
    BY DEF Wrap
  <1> HIDE DEF r, q, M
  <1>5. n + Half = M * q + r /\ r \in Int
    BY <1>1, <1>2, <1>3 DEF r
  <1>6. Wrap(n) = n - M * q
    BY <1>1, <1>2, <1>4, <1>5, WidthAssumption
  <1>7. -q \in Int /\ n - M * q = n + (-q) * M
    BY <1>1, <1>2
  <1> QED
    BY <1>6, <1>7 DEF M

LEMMA WrapUnique ==
    ASSUME NEW n \in Int, NEW x \in Int32, NEW k \in Int, x = n + k * (2 * Half)
    PROVE  Wrap(n) = x
  <1> DEFINE M == 2 * Half
  <1>1. M \in Nat \ {0} /\ x + Half \in 0 .. M - 1
    BY WidthAssumption DEF Int32
  <1>2. PICK j \in Int : Wrap(n) = n + j * M
    BY WrapShifts
  <1>3. Wrap(n) + Half \in 0 .. M - 1 /\ Wrap(n) \in Int
    BY WrapType, WidthAssumption DEF Int32
  <1> DEFINE d == j - k
  <1>4. d \in Int /\ Wrap(n) - x = d * M
    BY <1>1, <1>2
  <1>5. Wrap(n) - x < M /\ -M < Wrap(n) - x
    BY <1>1, <1>3, WidthAssumption DEF Int32
  <1> HIDE DEF d, M
  <1>6. d * M < M /\ -M < d * M
    BY <1>4, <1>5
  <1>7. d >= 1 => d * M >= M
    BY <1>1, <1>4
  <1>8. d <= -1 => d * M <= -M
    BY <1>1, <1>4
  <1>9. d = 0
    BY <1>1, <1>4, <1>6, <1>7, <1>8
  <1> QED
    BY <1>1, <1>3, <1>4, <1>9 DEF Int32

(***************************************************************************)
(* What the ring operations make of a number modulo 2^32 depends only on   *)
(* the operands modulo 2^32: wrapping late is as good as wrapping early.   *)
(***************************************************************************)
LEMMA RingWraps ==
    ASSUME NEW op \in RingOps, NEW x \in Int, NEW y \in Int
    PROVE  /\ Ring(op, x, y) \in Int
           /\ Wrap(Ring(op, x, y)) = Wrap(Ring(op, Wrap(x), Wrap(y)))
  <1> DEFINE M == 2 * Half
  <1>1. M \in Int /\ Wrap(x) \in Int /\ Wrap(y) \in Int
    BY WrapType, WidthAssumption DEF Int32
  <1>2. PICK i \in Int : Wrap(x) = x + i * M
    BY WrapShifts
  <1>3. PICK j \in Int : Wrap(y) = y + j * M
    BY WrapShifts
  <1> DEFINE u == Wrap(x)
             v == Wrap(y)
             full == Ring(op, x, y)
             low == Ring(op, u, v)
  <1>4. full \in Int /\ low \in Int
    BY <1>1 DEF Ring, RingOps
  <1> HIDE DEF M, u, v
  <1>5. u \in Int /\ v \in Int /\ u = x + i * M /\ v = y + j * M
    BY <1>1, <1>2, <1>3 DEF u, v
  <1>6. \E k \in Int : full = low + k * M
    <2>1. CASE op = "add"
      <3>1. full = x + y /\ low = u + v
        BY <2>1 DEF Ring
      <3>2. -(i + j) \in Int /\ x + y = u + v + (-(i + j)) * M
        BY <1>1, <1>5
      <3> QED BY <3>1, <3>2
    <2>2. CASE op = "sub"
      <3>1. full = x - y /\ low = u - v
        BY <2>2 DEF Ring
      <3>2. j - i \in Int /\ x - y = u - v + (j - i) * M
        BY <1>1, <1>5
      <3> QED BY <3>1, <3>2
    <2>3. CASE op = "mul"
      <3>1. full = x * y /\ low = u * v
        BY <2>3 DEF Ring
      <3> DEFINE k == -(x * j + i * y + i * j * M)
      <3>2. k \in Int /\ x * y = u * v + k * M
        BY <1>1, <1>5
      <3> QED BY <3>1, <3>2
    <2> QED BY <2>1, <2>2, <2>3 DEF RingOps
  <1>7. PICK k \in Int : full = low + k * M
    BY <1>6
  <1>8. PICK h \in Int : Wrap(full) = full + h * M
    BY <1>4, WrapShifts DEF M
  <1> DEFINE w == Wrap(full)
  <1>9. w \in Int32 /\ k + h \in Int /\ w = low + (k + h) * M
    <2>1. w \in Int32
      BY <1>4, WrapType
    <2> HIDE DEF w, low, full
    <2>2. w = full + h * M
      BY <1>8 DEF w
    <2> QED BY <1>1, <1>4, <1>7, <2>1, <2>2 DEF Int32
  <1> HIDE DEF w, low, full
  <1>10. Wrap(low) = w
    BY <1>4, <1>9, WrapUnique DEF M
  <1> QED BY <1>4, <1>10 DEF w, low, full, u, v

LEMMA WrapInt == ASSUME NEW n \in Int32 PROVE Wrap(n) = n
  <1>1. n \in Int /\ 0 \in Int /\ n = n + 0 * (2 * Half)
    BY WidthAssumption DEF Int32
  <1> QED BY <1>1, WrapUnique

LEMMA NegationWraps ==
    ASSUME NEW n \in Int
    PROVE  Wrap(-n) = Wrap(-Wrap(n)) /\ -n \in Int
  <1>1. 0 \in Int32 /\ "sub" \in RingOps
    BY WidthAssumption DEF Int32, RingOps
  <1>2. Wrap(Ring("sub", 0, n)) = Wrap(Ring("sub", Wrap(0), Wrap(n)))
    BY <1>1, RingWraps
  <1>3. Wrap(0) = 0 /\ Wrap(n) \in Int
    BY <1>1, WrapInt, WrapType, WidthAssumption DEF Int32
  <1>4. Ring("sub", 0, n) = -n /\ Ring("sub", 0, Wrap(n)) = -Wrap(n)
    BY <1>3 DEF Ring
  <1> QED BY <1>2, <1>3, <1>4

(***************************************************************************)
(* The operators of the instructions return ints.                          *)
(***************************************************************************)
LEMMA AbsType == ASSUME NEW n \in Int PROVE Abs(n) \in Nat /\ Sign(n) \in -1 .. 1
  BY DEF Abs, Sign

LEMMA SignInt32 == ASSUME NEW n PROVE Sign(n) \in Int32
  BY WidthAssumption DEF Sign, Int32

LEMMA WrapByteType == ASSUME NEW n \in Int PROVE WrapByte(n) \in Int32
  <1>1. ByteHalf \in Nat /\ 2 * ByteHalf \in Nat \ {0} /\ n + ByteHalf \in Int
    BY WidthAssumption
  <1>2. (n + ByteHalf) % (2 * ByteHalf) \in 0 .. 2 * ByteHalf - 1
    BY <1>1, DivMod
  <1> QED
    BY <1>1, <1>2, WidthAssumption DEF WrapByte, Int32

LEMMA TruncType ==
    ASSUME NEW a \in Int32, NEW b \in Int32, b # 0
    PROVE  TruncDiv(a, b) \in Int /\ TruncRem(a, b) \in Int32
  <1>1. a \in Int /\ b \in Int /\ Abs(b) \in Nat \ {0} /\ Abs(a) \in Nat
    BY WidthAssumption DEF Int32, Abs
  <1>a. Abs(a) \in Int
    BY <1>1
  <1> DEFINE q == Abs(a) \div Abs(b)
             r == Abs(a) % Abs(b)
  <1>2. q \in Int /\ r \in 0 .. Abs(b) - 1 /\ Abs(a) = Abs(b) * q + r
    BY ONLY <1>1, <1>a, DivMod DEF q, r
  <1>3. r <= Abs(a)
    <2> HIDE DEF q, r
    <2> DEFINE m == Abs(a)
               d == Abs(b)
    <2>1. m \in Nat /\ d \in Nat \ {0} /\ r \in 0 .. d - 1 /\ m = d * q + r
      BY <1>1, <1>2
    <2> HIDE DEF m, d
    <2>2. q <= -1 => d * q <= -d
      BY <1>2, <2>1
    <2>3. q >= 0 => d * q >= 0
      BY <1>2, <2>1
    <2>4. m >= r
      BY <1>2, <2>1, <2>2, <2>3
    <2> QED BY <2>4 DEF m
  <1> HIDE DEF q, r
  <1>4. TruncDiv(a, b) = Sign(a) * Sign(b) * q /\ TruncRem(a, b) = Sign(a) * r
    BY DEF TruncDiv, TruncRem, q, r
  <1>5. TruncDiv(a, b) \in Int
    BY <1>1, <1>2, <1>4, AbsType
  <1>6. TruncRem(a, b) \in Int32
    BY <1>1, <1>2, <1>3, <1>4, WidthAssumption DEF Int32, Sign, Abs
  <1> QED BY <1>5, <1>6

LEMMA TruncatedType == ASSUME NEW x, IsDouble(x) PROVE Truncated(x) \in Int
  <1>1. x.n \in Int /\ Unit \in Nat \ {0} /\ Abs(x.n) \in Nat /\ Abs(Unit) = Unit
    BY UnitAssumption DEF IsDouble, Abs
  <1>2. Abs(x.n) \div Unit \in Int
    BY <1>1
  <1>3. Sign(x.n) \in Int /\ Sign(Unit) \in Int
    BY DEF Sign
  <1> QED BY <1>1, <1>2, <1>3 DEF Truncated, TruncDiv

LEMMA MathRoundType == ASSUME NEW x, IsDouble(x) PROVE IsDouble(MathRound(x))
  <1>1. x.n \in Int /\ Unit \in Nat \ {0} /\ Unit \div 2 \in Int
    BY UnitAssumption DEF IsDouble
  <1>2. \A n \in Int : IsDouble(Finite(n))
    BY DEF IsDouble, Finite, NaN
  <1> DEFINE y == OnFinite(x, x.n + Unit \div 2)
  <1>3. IsDouble(y)
    BY <1>1, <1>2 DEF OnFinite
  <1> HIDE DEF y
  <1>4. (y.n \div Unit) * Unit \in Int
    BY <1>1, <1>3 DEF IsDouble
  <1>5. IsDouble(MathFloor(y))
    BY <1>2, <1>3, <1>4 DEF MathFloor, OnFinite
  <1> QED BY <1>5 DEF MathRound, y

LEMMA JavaIntType == ASSUME NEW x PROVE JavaInt(x) \in Int32
  BY WidthAssumption DEF JavaInt, Int32

(***************************************************************************)
(* The inductive invariant.  JSCongruent speaks of programs without        *)
(* divisions, conversions and the like; these write registers whose value  *)
(* nothing is known about, so everything about js hangs on LowBitsOnly.    *)
(***************************************************************************)
IntsTyped == java \in [Regs -> Int32] /\ wasm \in [Regs -> Int32]

LowBits ==
    LowBitsOnly => /\ js \in [Regs -> Int]
                   /\ \A r \in Regs : Wrap(js[r]) = java[r]
                   /\ \A r \in wrapped : js[r] = java[r]

NumbersInv == IntsTyped /\ wrapped \subseteq Regs /\ LowBits /\ WasmExact

LEMMA InitNumbersInv == Init => NumbersInv
  <1> SUFFICES ASSUME Init PROVE NumbersInv
    OBVIOUS
  <1>1. IntsTyped /\ wrapped \subseteq Regs /\ WasmExact
    BY ArgsAssumption DEF Init, IntsTyped, WasmExact
  <1>2. \A r \in Regs : js[r] \in Int32 /\ js[r] = java[r]
    BY ArgsAssumption DEF Init
  <1>3. \A r \in Regs : Wrap(js[r]) = java[r]
    BY <1>2, WrapInt
  <1>4. js \in [Regs -> Int] /\ wrapped = {}
    <2>1. \A x \in Int32 : x \in Int
      BY WidthAssumption DEF Int32
    <2>2. js \in [Regs -> Int32] /\ wrapped = {}
      BY ArgsAssumption DEF Init
    <2> QED BY <2>1, <2>2
  <1> QED BY <1>1, <1>3, <1>4 DEF NumbersInv, LowBits

(***************************************************************************)
(* What an instruction that writes register r has to establish.            *)
(***************************************************************************)
LEMMA WriteStep ==
    ASSUME NumbersInv, NEW r \in Regs, NEW kind, Wrote(r, kind),
           NEW x \in Int32, java' = [java EXCEPT ![r] = x],
           NEW z \in Int32, wasm' = [wasm EXCEPT ![r] = z] \/ (kind = "div" /\ wasm' = wasm),
           NEW y,
           LowBitsOnly /\ kind \in {"ring", "bit", "unsigned"} =>
              /\ y \in Int /\ js' = [js EXCEPT ![r] = y] /\ Wrap(y) = x
              /\ (kind = "bit" => y = x),
           wasm = java /\ kind \in {"ring", "rounded", "bit", "unsigned", "order", "double"}
              => z = x
    PROVE  NumbersInv'
  <1>1. IntsTyped' /\ wrapped' \subseteq Regs
    BY DEF NumbersInv, IntsTyped, Wrote
  <1>2. WasmExact'
    BY DEF NumbersInv, WasmExact, Wrote, IntsTyped
  <1>3. LowBits'
    <2> SUFFICES ASSUME LowBitsOnly'
                 PROVE  /\ js' \in [Regs -> Int]
                        /\ \A s \in Regs : Wrap(js'[s]) = java'[s]
                        /\ \A s \in wrapped' : js'[s] = java'[s]
      BY DEF LowBits
    <2>1. LowBitsOnly /\ kind \in {"ring", "bit", "unsigned"}
      BY DEF LowBitsOnly, Wrote
    <2>2. /\ y \in Int /\ js' = [js EXCEPT ![r] = y] /\ Wrap(y) = x
          /\ (kind = "bit" => y = x)
      BY <2>1
    <2>3. /\ js \in [Regs -> Int]
          /\ \A s \in Regs : Wrap(js[s]) = java[s]
          /\ \A s \in wrapped : js[s] = java[s]
          /\ java \in [Regs -> Int32]
      BY <2>1 DEF NumbersInv, LowBits, IntsTyped
    <2>4. js' \in [Regs -> Int]
      BY <2>2, <2>3
    <2>5. \A s \in Regs : Wrap(js'[s]) = java'[s]
      BY <2>2, <2>3
    <2>6. wrapped' = IF kind = "bit" THEN wrapped \union {r} ELSE wrapped \ {r}
      BY DEF Wrote
    <2>7. \A s \in wrapped' : js'[s] = java'[s]
      BY <2>2, <2>3, <2>6 DEF NumbersInv
    <2> QED BY <2>4, <2>5, <2>7
  <1> QED BY <1>1, <1>2, <1>3 DEF NumbersInv

LEMMA RingPreserves ==
    ASSUME NumbersInv, NEW op \in RingOps, NEW r \in Regs, NEW s \in Regs, RingStep(op, r, s)
    PROVE  NumbersInv'
  <1> DEFINE x == Wrap(Ring(op, java[r], java[s]))
             z == Wrap(Ring(op, wasm[r], wasm[s]))
             wide == Ring(op, js[r], js[s])
             y == ToDouble(wide)
             kind == IF Abs(wide) <= DoubleExact THEN "ring" ELSE "rounded"
  <1>1. x \in Int32 /\ z \in Int32
    <2>1. \A n \in Int32 : n \in Int
      BY WidthAssumption DEF Int32
    <2>2. /\ java[r] \in Int /\ java[s] \in Int
          /\ wasm[r] \in Int /\ wasm[s] \in Int
      BY <2>1 DEF NumbersInv, IntsTyped
    <2> QED BY <2>2, RingWraps, WrapType
  <1>2. LowBitsOnly /\ kind \in {"ring", "bit", "unsigned"} => y \in Int /\ Wrap(y) = x
    <2> SUFFICES ASSUME LowBitsOnly, kind = "ring" PROVE y \in Int /\ Wrap(y) = x
      OBVIOUS
    <2>1. /\ js[r] \in Int /\ Wrap(js[r]) = java[r]
          /\ js[s] \in Int /\ Wrap(js[s]) = java[s]
      BY DEF NumbersInv, LowBits
    <2>2. y = wide
      BY DEF ToDouble, RoundInt
    <2> QED BY <2>1, <2>2, RingWraps
  <1>3. /\ Wrote(r, kind) /\ java' = [java EXCEPT ![r] = x]
        /\ js' = [js EXCEPT ![r] = y] /\ wasm' = [wasm EXCEPT ![r] = z]
    BY DEF RingStep
  <1>4. kind # "bit" /\ (wasm = java => z = x)
    OBVIOUS
  <1> HIDE DEF x, z, y, kind
  <1> QED BY <1>1, <1>2, <1>3, <1>4, WriteStep

LEMMA NegatePreserves ==
    ASSUME NumbersInv, NEW r \in Regs, Negate(r)
    PROVE  NumbersInv'
  <1> DEFINE x == Wrap(-java[r])
             z == Wrap(-1 * wasm[r])
             y == -js[r]
  <1>1. java[r] \in Int /\ wasm[r] \in Int
    <2>1. \A n \in Int32 : n \in Int
      BY WidthAssumption DEF Int32
    <2> QED BY <2>1 DEF NumbersInv, IntsTyped
  <1>2. -java[r] \in Int /\ -1 * wasm[r] \in Int /\ -1 * wasm[r] = -wasm[r]
    BY <1>1
  <1>3. x \in Int32 /\ z \in Int32
    BY <1>2, WrapType
  <1>4. LowBitsOnly => y \in Int /\ Wrap(y) = x
    BY NegationWraps DEF NumbersInv, LowBits
  <1>5. /\ Wrote(r, "ring") /\ java' = [java EXCEPT ![r] = x]
        /\ js' = [js EXCEPT ![r] = y] /\ wasm' = [wasm EXCEPT ![r] = z]
    BY DEF Negate
  <1>6. wasm = java => z = x
    BY <1>2
  <1>7. LowBitsOnly /\ "ring" \in {"ring", "bit", "unsigned"} =>
            /\ y \in Int /\ js' = [js EXCEPT ![r] = y] /\ Wrap(y) = x
            /\ ("ring" = "bit" => y = x)
    BY <1>4, <1>5
  <1> HIDE DEF x, z, y
  <1> QED BY <1>3, <1>5, <1>6, <1>7, WriteStep

LEMMA BitPreserves ==
    ASSUME NumbersInv, NEW op \in BitOps, NEW r \in Regs, NEW s \in Regs, BitStep(op, r, s)
    PROVE  NumbersInv'
  <1> DEFINE x == BitFn[op][java[r]][java[s]]
             z == BitFn[op][wasm[r]][wasm[s]]
             y == BitFn[op][Wrap(js[r])][Wrap(js[s])]
  <1>1. x \in Int32 /\ z \in Int32
    BY BitAssumption DEF NumbersInv, IntsTyped
  <1>2. LowBitsOnly => y = x
    BY DEF NumbersInv, LowBits
  <1>3. LowBitsOnly => y \in Int /\ Wrap(y) = x /\ y = x
    BY <1>1, <1>2, WrapInt, WidthAssumption DEF Int32
  <1>4. /\ Wrote(r, "bit") /\ java' = [java EXCEPT ![r] = x]
        /\ js' = [js EXCEPT ![r] = y] /\ wasm' = [wasm EXCEPT ![r] = z]
    BY DEF BitStep
  <1>5. wasm = java => z = x
    OBVIOUS
  <1> HIDE DEF x, z, y
  <1> QED BY <1>1, <1>3, <1>4, <1>5, WriteStep

LEMMA UnsignedShiftPreserves ==
    ASSUME NumbersInv, NEW r \in Regs, NEW s \in Regs, UnsignedShift(r, s)
    PROVE  NumbersInv'
  <1> DEFINE x == Wrap(UshrFn[java[r]][java[s]])
             z == Wrap(UshrFn[wasm[r]][wasm[s]])
             y == UshrFn[Wrap(js[r])][Wrap(js[s])]
  <1>1. /\ UshrFn[java[r]][java[s]] \in Int /\ UshrFn[wasm[r]][wasm[s]] \in Int
    <2>1. /\ UshrFn[java[r]][java[s]] \in 0 .. 2 * Half - 1
          /\ UshrFn[wasm[r]][wasm[s]] \in 0 .. 2 * Half - 1
      BY BitAssumption DEF NumbersInv, IntsTyped
    <2> QED BY <2>1, WidthAssumption
  <1>2. x \in Int32 /\ z \in Int32
    BY <1>1, WrapType
  <1>3. LowBitsOnly => y = UshrFn[java[r]][java[s]]
    BY DEF NumbersInv, LowBits
  <1>4. LowBitsOnly => y \in Int /\ Wrap(y) = x
    BY <1>1, <1>3
  <1>5. /\ Wrote(r, "unsigned") /\ java' = [java EXCEPT ![r] = x]
        /\ js' = [js EXCEPT ![r] = y] /\ wasm' = [wasm EXCEPT ![r] = z]
    BY DEF UnsignedShift
  <1>6. wasm = java => z = x
    OBVIOUS
  <1> HIDE DEF x, z, y
  <1> QED BY <1>2, <1>4, <1>5, <1>6, WriteStep

(***************************************************************************)
(* An instruction that leaves the value of the registers unknown in        *)
(* JavaScript: nothing is claimed of js afterwards.                        *)
(***************************************************************************)
LEMMA OtherWrite ==
    ASSUME NumbersInv, NEW r \in Regs, NEW kind, Wrote(r, kind),
           kind \in {"div", "order", "narrow", "convert"},
           java' \in [Regs -> Int32], wasm' \in [Regs -> Int32],
           wasm = java /\ kind = "order" => wasm' = java'
    PROVE  NumbersInv'
  <1>1. ~LowBitsOnly'
    BY DEF LowBitsOnly, Wrote
  <1>2. wrapped' \subseteq Regs
    BY DEF NumbersInv, Wrote
  <1>3. WasmExact'
    BY DEF NumbersInv, WasmExact, Wrote
  <1> QED BY <1>1, <1>2, <1>3 DEF NumbersInv, IntsTyped, LowBits

LEMMA DividePreserves ==
    ASSUME NumbersInv, NEW r \in Regs, NEW s \in Regs, Divide(r, s)
    PROVE  NumbersInv'
  <1>1. java \in [Regs -> Int32] /\ wasm \in [Regs -> Int32]
    BY DEF NumbersInv, IntsTyped
  <1>2. ended'["java"] = "no" => java[s] # 0
    BY DEF Divide, Machine
  <1>3. ended'["wasm"] = "no" => WasmQuotient(wasm[r], wasm[s]) \in Int32
    BY DEF Divide, Machine, WasmDivides
  <1>4. java' \in [Regs -> Int32]
    <2>1. CASE ended'["java"] = "no"
      <3>1. Wrap(TruncDiv(java[r], java[s])) \in Int32
        BY <1>1, <1>2, <2>1, TruncType, WrapType
      <3>2. java' = [java EXCEPT ![r] = Wrap(TruncDiv(java[r], java[s]))]
        BY <2>1 DEF Divide
      <3> QED BY <1>1, <3>1, <3>2
    <2>2. CASE ended'["java"] # "no"
      BY <1>1, <2>2 DEF Divide
    <2> QED BY <2>1, <2>2
  <1>5. wasm' \in [Regs -> Int32]
    <2>1. CASE ended'["wasm"] = "no"
      <3>1. wasm' = [wasm EXCEPT ![r] = WasmQuotient(wasm[r], wasm[s])]
        BY <2>1 DEF Divide
      <3> QED BY <1>1, <1>3, <2>1, <3>1
    <2>2. CASE ended'["wasm"] # "no"
      BY <1>1, <2>2 DEF Divide
    <2> QED BY <2>1, <2>2
  <1>6. Wrote(r, "div")
    BY DEF Divide
  <1> QED BY <1>4, <1>5, <1>6, OtherWrite

LEMMA RemainderPreserves ==
    ASSUME NumbersInv, NEW r \in Regs, NEW s \in Regs, Remainder(r, s)
    PROVE  NumbersInv'
  <1>1. java \in [Regs -> Int32] /\ wasm \in [Regs -> Int32]
    BY DEF NumbersInv, IntsTyped
  <1>2. /\ java' = IF java[s] = 0 THEN java
                   ELSE [java EXCEPT ![r] = TruncRem(java[r], java[s])]
        /\ wasm' = IF wasm[s] = 0 THEN wasm
                   ELSE [wasm EXCEPT ![r] = TruncRem(wasm[r], wasm[s])]
        /\ Wrote(r, "order")
    BY DEF Remainder
  <1>3. /\ java[s] # 0 => TruncRem(java[r], java[s]) \in Int32
        /\ wasm[s] # 0 => TruncRem(wasm[r], wasm[s]) \in Int32
    BY <1>1, TruncType
  <1>4. java' \in [Regs -> Int32] /\ wasm' \in [Regs -> Int32]
    BY <1>1, <1>2, <1>3
  <1>5. wasm = java => wasm' = java'
    BY <1>2
  <1> QED BY <1>2, <1>4, <1>5, OtherWrite

LEMMA ComparePreserves ==
    ASSUME NumbersInv, NEW r \in Regs, NEW s \in Regs, Compare(r, s)
    PROVE  NumbersInv'
  <1>1. java \in [Regs -> Int32] /\ wasm \in [Regs -> Int32]
    BY DEF NumbersInv, IntsTyped
  <1>2. /\ java' = [java EXCEPT ![r] = Sign(java[r] - java[s])]
        /\ wasm' = [wasm EXCEPT ![r] = Sign(wasm[r] - wasm[s])]
        /\ Wrote(r, "order")
    BY DEF Compare
  <1>3. Sign(java[r] - java[s]) \in Int32 /\ Sign(wasm[r] - wasm[s]) \in Int32
    BY SignInt32
  <1>4. java' \in [Regs -> Int32] /\ wasm' \in [Regs -> Int32]
    BY <1>1, <1>2, <1>3
  <1>5. wasm = java => wasm' = java'
    BY <1>2
  <1> QED BY <1>2, <1>4, <1>5, OtherWrite

LEMMA NarrowPreserves ==
    ASSUME NumbersInv, NEW r \in Regs, Narrow(r)
    PROVE  NumbersInv'
  <1>1. java \in [Regs -> Int32] /\ wasm \in [Regs -> Int32]
    BY DEF NumbersInv, IntsTyped
  <1>2. java[r] \in Int
    <2>1. \A n \in Int32 : n \in Int
      BY WidthAssumption DEF Int32
    <2> QED BY <1>1, <2>1
  <1>3. java' = [java EXCEPT ![r] = WrapByte(java[r])] /\ wasm' = wasm /\ Wrote(r, "narrow")
    BY DEF Narrow
  <1>4. java' \in [Regs -> Int32]
    BY <1>1, <1>2, <1>3, WrapByteType
  <1> QED BY <1>1, <1>3, <1>4, OtherWrite

LEMMA DoubleToIntPreserves ==
    ASSUME NumbersInv, NEW r \in Regs, DoubleToInt(r)
    PROVE  NumbersInv'
  <1>1. java \in [Regs -> Int32] /\ wasm \in [Regs -> Int32]
    BY DEF NumbersInv, IntsTyped
  <1>2. java' = [java EXCEPT ![r] = JavaInt(double["java"])] /\ Wrote(r, "convert")
    BY DEF DoubleToInt
  <1>3. java' \in [Regs -> Int32]
    BY <1>1, <1>2, JavaIntType
  <1>4. ended'["wasm"] = "no" => Truncated(double["wasm"]) \in Int32
    BY DEF DoubleToInt, Machine
  <1>5. wasm' = IF ended'["wasm"] = "no"
                THEN [wasm EXCEPT ![r] = Truncated(double["wasm"])] ELSE wasm
    BY DEF DoubleToInt
  <1>6. wasm' \in [Regs -> Int32]
    BY <1>1, <1>4, <1>5
  <1> QED BY <1>2, <1>3, <1>6, OtherWrite

LEMMA RoundToIntPreserves ==
    ASSUME NumbersInv, IsDouble(double["wasm"]), NEW r \in Regs, RoundToInt(r)
    PROVE  NumbersInv'
  <1>1. java \in [Regs -> Int32] /\ wasm \in [Regs -> Int32]
    BY DEF NumbersInv, IntsTyped
  <1>2. /\ java' = [java EXCEPT ![r] = JavaRound(AsFloat(double["java"]))]
        /\ wasm' = [wasm EXCEPT ![r] = ToInt32(MathRound(double["wasm"]))]
        /\ Wrote(r, "convert")
    BY DEF RoundToInt, round
  <1>3. JavaRound(AsFloat(double["java"])) \in Int32
    BY JavaIntType DEF JavaRound
  <1>4. ToInt32(MathRound(double["wasm"])) \in Int32
    <2>1. Truncated(MathRound(double["wasm"])) \in Int
      BY MathRoundType, TruncatedType
    <2>2. 0 \in Int32
      BY WidthAssumption DEF Int32
    <2> QED BY <2>1, <2>2, WrapType DEF ToInt32
  <1>5. java' \in [Regs -> Int32] /\ wasm' \in [Regs -> Int32]
    BY <1>1, <1>2, <1>3, <1>4
  <1> QED BY <1>2, <1>5, OtherWrite

LEMMA DoubleComparePreserves ==
    ASSUME NumbersInv, NEW r \in Regs, NEW x \in DoubleArgs, NEW unordered \in {-1, 1},
           DoubleCompare(r, x, unordered)
    PROVE  NumbersInv'
  <1>1. java \in [Regs -> Int32] /\ wasm \in [Regs -> Int32]
    BY DEF NumbersInv, IntsTyped
  <1>2. {-1, 0, 1} \subseteq Int32
    BY WidthAssumption DEF Int32
  <1>3. \A a, u : u \in {-1, 0, 1} => DoubleSign(a, x, u) \in {-1, 0, 1}
    <2>1. \A n : Sign(n) \in {-1, 0, 1}
      BY DEF Sign
    <2>2. \A n : -Sign(n) \in {-1, 0, 1}
      <3> TAKE n
      <3>1. Sign(n) = -1 \/ Sign(n) = 0 \/ Sign(n) = 1
        BY <2>1
      <3> QED BY <3>1
    <2> QED BY <2>1, <2>2 DEF DoubleSign
  <1>4. /\ java' = [java EXCEPT ![r] = DoubleSign(double["java"], x, unordered)]
        /\ wasm' = [wasm EXCEPT ![r] = DoubleSign(double["wasm"], x, -1)]
        /\ Wrote(r, "convert")
    BY DEF DoubleCompare
  <1>5. /\ DoubleSign(double["java"], x, unordered) \in Int32
        /\ DoubleSign(double["wasm"], x, -1) \in Int32
    BY <1>2, <1>3
  <1>6. java' \in [Regs -> Int32] /\ wasm' \in [Regs -> Int32]
    BY <1>1, <1>4, <1>5
  <1> QED BY <1>4, <1>6, OtherWrite

(***************************************************************************)
(* Instructions on the double leave the registers alone.                   *)
(***************************************************************************)
LEMMA DoublePreserves ==
    ASSUME NumbersInv, NEW kind, WroteDouble(kind), UNCHANGED <<java, js, wasm>>
    PROVE  NumbersInv'
  <1>1. wrapped' = wrapped /\ used \subseteq used' /\ java' = java /\ js' = js /\ wasm' = wasm
    BY DEF WroteDouble
  <1>2. LowBitsOnly' => LowBitsOnly
    BY <1>1 DEF LowBitsOnly
  <1>3. LowBits'
    BY <1>1, <1>2 DEF NumbersInv, LowBits
  <1>4. WasmExact'
    BY <1>1 DEF NumbersInv, WasmExact
  <1> QED BY <1>1, <1>3, <1>4 DEF NumbersInv, IntsTyped

-----------------------------------------------------------------------------
(***************************************************************************)
(* Division and rounding on the grid of the doubles.                       *)
(***************************************************************************)
LEMMA SmallMultiple ==
    ASSUME NEW m \in Nat \ {0}, NEW k \in Int, -m < m * k, m * k < m
    PROVE  k = 0
  <1>1. k >= 1 => m * k >= m
    OBVIOUS
  <1>2. k <= -1 => m * k <= -m
    OBVIOUS
  <1> QED BY <1>1, <1>2

LEMMA QuotientUnique ==
    ASSUME NEW m \in Nat \ {0}, NEW q \in Int, NEW r \in 0 .. m - 1
    PROVE  (m * q + r) \div m = q /\ (m * q + r) % m = r
  <1> DEFINE n == m * q + r
             d == n \div m
             e == n % m
  <1>1. n \in Int
    OBVIOUS
  <1>2. d \in Int /\ e \in 0 .. m - 1 /\ n = m * d + e
    BY <1>1, DivMod
  <1> HIDE DEF d, e
  <1> DEFINE k == q - d
  <1>3. k \in Int /\ m * k = e - r
    BY <1>2
  <1>4. -m < m * k /\ m * k < m
    BY <1>2, <1>3
  <1> HIDE DEF k
  <1>5. k = 0
    BY <1>3, <1>4, SmallMultiple
  <1>6. q = d /\ e = r
    BY <1>2, <1>3, <1>5 DEF k
  <1> QED BY <1>6 DEF d, e

LEMMA WholeBelow ==
    ASSUME NEW x \in Int, NEW y \in Int, y % Unit = 0, y <= x, x < y + Unit
    PROVE  (x \div Unit) * Unit = y
  <1> DEFINE q == y \div Unit
             r == x - y
  <1>1. Unit \in Nat \ {0}
    BY UnitAssumption
  <1>2. q \in Int /\ y = Unit * q
    BY <1>1, DivMod
  <1>3. r \in 0 .. Unit - 1 /\ x = Unit * q + r
    BY <1>1, <1>2
  <1> HIDE DEF q, r
  <1>4. x \div Unit = q
    BY <1>1, <1>2, <1>3, QuotientUnique
  <1> QED BY <1>1, <1>2, <1>4

LEMMA FloorOfWhole ==
    ASSUME NEW q \in Int
    PROVE  (q * Unit) \div Unit = q
  <1>1. Unit \in Nat \ {0} /\ 0 \in 0 .. Unit - 1
    BY UnitAssumption
  <1>2. (Unit * q + 0) \div Unit = q
    BY <1>1, QuotientUnique
  <1>3. q * Unit = Unit * q + 0
    BY <1>1
  <1> QED BY <1>2, <1>3

(***************************************************************************)
(* The remainder of a truncated division is the only one of its kind.      *)
(***************************************************************************)
IsRemainder(n, a, b) ==
    /\ Abs(n) < Abs(b)
    /\ (a - n) % Abs(b) = 0
    /\ n = 0 \/ Sign(n) = Sign(a)

LEMMA TruncRemIsRemainder ==
    ASSUME NEW a \in Int, NEW b \in Int, b # 0
    PROVE  TruncRem(a, b) \in -Abs(a) .. Abs(a) /\ IsRemainder(TruncRem(a, b), a, b)
  <1> DEFINE m == Abs(b)
             q == Abs(a) \div m
             r == Abs(a) % m
             n == TruncRem(a, b)
  <1>1. m \in Nat \ {0} /\ Abs(a) \in Nat
    BY DEF Abs
  <1>a. Abs(a) \in Int
    BY <1>1
  <1>2. q \in Int /\ r \in 0 .. m - 1 /\ Abs(a) = m * q + r
    BY ONLY <1>1, <1>a, DivMod DEF q, r
  <1>3. n = Sign(a) * r
    BY DEF TruncRem
  <1> HIDE DEF m, q, r, n
  <1>4. q >= 0
    <2>1. q <= -1 => m * q <= -m
      BY <1>1, <1>2
    <2> QED BY <1>1, <1>2, <2>1
  <1>5. m * q >= 0 /\ r <= Abs(a)
    BY <1>1, <1>2, <1>4
  <1>6. /\ Abs(a) = Sign(a) * a /\ a = Sign(a) * Abs(a)
        /\ Sign(a) \in {-1, 0, 1} /\ (Sign(a) = 0 => a = 0 /\ Abs(a) = 0)
    BY DEF Abs, Sign
  <1>7. n \in Int /\ n \in -Abs(a) .. Abs(a) /\ Abs(n) < m
    BY <1>1, <1>2, <1>3, <1>5, <1>6 DEF Abs
  <1>8. n = 0 \/ Sign(n) = Sign(a)
    BY <1>1, <1>2, <1>3, <1>6 DEF Sign
  <1>9. (a - n) % m = 0
    <2> DEFINE k == Sign(a) * q
    <2>1. k \in Int /\ a - n = m * k + 0
      BY <1>1, <1>2, <1>3, <1>6
    <2> HIDE DEF k
    <2>2. 0 \in 0 .. m - 1
      BY <1>1
    <2> QED BY <1>1, <2>1, <2>2, QuotientUnique
  <1> QED BY <1>7, <1>8, <1>9 DEF IsRemainder, m, n

LEMMA RemainderUnique ==
    ASSUME NEW a \in Int, NEW b \in Int, b # 0,
           NEW n \in Int, IsRemainder(n, a, b), NEW o \in Int, IsRemainder(o, a, b)
    PROVE  n = o
  <1> DEFINE m == Abs(b)
             i == (a - n) \div m
             j == (a - o) \div m
  <1>1. m \in Nat \ {0} /\ a - n \in Int /\ a - o \in Int
    BY DEF Abs
  <1>2. i \in Int /\ a - n = m * i + ((a - n) % m)
    BY <1>1, DivMod
  <1>3. j \in Int /\ a - o = m * j + ((a - o) % m)
    BY <1>1, DivMod
  <1>4. (a - n) % m = 0 /\ (a - o) % m = 0 /\ Abs(n) < m /\ Abs(o) < m
    BY DEF IsRemainder
  <1> HIDE DEF m, i, j
  <1> DEFINE k == j - i
  <1>5. k \in Int /\ n - o = m * k
    BY <1>1, <1>2, <1>3, <1>4
  <1>6. -m < n - o /\ n - o < m
    <2>1. n = 0 \/ o = 0 \/ Sign(n) = Sign(o)
      BY DEF IsRemainder
    <2> QED BY <1>1, <1>4, <2>1 DEF Abs, Sign
  <1> HIDE DEF k
  <1>7. k = 0
    BY <1>1, <1>5, <1>6, SmallMultiple
  <1> QED BY <1>1, <1>5, <1>7

LEMMA RemaindersAgree ==
    ASSUME NEW a, IsDouble(a), NEW b, IsDouble(b)
    PROVE  JavaRem(a, b) = NumberRem(a, b) /\ IsDouble(JavaRem(a, b))
  <1>1. CASE IsFinite(a) /\ IsFinite(b) /\ b.n # 0
    <2> DEFINE n == CHOOSE n \in -Abs(a.n) .. Abs(a.n) : IsRemainder(n, a.n, b.n)
    <2>1. a.n \in Int /\ b.n \in Int
      BY DEF IsDouble
    <2>2. /\ TruncRem(a.n, b.n) \in -Abs(a.n) .. Abs(a.n)
          /\ IsRemainder(TruncRem(a.n, b.n), a.n, b.n)
      BY <1>1, <2>1, TruncRemIsRemainder
    <2>3. n \in -Abs(a.n) .. Abs(a.n) /\ IsRemainder(n, a.n, b.n)
      BY <2>2
    <2>4. JavaRem(a, b) = Finite(n)
      BY <1>1 DEF JavaRem, IsRemainder
    <2> HIDE DEF n
    <2>5. -Abs(a.n) .. Abs(a.n) \subseteq Int
      BY <2>1 DEF Abs
    <2>6. n = TruncRem(a.n, b.n) /\ n \in Int
      BY <1>1, <2>1, <2>2, <2>3, <2>5, RemainderUnique
    <2>7. NumberRem(a, b) = Finite(TruncRem(a.n, b.n))
      BY <1>1 DEF NumberRem, IsFinite, NaN, Finite
    <2> QED BY <2>4, <2>6, <2>7 DEF IsDouble, Finite
  <1>2. CASE IsFinite(a) /\ b.kind = "infinite"
    BY <1>2 DEF JavaRem, NumberRem, IsFinite, NaN, Finite
  <1>3. CASE \/ ~IsFinite(a)
             \/ ~IsFinite(b) /\ b.kind # "infinite"
             \/ IsFinite(b) /\ b.n = 0
    <2>1. JavaRem(a, b) = NaN
      BY <1>3 DEF JavaRem, IsFinite
    <2>2. b = [kind |-> b.kind, n |-> b.n]
      BY DEF IsDouble
    <2>3. NumberRem(a, b) = NaN
      BY <1>3, <2>2 DEF NumberRem, IsFinite, IsDouble, NaN, Finite
    <2>4. IsDouble(NaN)
      BY DEF IsDouble, NaN
    <2> QED BY <2>1, <2>3, <2>4
  <1> QED BY <1>1, <1>2, <1>3

(***************************************************************************)
(* Every number has a nearest square root on the grid.                     *)
(***************************************************************************)
RootOf(r, m) ==
    /\ (2 * r - 1) * (2 * r - 1) <= 4 * m
    /\ 4 * m < (2 * r + 1) * (2 * r + 1)

LEMMA RootExists ==
    ASSUME NEW m \in Nat \ {0}
    PROVE  \E r \in 1 .. m : RootOf(r, m)
  <1> DEFINE S == {k \in Nat : \E r \in 1 .. k + 1 : RootOf(r, k + 1)}
  <1>1. 0 \in S
    <2>1. RootOf(1, 1)
      BY DEF RootOf
    <2> QED BY <2>1
  <1>2. ASSUME NEW k \in Nat, k \in S PROVE k + 1 \in S
    <2>1. PICK r \in 1 .. k + 1 : RootOf(r, k + 1)
      BY <1>2
    <2> SUFFICES \E s \in 1 .. k + 2 : RootOf(s, k + 2)
      OBVIOUS
    <2> DEFINE v == (2 * r + 1) * (2 * r + 1)
    <2>2. /\ v \in Nat /\ 4 * (k + 1) < v /\ r \in Nat
          /\ (2 * r - 1) * (2 * r - 1) <= 4 * (k + 1)
      BY <2>1 DEF RootOf
    <2>3. CASE 4 * (k + 2) < v
      <3>1. (2 * r - 1) * (2 * r - 1) <= 4 * (k + 2)
        <4> DEFINE u == (2 * r - 1) * (2 * r - 1)
        <4>1. u \in Int /\ u <= 4 * (k + 1)
          BY <2>2
        <4> HIDE DEF u
        <4>2. u <= 4 * (k + 2)
          BY <4>1
        <4> QED BY <4>2 DEF u
      <3>2. RootOf(r, k + 2) /\ r \in 1 .. k + 2
        BY <2>3, <3>1 DEF RootOf
      <3> QED BY <3>2
    <2>4. CASE v <= 4 * (k + 2)
      <3> DEFINE s == r + 1
      <3>1. (2 * s - 1) * (2 * s - 1) = v
        BY <2>2
      <3>2. (2 * s + 1) * (2 * s + 1) = v + 8 * r + 8
        BY <2>2
      <3>3. 4 * (k + 2) < v + 8 * r + 8
        BY <2>2
      <3>4. RootOf(s, k + 2) /\ s \in 1 .. k + 2
        <4> HIDE DEF v
        <4> QED BY <2>4, <3>1, <3>2, <3>3 DEF RootOf
      <3> QED BY <3>4
    <2> QED BY <2>2, <2>3, <2>4
  <1> HIDE DEF S
  <1>3. m - 1 \in S
    BY <1>1, <1>2, SetInduction
  <1> QED BY <1>3 DEF S

LEMMA NearestRootType == ASSUME NEW n \in Nat PROVE NearestRoot(n) \in Int
  <1>1. CASE n = 0
    BY <1>1 DEF NearestRoot
  <1>2. CASE n # 0
    <2> DEFINE m == n * Unit
    <2>1. m \in Nat \ {0}
      BY <1>2, UnitAssumption
    <2>2. 4 * n * Unit = 4 * m
      BY UnitAssumption
    <2>3. NearestRoot(n) = CHOOSE r \in 1 .. m : RootOf(r, m)
      BY <1>2, <2>2 DEF NearestRoot, RootOf
    <2> HIDE DEF m
    <2>4. NearestRoot(n) \in 1 .. m
      BY <2>1, <2>3, RootExists
    <2> QED BY <2>1, <2>4
  <1> QED BY <1>1, <1>2

(***************************************************************************)
(* What java.lang.Math says of a result determines the one that JavaScript *)
(* and the library of the WebAssembly modules return.                      *)
(***************************************************************************)
LEMMA MathAgrees ==
    ASSUME NEW x, IsDouble(x), NEW name \in DoubleMethods, NEW a \in JavaMath(name, x)
    PROVE  /\ IsDouble(a)
           /\ name \notin {"sin", "cos"} =>
                 /\ JSImport(name, x) = {a}
                 /\ runtime_math(name, 0, x) = {a}
  <1>1. Unit \in Nat \ {0} /\ Unit \div 2 \in Nat /\ 2 * (Unit \div 2) = Unit
    <2>1. 2 \in Nat \ {0} /\ Unit \in Int
      BY UnitAssumption
    <2>2. Unit \div 2 \in Int /\ Unit = 2 * (Unit \div 2) + (Unit % 2)
      BY <2>1, DivMod
    <2> QED BY <2>2, UnitAssumption
  <1>2. x.n \in Int /\ x = [kind |-> x.kind, n |-> x.n]
    BY DEF IsDouble
  <1>3. CASE ~IsFinite(x)
    <2>1. a = IF name \in {"sin", "cos"} \/ (name = "sqrt" /\ x.n < 0) THEN NaN ELSE x
      BY <1>3 DEF JavaMath
    <2>2. IsDouble(a)
      BY <2>1 DEF IsDouble, NaN
    <2>3. /\ MathFloor(x) = x /\ MathCeil(x) = x
          /\ MathSqrt(x) = IF x.n < 0 THEN NaN ELSE x
      BY <1>3 DEF MathFloor, MathCeil, MathSqrt, OnFinite
    <2> QED BY <2>1, <2>2, <2>3
        DEF DoubleMethods, MathNames, JSImport, runtime_math, floor, ceil, sqrt
  <1>4. CASE IsFinite(x) /\ name = "floor"
    <2>1. PICK i \in 0 .. Unit - 1 : a = Finite(x.n - i) /\ (x.n - i) % Unit = 0
      BY <1>4 DEF JavaMath, Whole, Finite
    <2>2. (x.n \div Unit) * Unit = x.n - i
      <3> DEFINE y == x.n - i
      <3>1. y \in Int /\ y % Unit = 0 /\ y <= x.n /\ x.n < y + Unit
        BY <1>1, <1>2, <2>1
      <3> HIDE DEF y
      <3>2. (x.n \div Unit) * Unit = y
        BY <1>2, <3>1, WholeBelow
      <3> QED BY <3>2 DEF y
    <2>3. MathFloor(x) = a
      BY <1>4, <2>1, <2>2 DEF MathFloor, OnFinite
    <2> QED BY <1>1, <1>2, <1>4, <2>1, <2>3 DEF JSImport, runtime_math, floor, IsDouble, Finite
  <1>5. CASE IsFinite(x) /\ name = "ceil"
    <2>1. PICK i \in 0 .. Unit - 1 : a = Finite(x.n + i) /\ (x.n + i) % Unit = 0
      BY <1>5 DEF JavaMath, Whole, Finite
    <2>2. (-(x.n + i)) % Unit = 0
      <3> DEFINE y == x.n + i
                 q == y \div Unit
      <3>a. y \in Int /\ y % Unit = 0
        BY <1>1, <1>2, <2>1
      <3> HIDE DEF y
      <3>1. y \in Int /\ y % Unit = 0 /\ q \in Int /\ y = Unit * q + (y % Unit)
        BY <1>1, <3>a, DivMod
      <3> HIDE DEF q
      <3>2. -y = Unit * (-q) + 0 /\ -q \in Int /\ 0 \in 0 .. Unit - 1
        BY <1>1, <3>1
      <3>3. (Unit * (-q) + 0) % Unit = 0
        BY <1>1, <3>2, QuotientUnique
      <3> QED BY <3>2, <3>3 DEF y
    <2>3. ((-x.n) \div Unit) * Unit = -(x.n + i)
      <3> DEFINE y == -(x.n + i)
                 z == -x.n
      <3>1. z \in Int /\ y \in Int /\ y % Unit = 0 /\ y <= z /\ z < y + Unit
        BY <1>1, <1>2, <2>1, <2>2
      <3> HIDE DEF y, z
      <3>2. (z \div Unit) * Unit = y
        BY <3>1, WholeBelow
      <3> QED BY <3>2 DEF y, z
    <2>4. -((-x.n) \div Unit) * Unit = x.n + i
      <3>1. (-x.n) \div Unit \in Int
        BY <1>1, <1>2
      <3> QED BY <1>1, <1>2, <2>3, <3>1
    <2>5. MathCeil(x) = a
      BY <1>5, <2>1, <2>4 DEF MathCeil, OnFinite
    <2> QED BY <1>1, <1>2, <1>5, <2>1, <2>5 DEF JSImport, runtime_math, ceil, IsDouble, Finite
  <1>7. CASE IsFinite(x) /\ name = "sqrt"
    <2>1. a = MathSqrt(x)
      BY <1>7 DEF JavaMath
    <2>2. IsDouble(MathSqrt(x))
      BY <1>2, <1>7, NearestRootType DEF MathSqrt, OnFinite, IsDouble, NaN, Finite
    <2> QED BY <1>7, <2>1, <2>2 DEF JSImport, runtime_math, sqrt
  <1>8. CASE IsFinite(x) /\ name \in {"sin", "cos"}
    <2>1. a \in {Finite(n) : n \in -Unit .. Unit}
      BY <1>8 DEF JavaMath, MathWaves
    <2> QED BY <1>1, <1>8, <2>1 DEF IsDouble, Finite
  <1> QED BY <1>3, <1>4, <1>5, <1>7, <1>8 DEF DoubleMethods, MathNames

(***************************************************************************)
(* The nearest integer, the upper of two, is Math.floor of the number and  *)
(* one half: there is one and only one such integer.                       *)
(***************************************************************************)
LEMMA NearestIsFloor ==
    ASSUME NEW n \in Int
    PROVE  Nearest(n) \in Int /\ Nearest(n) = (n + Unit \div 2) \div Unit
  <1> DEFINE h == Unit \div 2
             q == (n + h) \div Unit
             r == (n + h) % Unit
             P(k) == 2 * (n - k * Unit) \in -Unit .. Unit - 1
  <1>1. Unit \in Nat \ {0, 1} /\ h \in Nat /\ 2 * h = Unit
    <2>1. 2 \in Nat \ {0} /\ Unit \in Int
      BY UnitAssumption
    <2>2. Unit \div 2 \in Int /\ Unit = 2 * (Unit \div 2) + (Unit % 2)
      BY <2>1, DivMod
    <2> QED BY <2>2, UnitAssumption
  <1>2. q \in Int /\ r \in 0 .. Unit - 1 /\ n + h = Unit * q + r
    <2>1. n + h \in Int /\ Unit \in Nat \ {0}
      BY <1>1
    <2> QED BY <2>1, DivMod
  <1> HIDE DEF h, q, r
  <1>3. P(q)
    <2>1. q * Unit = Unit * q
      BY <1>1, <1>2
    <2>2. 2 * (n - q * Unit) = 2 * r - Unit
      BY <1>1, <1>2, <2>1
    <2> QED BY <1>1, <1>2, <2>2
  <1>4. q \in -Abs(n) .. Abs(n)
    <2>1. CASE n >= 0
      <3>1. q <= -1 => Unit * q <= -Unit
        BY <1>1, <1>2
      <3>2. q >= n + 1 => Unit * q >= Unit * (n + 1)
        BY <1>1, <1>2
      <3>3. Unit * (n + 1) >= n + Unit
        BY <1>1, <2>1
      <3>4. q >= 0 /\ q <= n
        BY <1>1, <1>2, <2>1, <3>1, <3>2, <3>3
      <3> QED BY <1>2, <2>1, <3>4 DEF Abs
    <2>2. CASE n < 0
      <3>1. q >= 1 => Unit * q >= Unit
        BY <1>1, <1>2
      <3>2. q <= n - 1 => Unit * q <= Unit * (n - 1)
        BY <1>1, <1>2
      <3>3. Unit * (n - 1) <= n - Unit
        BY <1>1, <2>2
      <3>4. q <= 0 /\ q >= n
        BY <1>1, <1>2, <2>2, <3>1, <3>2, <3>3
      <3> QED BY <1>2, <2>2, <3>4 DEF Abs
    <2> QED BY <2>1, <2>2
  <1> DEFINE k == Nearest(n)
  <1>5. k \in -Abs(n) .. Abs(n) /\ P(k)
    BY <1>3, <1>4 DEF Nearest
  <1>6. k \in Int
    BY <1>5 DEF Abs
  <1> HIDE DEF k
  <1>7. k = q
    <2> DEFINE d == q - k
    <2>1. d \in Int
      BY <1>2, <1>6
    <2>2. Unit * d = q * Unit - k * Unit
      BY <1>1, <1>2, <1>6
    <2>3. q * Unit \in Int /\ k * Unit \in Int
      BY <1>1, <1>2, <1>6
    <2> HIDE DEF d
    <2>4. -Unit < Unit * d /\ Unit * d < Unit
      BY <1>1, <1>3, <1>5, <2>2, <2>3
    <2>5. d = 0
      BY <1>1, <2>1, <2>4, SmallMultiple
    <2> QED BY <1>2, <1>6, <2>5 DEF d
  <1> QED BY <1>2, <1>7 DEF k, q, h

LEMMA TruncOfWhole ==
    ASSUME NEW q \in Int
    PROVE  Truncated(Finite(Unit * q)) = q
  <1>1. Unit \in Nat \ {0} /\ 0 \in 0 .. Unit - 1 /\ Sign(Unit) = 1 /\ Abs(Unit) = Unit
    BY UnitAssumption DEF Sign, Abs
  <1>2. Abs(q) \in Nat /\ (Unit * Abs(q)) \div Unit = Abs(q)
    <2>1. Abs(q) \in Int /\ Abs(q) \in Nat /\ Unit * Abs(q) + 0 = Unit * Abs(q)
      BY <1>1 DEF Abs
    <2> QED BY <1>1, <2>1, QuotientUnique
  <1>3. Abs(Unit * q) = Unit * Abs(q) /\ Sign(Unit * q) = Sign(q)
    <2>1. /\ q > 0 => Unit * q > 0
          /\ q < 0 => Unit * q < 0
          /\ q = 0 => Unit * q = 0
          /\ Unit * (-q) = -(Unit * q)
      BY <1>1
    <2> QED BY <1>1, <2>1 DEF Abs, Sign
  <1>4. Truncated(Finite(Unit * q)) = Sign(q) * 1 * Abs(q)
    BY <1>1, <1>2, <1>3 DEF Truncated, TruncDiv, Finite
  <1>5. Sign(q) * 1 * Abs(q) = q
    BY DEF Sign, Abs
  <1> QED BY <1>4, <1>5

-----------------------------------------------------------------------------
(***************************************************************************)
(* Safe programs: as long as no Java value leaves what the number formats  *)
(* share, the machines stay in the same state.                             *)
(***************************************************************************)
Agree ==
    /\ js = java /\ wasm = java
    /\ double["js"] = double["java"] /\ double["wasm"] = double["java"]
    /\ \A m \in Machine : ended[m] = "no"

SafeInv == IsDouble(double["java"]) /\ (safe => Agree)

LEMMA IntsAreIntegers == \A n \in Int32 : n \in Int /\ Abs(n) <= Half
  BY WidthAssumption DEF Int32, Abs

LEMMA SameWrite ==
    ASSUME Agree, NEW r \in Regs, NEW x, java' = [java EXCEPT ![r] = x],
           js' = [js EXCEPT ![r] = x], wasm' = [wasm EXCEPT ![r] = x],
           UNCHANGED <<double, ended>>
    PROVE  Agree'
  BY DEF Agree

LEMMA RingAgrees ==
    ASSUME IntsTyped, Agree, NEW op \in RingOps, NEW r \in Regs, NEW s \in Regs,
           RingStep(op, r, s), safe'
    PROVE  Agree'
  <1> DEFINE exact == Ring(op, java[r], java[s])
  <1>1. exact \in Int32
    BY DEF RingStep
  <1>2. Wrap(exact) = exact
    BY <1>1, WrapInt
  <1>3. ToDouble(exact) = exact
    <2>1. exact \in Int /\ Abs(exact) <= Half
      BY ONLY <1>1, IntsAreIntegers
    <2> HIDE DEF exact
    <2>2. Abs(exact) \in Int
      BY <2>1 DEF Abs
    <2>3. Abs(exact) <= DoubleExact
      BY ONLY <2>1, <2>2, WidthAssumption
    <2> QED BY <2>3 DEF ToDouble, RoundInt
  <1>4. /\ java' = [java EXCEPT ![r] = Wrap(exact)]
        /\ js' = [js EXCEPT ![r] = ToDouble(exact)]
        /\ wasm' = [wasm EXCEPT ![r] = Wrap(exact)]
        /\ UNCHANGED <<double, ended>>
    BY DEF RingStep, Agree
  <1> HIDE DEF exact
  <1> QED BY <1>2, <1>3, <1>4, SameWrite

LEMMA NegateAgrees ==
    ASSUME IntsTyped, Agree, NEW r \in Regs, Negate(r), safe'
    PROVE  Agree'
  <1>1. java[r] \in Int32 /\ java[r] # -Half
    BY DEF Negate, IntsTyped
  <1>2. java[r] \in Int /\ -java[r] \in Int32 /\ -1 * java[r] = -java[r]
    BY <1>1, WidthAssumption DEF Int32
  <1>3. Wrap(-java[r]) = -java[r]
    BY <1>2, WrapInt
  <1>4. /\ java' = [java EXCEPT ![r] = Wrap(-java[r])]
        /\ js' = [js EXCEPT ![r] = -java[r]]
        /\ wasm' = [wasm EXCEPT ![r] = Wrap(-1 * java[r])]
        /\ UNCHANGED <<double, ended>>
    BY DEF Negate, Agree
  <1> QED BY <1>2, <1>3, <1>4, SameWrite

LEMMA BitAgrees ==
    ASSUME IntsTyped, Agree, NEW op \in BitOps, NEW r \in Regs, NEW s \in Regs,
           BitStep(op, r, s)
    PROVE  Agree'
  <1>1. Wrap(java[r]) = java[r] /\ Wrap(java[s]) = java[s]
    BY WrapInt DEF IntsTyped
  <1>2. /\ java' = [java EXCEPT ![r] = BitFn[op][java[r]][java[s]]]
        /\ js' = [js EXCEPT ![r] = BitFn[op][java[r]][java[s]]]
        /\ wasm' = [wasm EXCEPT ![r] = BitFn[op][java[r]][java[s]]]
        /\ UNCHANGED <<double, ended>>
    BY <1>1 DEF BitStep, Agree
  <1> QED BY <1>2, SameWrite

LEMMA UnsignedShiftAgrees ==
    ASSUME IntsTyped, Agree, NEW r \in Regs, NEW s \in Regs, UnsignedShift(r, s), safe'
    PROVE  Agree'
  <1> DEFINE u == UshrFn[java[r]][java[s]]
  <1>1. Wrap(java[r]) = java[r] /\ Wrap(java[s]) = java[s]
    BY WrapInt DEF IntsTyped
  <1>2. u \in 0 .. 2 * Half - 1 /\ u < Half
    BY BitAssumption DEF UnsignedShift, IntsTyped
  <1>3. Wrap(u) = u
    BY <1>2, WrapInt, WidthAssumption DEF Int32
  <1>4. /\ java' = [java EXCEPT ![r] = Wrap(u)] /\ js' = [js EXCEPT ![r] = u]
        /\ wasm' = [wasm EXCEPT ![r] = Wrap(u)] /\ UNCHANGED <<double, ended>>
    BY <1>1 DEF UnsignedShift, Agree
  <1> HIDE DEF u
  <1> QED BY <1>3, <1>4, SameWrite

LEMMA DivideAgrees ==
    ASSUME IntsTyped, Agree, NEW r \in Regs, NEW s \in Regs, Divide(r, s), safe'
    PROVE  Agree'
  <1> DEFINE a == java[r]
             b == java[s]
             q == TruncDiv(a, b)
  <1>1. /\ b # 0 /\ Abs(a) <= FloatExact /\ Abs(b) <= FloatExact
        /\ FloorDiv(a, b) = q /\ q \in Int32
    BY DEF Divide, SafeDivision
  <1>2. Abs(a) <= DoubleExact
    <2>1. a \in Int32
      BY DEF IntsTyped
    <2>2. Abs(a) \in Int
      BY <2>1, IntsAreIntegers DEF Abs
    <2> QED BY <1>1, <2>2, WidthAssumption
  <1>3. ToFloat(a) = a /\ ToFloat(b) = b
    BY <1>1 DEF ToFloat, RoundInt
  <1>4. JSQuotient(a, b) = q /\ WasmQuotient(a, b) = q
    BY <1>1, <1>2, <1>3 DEF JSQuotient, WasmQuotient, FloorOfQuotient
  <1>5. WasmDivides(a, b)
    BY <1>1, <1>3, <1>4 DEF WasmDivides
  <1>6. Wrap(q) = q
    BY <1>1, WrapInt
  <1>7. js[r] = a /\ js[s] = b /\ wasm[r] = a /\ wasm[s] = b
    BY DEF Agree
  <1>8. /\ java[s] # 0 /\ js[s] # 0 /\ WasmDivides(wasm[r], wasm[s])
    BY <1>1, <1>5, <1>7
  <1>9. /\ ended'["java"] = (IF java[s] = 0 THEN "throws" ELSE "no")
        /\ ended'["js"] = (IF js[s] = 0 THEN "no int" ELSE "no")
        /\ ended'["wasm"] = (IF WasmDivides(wasm[r], wasm[s]) THEN "no" ELSE "traps")
    BY DEF Divide, Machine
  <1>10. ended'["java"] = "no" /\ ended'["js"] = "no" /\ ended'["wasm"] = "no"
    BY <1>8, <1>9
  <1>11. /\ java' = [java EXCEPT ![r] = Wrap(q)]
         /\ js' = [js EXCEPT ![r] = JSQuotient(js[r], js[s])]
         /\ wasm' = [wasm EXCEPT ![r] = WasmQuotient(wasm[r], wasm[s])]
         /\ double' = double
    BY <1>10 DEF Divide
  <1> HIDE DEF a, b, q
  <1>12. /\ java' = [java EXCEPT ![r] = q]
         /\ js' = [java EXCEPT ![r] = q]
         /\ wasm' = [java EXCEPT ![r] = q]
    BY <1>4, <1>6, <1>7, <1>11 DEF Agree
  <1> QED BY <1>10, <1>11, <1>12 DEF Agree, Machine

LEMMA RemainderAgrees ==
    ASSUME Agree, NEW r \in Regs, NEW s \in Regs, Remainder(r, s), safe'
    PROVE  Agree'
  <1>1. java[s] # 0
    BY DEF Remainder
  <1>2. \A m \in Machine : ended'[m] = "no"
    BY <1>1 DEF Remainder, Agree, Machine
  <1>3. java' = js' /\ wasm' = java' /\ double' = double
    BY <1>1 DEF Remainder, Agree
  <1> QED BY <1>2, <1>3 DEF Agree

LEMMA CompareAgrees ==
    ASSUME Agree, NEW r \in Regs, NEW s \in Regs, Compare(r, s)
    PROVE  Agree'
  BY DEF Compare, Agree

LEMMA NarrowAgrees ==
    ASSUME IntsTyped, Agree, NEW r \in Regs, Narrow(r), safe'
    PROVE  Agree'
  BY DEF Narrow, Agree, IntsTyped

LEMMA IntToDoubleAgrees ==
    ASSUME IntsTyped, SafeInv, NEW r \in Regs, IntToDouble(r)
    PROVE  SafeInv'
  <1>1. java[r] \in Int /\ Unit \in Int
    BY IntsAreIntegers, UnitAssumption DEF IntsTyped
  <1>2. double' = [m \in Machine |->
                     Finite(Unit * CASE m = "java" -> java[r]
                                     [] m = "js" -> js[r]
                                     [] m = "wasm" -> ToFloat(wasm[r]))]
    BY DEF IntToDouble
  <1>3. double'["java"] = Finite(Unit * java[r])
    BY <1>2 DEF Machine
  <1>4. IsDouble(double'["java"])
    BY <1>1, <1>3 DEF IsDouble, Finite
  <1>5. ASSUME safe' PROVE Agree'
    <2>1. Agree /\ Abs(java[r]) <= FloatExact /\ UNCHANGED <<java, js, wasm, ended>>
      BY <1>5 DEF IntToDouble, SafeInv
    <2>2. ToFloat(wasm[r]) = java[r] /\ js[r] = java[r]
      BY <2>1 DEF ToFloat, RoundInt, Agree
    <2>3. /\ double'["js"] = Finite(Unit * js[r])
          /\ double'["wasm"] = Finite(Unit * ToFloat(wasm[r]))
      BY <1>2 DEF Machine
    <2> QED BY <1>3, <2>1, <2>2, <2>3 DEF Agree
  <1> QED BY <1>4, <1>5 DEF SafeInv

LEMMA DoubleToIntAgrees ==
    ASSUME SafeInv, NEW r \in Regs, DoubleToInt(r)
    PROVE  SafeInv'
  <1> DEFINE d == double["java"]
             q == Truncated(d)
  <1>1. d.n \in Int /\ d' = d
    BY DEF SafeInv, IsDouble, DoubleToInt
  <1>2. ASSUME safe' PROVE Agree'
    <2>1. /\ Agree /\ IsFinite(d) /\ FloorDiv(d.n, Unit) = q /\ q \in Int32
          /\ double["js"] = d /\ double["wasm"] = d
      BY <1>2 DEF DoubleToInt, SafeInv, Agree
    <2>2. MathFloor(d) = Finite((d.n \div Unit) * Unit)
      BY <2>1 DEF MathFloor, OnFinite
    <2>3. d.n \div Unit = q /\ q \in Int
      BY <1>1, <2>1, UnitAssumption, IntsAreIntegers DEF FloorDiv
    <2>4. IsFinite(MathFloor(d)) /\ MathFloor(d).n \div Unit = q
      <3> HIDE DEF d, q
      <3>1. MathFloor(d) = Finite(q * Unit)
        BY <2>2, <2>3
      <3>2. (q * Unit) \div Unit = q
        BY <2>3, FloorOfWhole
      <3> QED BY <3>1, <3>2 DEF IsFinite, Finite
    <2>5. JavaInt(d) = q
      BY <2>1 DEF JavaInt, IsFinite, NaN
    <2> HIDE DEF d, q
    <2>6. /\ IsFinite(MathFloor(double["js"]))
          /\ IsFinite(double["wasm"]) /\ Truncated(double["wasm"]) \in Int32
      BY <2>1, <2>4 DEF q
    <2>7. /\ ended'["java"] = "no"
          /\ ended'["js"] = (IF IsFinite(MathFloor(double["js"])) THEN "no" ELSE "no int")
          /\ ended'["wasm"] = (IF /\ IsFinite(double["wasm"])
                                  /\ Truncated(double["wasm"]) \in Int32
                               THEN "no" ELSE "traps")
      BY DEF DoubleToInt, Machine
    <2>8. ended'["java"] = "no" /\ ended'["js"] = "no" /\ ended'["wasm"] = "no"
      BY <2>6, <2>7
    <2>9. /\ java' = [java EXCEPT ![r] = JavaInt(double["java"])]
          /\ js' = [js EXCEPT ![r] = MathFloor(double["js"]).n \div Unit]
          /\ wasm' = [wasm EXCEPT ![r] = Truncated(double["wasm"])]
          /\ double' = double
      BY <2>8 DEF DoubleToInt
    <2>10. /\ java' = [java EXCEPT ![r] = q]
           /\ js' = [java EXCEPT ![r] = q]
           /\ wasm' = [java EXCEPT ![r] = q]
      BY <2>1, <2>4, <2>5, <2>9 DEF Agree, d, q
    <2> QED BY <2>1, <2>8, <2>9, <2>10 DEF Agree, Machine
  <1>3. IsDouble(double["java"])'
    BY <1>1 DEF SafeInv
  <1> QED BY <1>2, <1>3 DEF SafeInv

LEMMA RoundToIntAgrees ==
    ASSUME SafeInv, NEW r \in Regs, RoundToInt(r)
    PROVE  SafeInv'
  <1> DEFINE d == double["java"]
             k == Nearest(d.n)
             w == Finite(Unit * k)
  <1>1. d.n \in Int /\ d' = d
    BY DEF SafeInv, IsDouble, RoundToInt
  <1>2. ASSUME safe' PROVE Agree'
    <2>1. /\ Agree /\ IsFinite(d) /\ AsFloat(d) = d /\ k \in Int32
          /\ double["js"] = d /\ double["wasm"] = d
      BY <1>2 DEF RoundToInt, SafeInv, Agree
    <2>2. k \in Int /\ (d.n + Unit \div 2) \div Unit = k /\ k * Unit = Unit * k
      <3>1. k \in Int /\ (d.n + Unit \div 2) \div Unit = k
        BY <1>1, NearestIsFloor
      <3> HIDE DEF k
      <3> QED BY <3>1, UnitAssumption
    <2>3. MathRound(d) = w
      BY <2>1, <2>2 DEF MathRound, MathFloor, OnFinite, IsFinite, Finite
    <2>4. IsFinite(w) /\ Truncated(w) = k /\ w # NaN
      BY <2>2, TruncOfWhole DEF IsFinite, Finite, NaN
    <2>5. JavaRound(d) = k
      <3>1. JavaRound(d) = JavaInt(w)
        BY <2>1 DEF JavaRound, OnFinite
      <3> HIDE DEF k, w
      <3> QED BY <2>1, <2>4, <3>1 DEF JavaInt
    <2>6. ToInt32(w) = k
      <3>1. Wrap(k) = k
        BY <2>1, WrapInt
      <3> HIDE DEF k, w
      <3> QED BY <2>4, <3>1 DEF ToInt32
    <2> HIDE DEF d, k, w
    <2>7. /\ MathRound(double["js"]) = w /\ MathRound(double["wasm"]) = w
          /\ AsFloat(double["java"]) = d
      BY <2>1, <2>3 DEF d
    <2>8. /\ ended' = [ended EXCEPT !["js"] = "no"] /\ double' = double
          /\ java' = [java EXCEPT ![r] = k]
          /\ js' = [js EXCEPT ![r] = k]
          /\ wasm' = [wasm EXCEPT ![r] = k]
      BY <2>4, <2>5, <2>6, <2>7 DEF RoundToInt, round
    <2>9. \A m \in Machine : ended'[m] = "no"
      BY <2>1, <2>8 DEF Agree
    <2> QED BY <2>1, <2>8, <2>9 DEF Agree
  <1>3. IsDouble(double["java"])'
    BY <1>1 DEF SafeInv
  <1> QED BY <1>2, <1>3 DEF SafeInv

LEMMA DoubleRemainderAgrees ==
    ASSUME SafeInv, NEW x, IsDouble(x), DoubleRemainder(x)
    PROVE  SafeInv'
  <1>1. PICK w \in float_rem(double["wasm"], x) :
           double' = [java |-> JavaRem(double["java"], x),
                      js |-> NumberRem(double["js"], x), wasm |-> w]
    BY DEF DoubleRemainder
  <1>2. /\ JavaRem(double["java"], x) = NumberRem(double["java"], x)
        /\ IsDouble(JavaRem(double["java"], x))
    BY RemaindersAgree DEF SafeInv
  <1>3. /\ double'["java"] = NumberRem(double["java"], x)
        /\ double'["js"] = NumberRem(double["js"], x)
        /\ double'["wasm"] = NumberRem(double["wasm"], x)
    BY <1>1, <1>2 DEF float_rem
  <1>4. UNCHANGED <<java, js, wasm, ended, safe>>
    BY DEF DoubleRemainder
  <1> QED BY <1>2, <1>3, <1>4 DEF SafeInv, Agree

LEMMA DoubleCompareAgrees ==
    ASSUME SafeInv, NEW r \in Regs, NEW x, NEW unordered \in {-1, 1},
           DoubleCompare(r, x, unordered)
    PROVE  SafeInv'
  <1>1. UNCHANGED <<double, ended>>
    BY DEF DoubleCompare
  <1>2. ASSUME safe' PROVE Agree'
    <2>1. Agree /\ double["java"] # NaN /\ x # NaN
      BY <1>2 DEF DoubleCompare, SafeInv
    <2>2. /\ DoubleSign(double["java"], x, unordered) = DoubleSign(double["java"], x, 0)
          /\ DoubleSign(double["java"], x, -1) = DoubleSign(double["java"], x, 0)
      BY <2>1 DEF DoubleSign
    <2>3. /\ java' = [java EXCEPT ![r] = DoubleSign(double["java"], x, unordered)]
          /\ js' = [js EXCEPT ![r] = DoubleSign(double["java"], x, 0)]
          /\ wasm' = [wasm EXCEPT ![r] = DoubleSign(double["java"], x, -1)]
      BY <2>1 DEF DoubleCompare, Agree
    <2> QED BY <1>1, <2>1, <2>2, <2>3, SameWrite
  <1> QED BY <1>1, <1>2 DEF SafeInv

LEMMA MathCallAgrees ==
    ASSUME SafeInv, NEW name \in DoubleMethods, MathCall(name)
    PROVE  SafeInv'
  <1>1. PICK a \in JavaMath(name, double["java"]), b \in JSImport(name, double["js"]),
             c \in runtime_math(name, 0, double["wasm"]) :
                /\ double' = [java |-> a, js |-> b, wasm |-> c]
                /\ safe' = (safe /\ (name \in {"sin", "cos"} => a = b /\ b = c))
    BY DEF MathCall
  <1>2. /\ IsDouble(a)
        /\ name \notin {"sin", "cos"} =>
              /\ JSImport(name, double["java"]) = {a}
              /\ runtime_math(name, 0, double["java"]) = {a}
    BY <1>1, MathAgrees DEF SafeInv
  <1>3. double'["java"] = a /\ double'["js"] = b /\ double'["wasm"] = c
    BY <1>1
  <1>4. UNCHANGED <<java, js, wasm, ended>>
    BY DEF MathCall
  <1>5. ASSUME safe' PROVE Agree'
    <2>1. Agree /\ (name \in {"sin", "cos"} => a = b /\ b = c)
      BY <1>1, <1>5 DEF SafeInv
    <2>2. b \in JSImport(name, double["java"]) /\ c \in runtime_math(name, 0, double["java"])
      BY <2>1 DEF Agree
    <2>3. a = b /\ b = c
      BY <1>2, <2>1, <2>2
    <2> QED BY <1>3, <1>4, <2>1, <2>3 DEF Agree
  <1> QED BY <1>2, <1>3, <1>5 DEF SafeInv

LEMMA InitSafeInv == Init => SafeInv
  <1> SUFFICES ASSUME Init PROVE SafeInv
    OBVIOUS
  <1>1. PICK x \in DoubleArgs : double = [m \in Machine |-> x]
    BY DEF Init
  <1>2. double["java"] = x /\ double["js"] = x /\ double["wasm"] = x
    BY <1>1 DEF Machine
  <1>3. IsDouble(double["java"])
    BY <1>2, ArgsAssumption
  <1>4. Agree
    BY <1>2 DEF Init, Agree
  <1> QED BY <1>3, <1>4 DEF SafeInv

(***************************************************************************)
(* An int instruction leaves the doubles alone.                            *)
(***************************************************************************)
LEMMA NextSafeInv == IntsTyped /\ SafeInv /\ [Next]_vars => SafeInv'
  <1> SUFFICES ASSUME IntsTyped, SafeInv, [Next]_vars PROVE SafeInv'
    OBVIOUS
  <1>1. ASSUME double' = double, safe' => safe /\ Agree' PROVE SafeInv'
    BY <1>1 DEF SafeInv
  <1>2. ASSUME NEW r \in Regs, NEW s \in Regs, NEW op \in RingOps, RingStep(op, r, s)
        PROVE  SafeInv'
    <2>1. double' = double /\ (safe' => safe)
      BY <1>2 DEF RingStep
    <2> QED BY <1>1, <1>2, <2>1, RingAgrees DEF SafeInv
  <1>3. ASSUME NEW r \in Regs, NEW s \in Regs, NEW op \in BitOps, BitStep(op, r, s)
        PROVE  SafeInv'
    <2>1. double' = double /\ (safe' => safe)
      BY <1>3 DEF BitStep
    <2> QED BY <1>1, <1>3, <2>1, BitAgrees DEF SafeInv
  <1>4. ASSUME NEW r \in Regs, NEW s \in Regs, UnsignedShift(r, s) PROVE SafeInv'
    <2>1. double' = double /\ (safe' => safe)
      BY <1>4 DEF UnsignedShift
    <2> QED BY <1>1, <1>4, <2>1, UnsignedShiftAgrees DEF SafeInv
  <1>5. ASSUME NEW r \in Regs, NEW s \in Regs, Divide(r, s) PROVE SafeInv'
    <2>1. double' = double /\ (safe' => safe)
      BY <1>5 DEF Divide
    <2> QED BY <1>1, <1>5, <2>1, DivideAgrees DEF SafeInv
  <1>6. ASSUME NEW r \in Regs, NEW s \in Regs, Remainder(r, s) PROVE SafeInv'
    <2>1. double' = double /\ (safe' => safe)
      BY <1>6 DEF Remainder
    <2> QED BY <1>1, <1>6, <2>1, RemainderAgrees DEF SafeInv
  <1>7. ASSUME NEW r \in Regs, NEW s \in Regs, Compare(r, s) PROVE SafeInv'
    <2>1. double' = double /\ (safe' => safe)
      BY <1>7 DEF Compare
    <2> QED BY <1>1, <1>7, <2>1, CompareAgrees DEF SafeInv
  <1>8. ASSUME NEW r \in Regs, Negate(r) PROVE SafeInv'
    <2>1. double' = double /\ (safe' => safe)
      BY <1>8 DEF Negate
    <2> QED BY <1>1, <1>8, <2>1, NegateAgrees DEF SafeInv
  <1>9. ASSUME NEW r \in Regs, Narrow(r) PROVE SafeInv'
    <2>1. double' = double /\ (safe' => safe)
      BY <1>9 DEF Narrow
    <2> QED BY <1>1, <1>9, <2>1, NarrowAgrees DEF SafeInv
  <1>10. ASSUME NEW x \in DoubleArgs, DoubleRemainder(x) PROVE SafeInv'
    BY <1>10, ArgsAssumption, DoubleRemainderAgrees
  <1>11. CASE UNCHANGED vars
    BY <1>11 DEF vars, SafeInv, Agree
  <1> QED
    BY <1>2, <1>3, <1>4, <1>5, <1>6, <1>7, <1>8, <1>9, <1>10, <1>11,
       IntToDoubleAgrees, DoubleToIntAgrees, RoundToIntAgrees, DoubleCompareAgrees,
       MathCallAgrees DEF Next

-----------------------------------------------------------------------------
(***************************************************************************)
(* Rounding: whatever the number, a power of two scales it to the digits   *)
(* of the format, so what is rounded is a number again.                    *)
(***************************************************************************)
ArePowers(f, K) == f = [k \in 0 .. K |-> IF k = 0 THEN 1 ELSE 2 * f[k - 1]]

LEMMA PowersExist ==
    ASSUME NEW K \in Nat
    PROVE  \E f : ArePowers(f, K)
  <1> DEFINE step(f, n) == IF n = 0 THEN 1 ELSE 2 * f[n - 1]
             S == {k \in Nat : \E f : f = [n \in 0 .. k |-> step(f, n)]}
  <1>1. 0 \in S
    <2>1. PICK f : f = [n \in 0 .. 0 |-> 1]
      OBVIOUS
    <2>2. f = [n \in 0 .. 0 |-> step(f, n)]
      BY <2>1
    <2> QED BY <2>2
  <1>2. ASSUME NEW k \in Nat, k \in S PROVE k + 1 \in S
    <2>1. PICK f : f = [n \in 0 .. k |-> step(f, n)]
      BY <1>2
    <2>2. PICK g : g = [n \in 0 .. k + 1 |-> step(f, n)]
      OBVIOUS
    <2>3. \A n \in 0 .. k : g[n] = f[n]
      <3>1. \A n \in 0 .. k : f[n] = step(f, n) /\ n \in 0 .. k + 1
        BY <2>1
      <3> HIDE DEF step
      <3> QED BY <2>2, <3>1
    <2>4. \A n \in 0 .. k + 1 : n = 0 \/ n - 1 \in 0 .. k
      OBVIOUS
    <2>5. \A n \in 0 .. k + 1 : step(f, n) = step(g, n)
      BY <2>3, <2>4
    <2>6. g = [n \in 0 .. k + 1 |-> step(g, n)]
      <3> HIDE DEF step
      <3> QED BY <2>2, <2>5
    <2> HIDE DEF step
    <2> QED BY <2>6
  <1>3. K \in S
    <2> HIDE DEF S
    <2> QED BY <1>1, <1>2, SetInduction
  <1> QED BY <1>3 DEF ArePowers

LEMMA PowersGrow ==
    ASSUME NEW K \in Nat, NEW f, ArePowers(f, K)
    PROVE  /\ f[0] = 1
           /\ \A k \in 0 .. K : f[k] \in Nat /\ k < f[k]
           /\ \A k \in 0 .. K : k # 0 => k - 1 \in 0 .. K /\ f[k] = 2 * f[k - 1]
  <1>1. \A k \in 0 .. K : f[k] = IF k = 0 THEN 1 ELSE 2 * f[k - 1]
    BY DEF ArePowers
  <1>2. f[0] = 1
    BY <1>1
  <1>3. \A k \in 0 .. K : k # 0 => k - 1 \in 0 .. K /\ f[k] = 2 * f[k - 1]
    BY <1>1
  <1> DEFINE S == {k \in Nat : k <= K => f[k] \in Nat /\ k < f[k]}
  <1>4. 0 \in S
    BY <1>2
  <1>5. ASSUME NEW k \in Nat, k \in S PROVE k + 1 \in S
    <2> SUFFICES ASSUME k + 1 <= K PROVE f[k + 1] \in Nat /\ k + 1 < f[k + 1]
      OBVIOUS
    <2>1. f[k] \in Nat /\ k < f[k]
      BY <1>5
    <2>2. f[k + 1] = 2 * f[k]
      BY <1>3, k + 1 \in 0 .. K, (k + 1) - 1 = k
    <2> QED BY <2>1, <2>2
  <1>6. Nat \subseteq S
    <2> HIDE DEF S
    <2> QED BY <1>4, <1>5, SetInduction
  <1> QED BY <1>2, <1>3, <1>6

(* There is a first number with a property, if any has it. *)
LEMMA FirstOne ==
    ASSUME NEW K \in Nat, NEW T \in SUBSET (0 .. K), T # {}
    PROVE  \E k \in T : k = 0 \/ k - 1 \notin T
  <1> SUFFICES ASSUME \A k \in T : k # 0 /\ k - 1 \in T PROVE FALSE
    OBVIOUS
  <1> DEFINE S == {n \in Nat : n \notin T}
  <1>1. 0 \in S
    OBVIOUS
  <1>2. ASSUME NEW n \in Nat, n \in S PROVE n + 1 \in S
    BY <1>2, (n + 1) - 1 = n
  <1>3. Nat \subseteq S
    <2> HIDE DEF S
    <2> QED BY <1>1, <1>2, SetInduction
  <1>4. PICK n : n \in T
    OBVIOUS
  <1>5. n \in Nat
    BY <1>4
  <1> QED BY <1>3, <1>4, <1>5

(* A number that is too small is doubled until it has all its digits. *)
LEMMA ScaledUp ==
    ASSUME NEW m \in Nat \ {0}, NEW E \in Nat \ {0}, m < E,
           NEW K \in Nat, E <= K, NEW f, ArePowers(f, K)
    PROVE  \E k \in 0 .. K : E <= 2 * (m * f[k]) /\ m * f[k] < E
  <1> DEFINE T == {k \in 0 .. K : E <= 2 * (m * f[k])}
  <1>1. /\ f[0] = 1
        /\ \A k \in 0 .. K : f[k] \in Nat /\ k < f[k]
        /\ \A k \in 0 .. K : k # 0 => k - 1 \in 0 .. K /\ f[k] = 2 * f[k - 1]
    BY PowersGrow
  <1>2. K \in T
    <2>1. f[K] \in Nat /\ E <= f[K]
      BY <1>1
    <2>2. f[K] <= m * f[K]
      BY <2>1
    <2> QED BY <2>1, <2>2
  <1>3. PICK k \in T : k = 0 \/ k - 1 \notin T
    <2>1. T # {} /\ T \in SUBSET (0 .. K)
      BY <1>2
    <2> HIDE DEF T
    <2> QED BY <2>1, FirstOne
  <1>4. m * f[k] < E
    <2>1. CASE k = 0
      BY <1>1, <2>1
    <2>2. CASE k # 0
      <3>1. k - 1 \in 0 .. K /\ f[k] = 2 * f[k - 1] /\ f[k - 1] \in Nat
        BY <1>1, <2>2
      <3>2. ~(E <= 2 * (m * f[k - 1]))
        BY <1>3, <2>2, <3>1
      <3>3. m * f[k] = 2 * (m * f[k - 1])
        BY <3>1
      <3>4. m * f[k - 1] \in Nat
        BY <3>1
      <3> QED BY <3>2, <3>3, <3>4
    <2> QED BY <2>1, <2>2
  <1> QED BY <1>3, <1>4

(* One that is too large is halved. *)
LEMMA ScaledDown ==
    ASSUME NEW m \in Nat \ {0}, NEW E \in Nat \ {0}, E <= m,
           NEW K \in Nat, m <= K, NEW f, ArePowers(f, K)
    PROVE  \E k \in 0 .. K : E * f[k] <= 2 * m /\ m < E * f[k]
  <1> DEFINE T == {k \in 0 .. K : m < E * f[k]}
  <1>1. /\ f[0] = 1
        /\ \A k \in 0 .. K : f[k] \in Nat /\ k < f[k]
        /\ \A k \in 0 .. K : k # 0 => k - 1 \in 0 .. K /\ f[k] = 2 * f[k - 1]
    BY PowersGrow
  <1>2. K \in T
    <2>1. f[K] \in Nat /\ m < f[K]
      BY <1>1
    <2>2. f[K] <= E * f[K]
      BY <2>1
    <2> QED BY <2>1, <2>2
  <1>3. PICK k \in T : k = 0 \/ k - 1 \notin T
    <2>1. T # {} /\ T \in SUBSET (0 .. K)
      BY <1>2
    <2> HIDE DEF T
    <2> QED BY <2>1, FirstOne
  <1>4. E * f[k] <= 2 * m
    <2>1. CASE k = 0
      BY <1>1, <2>1
    <2>2. CASE k # 0
      <3>1. k - 1 \in 0 .. K /\ f[k] = 2 * f[k - 1] /\ f[k - 1] \in Nat
        BY <1>1, <2>2
      <3>2. ~(m < E * f[k - 1])
        BY <1>3, <2>2, <3>1
      <3>3. E * f[k] = 2 * (E * f[k - 1])
        BY <3>1
      <3>4. E * f[k - 1] \in Nat
        BY <3>1
      <3> QED BY <3>2, <3>3, <3>4
    <2> QED BY <2>1, <2>2
  <1> QED BY <1>3, <1>4

LEMMA NearestEvenType ==
    ASSUME NEW n \in Int, NEW d \in Nat \ {0}
    PROVE  NearestEven(n, d) \in Int
  <1>1. n \div d \in Int
    BY DivMod
  <1> QED BY <1>1 DEF NearestEven

LEMMA RoundedType ==
    ASSUME NEW n \in Int, NEW d \in Nat \ {0}, NEW exact \in Nat \ {0}
    PROVE  Rounded(n, d, exact)[1] \in Int /\ Rounded(n, d, exact)[2] \in Nat \ {0}
  <1> DEFINE m == Abs(n)
             E == exact * d
             K == m + E
             power == CHOOSE f : f = [k \in 0 .. K |-> IF k = 0 THEN 1 ELSE 2 * f[k - 1]]
             fits(p, q) == E * q <= 2 * m * p /\ m * p < E * q
             up == power[CHOOSE k \in 0 .. K : fits(power[k], 1)]
             down == power[CHOOSE k \in 0 .. K : fits(1, power[k])]
  <1>1. Rounded(n, d, exact) =
           IF n = 0 THEN <<0, 1>>
           ELSE IF m < E THEN <<NearestEven(n * up, d), up>>
           ELSE <<NearestEven(n, d * down) * down, 1>>
    BY DEF Rounded
  <1>2. CASE n = 0
    BY <1>1, <1>2
  <1>3. CASE n # 0
    <2>1. m \in Nat \ {0} /\ E \in Nat \ {0} /\ K \in Nat /\ m <= K /\ E <= K
      BY <1>3 DEF Abs
    <2>2. ArePowers(power, K)
      <3> HIDE DEF K
      <3> QED BY <2>1, PowersExist DEF ArePowers
    <2> HIDE DEF m, E, K, power
    <2>3. \A k \in 0 .. K : power[k] \in Nat \ {0}
      BY <2>1, <2>2, PowersGrow
    <2>4. CASE m < E
      <3>1. PICK k \in 0 .. K : E <= 2 * (m * power[k]) /\ m * power[k] < E
        BY <2>1, <2>2, <2>4, ScaledUp
      <3>2. 2 * (m * power[k]) = 2 * m * power[k] /\ E * 1 = E
        BY <2>1, <2>3
      <3>3. fits(power[k], 1)
        BY <3>1, <3>2
      <3>4. up \in Nat \ {0}
        <4> HIDE DEF fits
        <4> QED BY <2>3, <3>3
      <3> HIDE DEF up, down
      <3>5. n * up \in Int
        BY <3>4
      <3> QED BY <1>1, <1>3, <2>4, <3>4, <3>5, NearestEvenType
    <2>5. CASE ~(m < E)
      <3>1. PICK k \in 0 .. K : E * power[k] <= 2 * m /\ m < E * power[k]
        BY <2>1, <2>2, <2>5, ScaledDown
      <3>2. 2 * m * 1 = 2 * m /\ m * 1 = m
        BY <2>1
      <3>3. fits(1, power[k])
        BY <3>1, <3>2
      <3>4. down \in Nat \ {0}
        <4> HIDE DEF fits
        <4> QED BY <2>3, <3>3
      <3> HIDE DEF up, down
      <3>5. d * down \in Nat \ {0}
        BY <3>4
      <3>6. NearestEven(n, d * down) \in Int
        BY <3>5, NearestEvenType
      <3> QED BY <1>1, <1>3, <2>5, <3>4, <3>6
    <2> QED BY <2>4, <2>5
  <1> QED BY <1>2, <1>3

LEMMA RoundIntType ==
    ASSUME NEW n \in Int
    PROVE  ToDouble(n) \in Int /\ ToFloat(n) \in Int
  <1>1. DoubleExact \in Nat \ {0} /\ FloatExact \in Nat \ {0}
    BY WidthAssumption
  <1>2. Rounded(n, 1, DoubleExact)[1] \in Int /\ Rounded(n, 1, FloatExact)[1] \in Int
    BY <1>1, RoundedType
  <1> QED BY <1>2 DEF ToDouble, ToFloat, RoundInt

LEMMA JSQuotientType ==
    ASSUME NEW a \in Int, NEW b \in Int, b # 0
    PROVE  JSQuotient(a, b) \in Int
  <1>1. DoubleExact \in Nat \ {0} /\ Abs(b) \in Nat \ {0} /\ a * Sign(b) \in Int
    BY WidthAssumption DEF Abs, Sign
  <1> DEFINE q == Rounded(a * Sign(b), Abs(b), DoubleExact)
  <1>2. q[1] \in Int /\ q[2] \in Nat \ {0}
    BY <1>1, RoundedType
  <1>3. q[1] \div q[2] \in Int
    <2> HIDE DEF q
    <2> QED BY <1>2, DivMod
  <1>4. FloorDiv(a, b) \in Int
    BY DEF FloorDiv
  <1> QED BY <1>3, <1>4 DEF JSQuotient, FloorOfQuotient

LEMMA TruncRemType ==
    ASSUME NEW a \in Int, NEW b \in Int, b # 0
    PROVE  TruncRem(a, b) \in Int
  <1>1. Abs(a) \in Int /\ Abs(b) \in Nat \ {0} /\ Sign(a) \in Int
    BY DEF Abs, Sign
  <1>2. Abs(a) % Abs(b) \in Int
    BY <1>1, DivMod
  <1> QED BY <1>1, <1>2 DEF TruncRem

-----------------------------------------------------------------------------
(***************************************************************************)
(* Doubles stay doubles, on every machine.                                 *)
(***************************************************************************)
LEMMA FiniteIsDouble == \A n \in Int : IsDouble(Finite(n))
  BY DEF IsDouble, Finite, NaN

LEMMA MathType ==
    ASSUME NEW x, IsDouble(x), NEW name \in DoubleMethods
    PROVE  /\ \A y \in JSImport(name, x) : IsDouble(y)
           /\ \A y \in runtime_math(name, 0, x) : IsDouble(y)
  <1>1. x.n \in Int /\ Unit \in Nat \ {0}
    BY UnitAssumption DEF IsDouble
  <1>2. \A n \in Int : n \div Unit \in Int
    BY <1>1
  <1>3. \A n \in Int : IsDouble(OnFinite(x, n))
    BY FiniteIsDouble DEF OnFinite
  <1>4. IsDouble(MathFloor(x)) /\ IsDouble(MathCeil(x))
    <2>1. (x.n \div Unit) * Unit \in Int
      BY <1>1, <1>2
    <2>2. -((-x.n) \div Unit) * Unit \in Int
      BY <1>1, <1>2
    <2> QED BY <1>3, <2>1, <2>2 DEF MathFloor, MathCeil
  <1>6. IsDouble(MathSqrt(x))
    <2>1. IsDouble(NaN)
      BY DEF IsDouble, NaN
    <2>2. ASSUME ~(x.n < 0) PROVE NearestRoot(x.n) \in Int
      BY <1>1, <2>2, NearestRootType
    <2> QED BY <1>3, <2>1, <2>2 DEF MathSqrt
  <1>7. \A y \in MathWaves(x) : IsDouble(y)
    <2>1. IsDouble(NaN)
      BY DEF IsDouble, NaN
    <2>2. \A n \in -Unit .. Unit : n \in Int
      BY <1>1
    <2> QED BY <2>1, <2>2, FiniteIsDouble DEF MathWaves
  <1>8. \A y \in JSImport(name, x) : IsDouble(y)
    BY <1>4, <1>6, <1>7 DEF JSImport, DoubleMethods, MathNames
  <1>9. \A y \in runtime_math(name, 0, x) : IsDouble(y)
    BY <1>4, <1>6, <1>7
       DEF runtime_math, DoubleMethods, MathNames, floor, ceil, sin, cos, sqrt
  <1> QED BY <1>8, <1>9

LEMMA JavaMathType ==
    ASSUME NEW x, IsDouble(x), NEW name \in DoubleMethods, NEW a \in JavaMath(name, x)
    PROVE  IsDouble(a)
  BY MathAgrees

-----------------------------------------------------------------------------
(***************************************************************************)
(* Types.  The ints of Java and WebAssembly are known from NumbersInv.     *)
(***************************************************************************)
JSTyped == js \in [Regs -> Int]

DoublesTyped == \A m \in Machine : IsDouble(double[m])

FlagsTyped ==
    /\ ended \in [Machine -> {"no", "throws", "traps", "no int"}]
    /\ safe \in BOOLEAN /\ used \subseteq Kinds /\ steps \in 0 .. MaxSteps

LEMMA IntsAreInts == IntsTyped => \A r \in Regs : java[r] \in Int /\ wasm[r] \in Int
  BY IntsAreIntegers DEF IntsTyped

LEMMA JSStaysTyped == IntsTyped /\ JSTyped /\ DoublesTyped /\ [Next]_vars => JSTyped'
  <1> SUFFICES ASSUME IntsTyped, JSTyped, DoublesTyped, [Next]_vars PROVE JSTyped'
    OBVIOUS
  <1>1. ASSUME NEW r \in Regs, NEW y \in Int, js' = [js EXCEPT ![r] = y] PROVE JSTyped'
    BY <1>1 DEF JSTyped
  <1>2. ASSUME js' = js PROVE JSTyped'
    BY <1>2 DEF JSTyped
  <1>3. \A r \in Regs : js[r] \in Int /\ Wrap(js[r]) \in Int32
    BY WrapType DEF JSTyped
  <1>4. ASSUME NEW r \in Regs, NEW s \in Regs, NEW op \in RingOps, RingStep(op, r, s)
        PROVE  JSTyped'
    <2>1. Ring(op, js[r], js[s]) \in Int
      BY <1>3 DEF Ring, RingOps
    <2>2. ToDouble(Ring(op, js[r], js[s])) \in Int
      BY <2>1, RoundIntType
    <2>3. js' = [js EXCEPT ![r] = ToDouble(Ring(op, js[r], js[s]))]
      BY <1>4 DEF RingStep
    <2> QED BY <1>1, <2>2, <2>3
  <1>5. ASSUME NEW r \in Regs, NEW s \in Regs, NEW op \in BitOps, BitStep(op, r, s)
        PROVE  JSTyped'
    <2>1. BitFn[op][Wrap(js[r])][Wrap(js[s])] \in Int32
      BY <1>3, BitAssumption
    <2>2. BitFn[op][Wrap(js[r])][Wrap(js[s])] \in Int
      BY <2>1, IntsAreIntegers
    <2> QED BY <1>1, <1>5, <2>2 DEF BitStep
  <1>6. ASSUME NEW r \in Regs, NEW s \in Regs, UnsignedShift(r, s) PROVE JSTyped'
    <2>1. UshrFn[Wrap(js[r])][Wrap(js[s])] \in 0 .. 2 * Half - 1
      BY <1>3, BitAssumption
    <2>2. UshrFn[Wrap(js[r])][Wrap(js[s])] \in Int
      BY <2>1, WidthAssumption
    <2> QED BY <1>1, <1>6, <2>2 DEF UnsignedShift
  <1>7. ASSUME NEW r \in Regs, NEW s \in Regs, Divide(r, s) PROVE JSTyped'
    <2>1. /\ ended'["js"] = IF js[s] = 0 THEN "no int" ELSE "no"
          /\ js' = IF ended'["js"] = "no"
                   THEN [js EXCEPT ![r] = JSQuotient(js[r], js[s])] ELSE js
      BY <1>7 DEF Divide, Machine
    <2>2. CASE js[s] = 0
      BY <1>2, <2>1, <2>2
    <2>3. CASE js[s] # 0
      BY <1>1, <1>3, <2>1, <2>3, JSQuotientType
    <2> QED BY <2>2, <2>3
  <1>8. ASSUME NEW r \in Regs, NEW s \in Regs, Remainder(r, s) PROVE JSTyped'
    <2>1. js' = IF js[s] = 0 THEN js ELSE [js EXCEPT ![r] = TruncRem(js[r], js[s])]
      BY <1>8 DEF Remainder
    <2> QED BY <1>1, <1>2, <1>3, <2>1, TruncRemType
  <1>9. ASSUME NEW r \in Regs, NEW s \in Regs, Compare(r, s) PROVE JSTyped'
    <2>1. Sign(js[r] - js[s]) \in Int
      BY DEF Sign
    <2> QED BY <1>1, <1>9, <2>1 DEF Compare
  <1>10. ASSUME NEW r \in Regs, Negate(r) PROVE JSTyped'
    <2>1. -js[r] \in Int
      BY <1>3
    <2> QED BY <1>1, <1>10, <2>1 DEF Negate
  <1>11. ASSUME NEW r \in Regs, DoubleToInt(r) PROVE JSTyped'
    <2> DEFINE floored == MathFloor(double["js"])
    <2>1. IsDouble(floored)
      <3>1. IsDouble(double["js"])
        BY DEF DoublesTyped, Machine
      <3> QED BY <3>1, MathType DEF JSImport, DoubleMethods, MathNames
    <2> HIDE DEF floored
    <2>2. floored.n \div Unit \in Int
      BY <2>1, UnitAssumption DEF IsDouble
    <2>3. js' = [js EXCEPT ![r] = floored.n \div Unit] \/ js' = js
      BY <1>11 DEF DoubleToInt, floored
    <2> QED BY <1>1, <1>2, <2>2, <2>3
  <1>12. ASSUME NEW r \in Regs, NEW x, NEW u, DoubleCompare(r, x, u) PROVE JSTyped'
    <2>1. DoubleSign(double["js"], x, 0) \in Int
      BY DEF DoubleSign, Sign
    <2> QED BY <1>1, <1>12, <2>1 DEF DoubleCompare
  <1>13. ASSUME NEW r \in Regs, Narrow(r) \/ IntToDouble(r) PROVE JSTyped'
    BY <1>2, <1>13 DEF Narrow, IntToDouble
  <1>14. ASSUME NEW x, DoubleRemainder(x) PROVE JSTyped'
    BY <1>2, <1>14 DEF DoubleRemainder
  <1>15. ASSUME NEW name, MathCall(name) PROVE JSTyped'
    BY <1>2, <1>15 DEF MathCall
  <1>16. ASSUME NEW r \in Regs, RoundToInt(r) PROVE JSTyped'
    <2>1. Truncated(MathRound(double["js"])) \in Int
      BY MathRoundType, TruncatedType DEF DoublesTyped, Machine
    <2>2. \/ js' = [js EXCEPT ![r] = Truncated(MathRound(double["js"]))]
          \/ js' = js
      BY <1>16 DEF RoundToInt
    <2> QED BY <1>1, <1>2, <2>1, <2>2
  <1>17. CASE UNCHANGED vars
    BY <1>2, <1>17 DEF vars
  <1> QED
    BY <1>4, <1>5, <1>6, <1>7, <1>8, <1>9, <1>10, <1>11, <1>12, <1>13, <1>14, <1>15,
       <1>16, <1>17 DEF Next

LEMMA DoublesStayTyped == IntsTyped /\ JSTyped /\ DoublesTyped /\ [Next]_vars => DoublesTyped'
  <1> SUFFICES ASSUME IntsTyped, JSTyped, DoublesTyped, [Next]_vars PROVE DoublesTyped'
    OBVIOUS
  <1>1. IsDouble(double["java"]) /\ IsDouble(double["js"]) /\ IsDouble(double["wasm"])
    BY DEF DoublesTyped, Machine
  <1>2. ASSUME NEW r \in Regs, IntToDouble(r) PROVE DoublesTyped'
    <2>1. java[r] \in Int /\ js[r] \in Int /\ ToFloat(wasm[r]) \in Int
      BY IntsAreInts, RoundIntType DEF JSTyped
    <2>2. Unit * java[r] \in Int /\ Unit * js[r] \in Int /\ Unit * ToFloat(wasm[r]) \in Int
      BY <2>1, UnitAssumption
    <2>3. /\ double'["java"] = Finite(Unit * java[r])
          /\ double'["js"] = Finite(Unit * js[r])
          /\ double'["wasm"] = Finite(Unit * ToFloat(wasm[r]))
      BY <1>2 DEF IntToDouble, Machine
    <2> QED BY <2>2, <2>3, FiniteIsDouble DEF DoublesTyped, Machine
  <1>3. ASSUME NEW x \in DoubleArgs, DoubleRemainder(x) PROVE DoublesTyped'
    <2>1. \A a : IsDouble(a) => IsDouble(JavaRem(a, x)) /\ IsDouble(NumberRem(a, x))
      BY ArgsAssumption, RemaindersAgree
    <2>2. /\ double'["java"] = JavaRem(double["java"], x)
          /\ double'["js"] = NumberRem(double["js"], x)
          /\ double'["wasm"] = NumberRem(double["wasm"], x)
      BY <1>3 DEF DoubleRemainder, float_rem
    <2> QED BY <1>1, <2>1, <2>2 DEF DoublesTyped, Machine
  <1>4. ASSUME NEW name \in DoubleMethods, MathCall(name) PROVE DoublesTyped'
    <2>1. PICK a \in JavaMath(name, double["java"]), b \in JSImport(name, double["js"]),
               c \in runtime_math(name, 0, double["wasm"]) :
                  double' = [java |-> a, js |-> b, wasm |-> c]
      BY <1>4 DEF MathCall
    <2>2. IsDouble(a) /\ IsDouble(b) /\ IsDouble(c)
      BY <1>1, <2>1, MathType, JavaMathType
    <2> QED BY <2>1, <2>2 DEF DoublesTyped, Machine
  <1>5. ASSUME double' = double PROVE DoublesTyped'
    BY <1>5 DEF DoublesTyped
  <1>6. ASSUME NEW r \in Regs, NEW s \in Regs, NEW op \in RingOps, RingStep(op, r, s)
        PROVE double' = double
    BY <1>6 DEF RingStep
  <1>7. ASSUME NEW r \in Regs, NEW s \in Regs, NEW op \in BitOps, BitStep(op, r, s)
        PROVE double' = double
    BY <1>7 DEF BitStep
  <1>8. ASSUME NEW r \in Regs, NEW s \in Regs, UnsignedShift(r, s)
        PROVE double' = double
    BY <1>8 DEF UnsignedShift
  <1>9. ASSUME NEW r \in Regs, NEW s \in Regs, Divide(r, s) PROVE double' = double
    BY <1>9 DEF Divide
  <1>10. ASSUME NEW r \in Regs, NEW s \in Regs, Remainder(r, s)
        PROVE double' = double
    BY <1>10 DEF Remainder
  <1>11. ASSUME NEW r \in Regs, NEW s \in Regs, Compare(r, s)
        PROVE double' = double
    BY <1>11 DEF Compare
  <1>12. ASSUME NEW r \in Regs, Negate(r) PROVE double' = double
    BY <1>12 DEF Negate
  <1>13. ASSUME NEW r \in Regs, Narrow(r) PROVE double' = double
    BY <1>13 DEF Narrow
  <1>14. ASSUME NEW r \in Regs, DoubleToInt(r) PROVE double' = double
    BY <1>14 DEF DoubleToInt
  <1>17. ASSUME NEW r \in Regs, RoundToInt(r) PROVE double' = double
    BY <1>17 DEF RoundToInt
  <1>15. ASSUME NEW r \in Regs, NEW x \in DoubleArgs, NEW u \in {-1, 1}, DoubleCompare(r, x, u)
        PROVE double' = double
    BY <1>15 DEF DoubleCompare
  <1>16. CASE UNCHANGED vars
    BY <1>5, <1>16 DEF vars
  <1> QED
    BY <1>2, <1>3, <1>4, <1>5, <1>6, <1>7, <1>8,
       <1>9, <1>10, <1>11, <1>12, <1>13, <1>14, <1>15, <1>16, <1>17 DEF Next

Endings == [Machine -> {"no", "throws", "traps", "no int"}]

LEMMA FlagsStayTyped == FlagsTyped /\ [Next]_vars => FlagsTyped'
  <1> SUFFICES ASSUME FlagsTyped, [Next]_vars PROVE FlagsTyped'
    OBVIOUS
  <1>a. /\ steps \in 0 .. MaxSteps /\ used \subseteq Kinds /\ safe \in BOOLEAN
        /\ ended \in Endings /\ MaxSteps \in Nat
    BY BoundAssumption DEF FlagsTyped, Endings
  <1>b. ASSUME Running, NEW kind \in Kinds, used' = used \union {kind},
               ended' \in Endings, safe' \in BOOLEAN
        PROVE  FlagsTyped'
    <2>1. steps' \in 0 .. MaxSteps
      BY <1>a, <1>b DEF Running
    <2> QED BY <1>a, <1>b, <2>1 DEF FlagsTyped, Endings
  <1>1. ASSUME NEW r \in Regs, NEW s \in Regs, NEW op \in RingOps, RingStep(op, r, s)
        PROVE FlagsTyped'
    <2>1. PICK kind \in {"ring", "rounded"} : Wrote(r, kind)
      BY <1>1 DEF RingStep
    <2>2. kind \in Kinds /\ used' = used \union {kind}
      BY <2>1 DEF Kinds, Wrote
    <2>3. Running /\ ended' \in Endings
      BY <1>a, <1>1 DEF RingStep, Endings, Machine
    <2>4. safe' \in BOOLEAN
      BY <1>a, <1>1, Zenon DEF RingStep
    <2> QED BY <1>b, <2>2, <2>3, <2>4
  <1>2. ASSUME NEW r \in Regs, NEW s \in Regs, NEW op \in BitOps, BitStep(op, r, s)
        PROVE FlagsTyped'
    <2>1. "bit" \in Kinds /\ used' = used \union {"bit"}
      BY <1>2 DEF Kinds, BitStep, Wrote
    <2>3. Running /\ ended' \in Endings
      BY <1>a, <1>2 DEF BitStep, Endings, Machine
    <2>4. safe' \in BOOLEAN
      BY <1>a, <1>2, Zenon DEF BitStep
    <2> QED BY <1>b, <2>1, <2>3, <2>4
  <1>3. ASSUME NEW r \in Regs, NEW s \in Regs, UnsignedShift(r, s)
        PROVE FlagsTyped'
    <2>1. "unsigned" \in Kinds /\ used' = used \union {"unsigned"}
      BY <1>3 DEF Kinds, UnsignedShift, Wrote
    <2>3. Running /\ ended' \in Endings
      BY <1>a, <1>3 DEF UnsignedShift, Endings, Machine
    <2>4. safe' \in BOOLEAN
      BY <1>a, <1>3, Zenon DEF UnsignedShift
    <2> QED BY <1>b, <2>1, <2>3, <2>4
  <1>4. ASSUME NEW r \in Regs, NEW s \in Regs, Divide(r, s)
        PROVE FlagsTyped'
    <2>1. "div" \in Kinds /\ used' = used \union {"div"}
      BY <1>4 DEF Kinds, Divide, Wrote
    <2>3. Running /\ ended' \in Endings
      BY <1>a, <1>4 DEF Divide, Endings, Machine
    <2>4. safe' \in BOOLEAN
      BY <1>a, <1>4, Zenon DEF Divide
    <2> QED BY <1>b, <2>1, <2>3, <2>4
  <1>5. ASSUME NEW r \in Regs, NEW s \in Regs, Remainder(r, s)
        PROVE FlagsTyped'
    <2>1. "order" \in Kinds /\ used' = used \union {"order"}
      BY <1>5 DEF Kinds, Remainder, Wrote
    <2>3. Running /\ ended' \in Endings
      BY <1>a, <1>5 DEF Remainder, Endings, Machine
    <2>4. safe' \in BOOLEAN
      BY <1>a, <1>5, Zenon DEF Remainder
    <2> QED BY <1>b, <2>1, <2>3, <2>4
  <1>6. ASSUME NEW r \in Regs, NEW s \in Regs, Compare(r, s)
        PROVE FlagsTyped'
    <2>1. "order" \in Kinds /\ used' = used \union {"order"}
      BY <1>6 DEF Kinds, Compare, Wrote
    <2>3. Running /\ ended' \in Endings
      BY <1>a, <1>6 DEF Compare, Endings, Machine
    <2>4. safe' \in BOOLEAN
      BY <1>a, <1>6, Zenon DEF Compare
    <2> QED BY <1>b, <2>1, <2>3, <2>4
  <1>7. ASSUME NEW r \in Regs, Negate(r) PROVE FlagsTyped'
    <2>1. "ring" \in Kinds /\ used' = used \union {"ring"}
      BY <1>7 DEF Kinds, Negate, Wrote
    <2>3. Running /\ ended' \in Endings
      BY <1>a, <1>7 DEF Negate, Endings, Machine
    <2>4. safe' \in BOOLEAN
      BY <1>a, <1>7, Zenon DEF Negate
    <2> QED BY <1>b, <2>1, <2>3, <2>4
  <1>8. ASSUME NEW r \in Regs, Narrow(r) PROVE FlagsTyped'
    <2>1. "narrow" \in Kinds /\ used' = used \union {"narrow"}
      BY <1>8 DEF Kinds, Narrow, Wrote
    <2>3. Running /\ ended' \in Endings
      BY <1>a, <1>8 DEF Narrow, Endings, Machine
    <2>4. safe' \in BOOLEAN
      BY <1>a, <1>8, Zenon DEF Narrow
    <2> QED BY <1>b, <2>1, <2>3, <2>4
  <1>9. ASSUME NEW r \in Regs, IntToDouble(r) PROVE FlagsTyped'
    <2>1. "convert" \in Kinds /\ used' = used \union {"convert"}
      BY <1>9 DEF Kinds, IntToDouble, WroteDouble
    <2>3. Running /\ ended' \in Endings
      BY <1>a, <1>9 DEF IntToDouble, Endings, Machine
    <2>4. safe' \in BOOLEAN
      BY <1>a, <1>9, Zenon DEF IntToDouble
    <2> QED BY <1>b, <2>1, <2>3, <2>4
  <1>10. ASSUME NEW r \in Regs, DoubleToInt(r) PROVE FlagsTyped'
    <2>1. "convert" \in Kinds /\ used' = used \union {"convert"}
      BY <1>10 DEF Kinds, DoubleToInt, Wrote
    <2>3. Running /\ ended' \in Endings
      BY <1>a, <1>10 DEF DoubleToInt, Endings, Machine
    <2>4. safe' \in BOOLEAN
      BY <1>a, <1>10, Zenon DEF DoubleToInt
    <2> QED BY <1>b, <2>1, <2>3, <2>4
  <1>11. ASSUME NEW x \in DoubleArgs, DoubleRemainder(x)
        PROVE FlagsTyped'
    <2>1. "double" \in Kinds /\ used' = used \union {"double"}
      BY <1>11 DEF Kinds, DoubleRemainder, WroteDouble
    <2>3. Running /\ ended' \in Endings
      BY <1>a, <1>11 DEF DoubleRemainder, Endings, Machine
    <2>4. safe' \in BOOLEAN
      BY <1>a, <1>11, Zenon DEF DoubleRemainder
    <2> QED BY <1>b, <2>1, <2>3, <2>4
  <1>12. ASSUME NEW r \in Regs, NEW x \in DoubleArgs, NEW u \in {-1, 1}, DoubleCompare(r, x, u)
        PROVE FlagsTyped'
    <2>1. "convert" \in Kinds /\ used' = used \union {"convert"}
      BY <1>12 DEF Kinds, DoubleCompare, Wrote
    <2>3. Running /\ ended' \in Endings
      BY <1>a, <1>12 DEF DoubleCompare, Endings, Machine
    <2>4. safe' \in BOOLEAN
      BY <1>a, <1>12, Zenon DEF DoubleCompare
    <2> QED BY <1>b, <2>1, <2>3, <2>4
  <1>13. ASSUME NEW name \in DoubleMethods, MathCall(name) PROVE FlagsTyped'
    <2>1. "double" \in Kinds /\ used' = used \union {"double"}
      BY <1>13 DEF Kinds, MathCall, WroteDouble
    <2>3. Running /\ ended' \in Endings
      BY <1>a, <1>13 DEF MathCall, Endings, Machine
    <2>4. safe' \in BOOLEAN
      BY <1>a, <1>13, Zenon DEF MathCall
    <2> QED BY <1>b, <2>1, <2>3, <2>4
  <1>15. ASSUME NEW r \in Regs, RoundToInt(r) PROVE FlagsTyped'
    <2>1. "convert" \in Kinds /\ used' = used \union {"convert"}
      BY <1>15 DEF Kinds, RoundToInt, Wrote
    <2>3. Running /\ ended' \in Endings
      BY <1>a, <1>15 DEF RoundToInt, Endings, Machine
    <2>4. safe' \in BOOLEAN
      BY <1>a, <1>15, Zenon DEF RoundToInt
    <2> QED BY <1>b, <2>1, <2>3, <2>4
  <1>14. CASE UNCHANGED vars
    BY <1>14 DEF vars, FlagsTyped
  <1> QED
    BY <1>1, <1>2, <1>3, <1>4, <1>5, <1>6, <1>7,
       <1>8, <1>9, <1>10, <1>11, <1>12, <1>13, <1>14, <1>15 DEF Next

LEMMA NextNumbersInv == NumbersInv /\ DoublesTyped /\ [Next]_vars => NumbersInv'
  <1> SUFFICES ASSUME NumbersInv, DoublesTyped, [Next]_vars PROVE NumbersInv'
    OBVIOUS
  <1>1. ASSUME NEW r \in Regs, NEW s \in Regs,
               \/ \E op \in RingOps : RingStep(op, r, s)
               \/ \E op \in BitOps : BitStep(op, r, s)
               \/ UnsignedShift(r, s) \/ Divide(r, s) \/ Remainder(r, s) \/ Compare(r, s)
        PROVE  NumbersInv'
    BY <1>1, RingPreserves, BitPreserves, UnsignedShiftPreserves, DividePreserves,
       RemainderPreserves, ComparePreserves
  <1>2. ASSUME NEW r \in Regs, Negate(r) \/ Narrow(r) \/ DoubleToInt(r)
        PROVE  NumbersInv'
    BY <1>2, NegatePreserves, NarrowPreserves, DoubleToIntPreserves
  <1>3. ASSUME NEW r \in Regs, IntToDouble(r)
        PROVE  NumbersInv'
    BY <1>3, DoublePreserves DEF IntToDouble
  <1>4. ASSUME NEW x \in DoubleArgs, DoubleRemainder(x)
        PROVE  NumbersInv'
    BY <1>4, DoublePreserves DEF DoubleRemainder
  <1>5. ASSUME NEW x \in DoubleArgs, NEW r \in Regs, NEW u \in {-1, 1}, DoubleCompare(r, x, u)
        PROVE  NumbersInv'
    BY <1>5, DoubleComparePreserves
  <1>6. ASSUME NEW name \in DoubleMethods, MathCall(name)
        PROVE  NumbersInv'
    BY <1>6, DoublePreserves DEF MathCall
  <1>8. ASSUME NEW r \in Regs, RoundToInt(r)
        PROVE  NumbersInv'
    BY <1>8, RoundToIntPreserves DEF DoublesTyped, Machine
  <1>7. CASE UNCHANGED vars
    BY <1>7 DEF vars, NumbersInv, IntsTyped, LowBits, LowBitsOnly, WasmExact
  <1> QED BY <1>1, <1>2, <1>3, <1>4, <1>5, <1>6, <1>7, <1>8 DEF Next

LEMMA InitTyped == Init => JSTyped /\ DoublesTyped /\ FlagsTyped
  <1> SUFFICES ASSUME Init PROVE JSTyped /\ DoublesTyped /\ FlagsTyped
    OBVIOUS
  <1>1. JSTyped
    BY ArgsAssumption, IntsAreIntegers DEF Init, JSTyped
  <1>2. DoublesTyped
    BY ArgsAssumption DEF Init, DoublesTyped
  <1>3. FlagsTyped
    BY BoundAssumption DEF Init, FlagsTyped, Kinds
  <1> QED BY <1>1, <1>2, <1>3

TypedInv == NumbersInv /\ JSTyped /\ DoublesTyped /\ FlagsTyped

(***************************************************************************)
(* The inductive invariant: what JavaScript's and WebAssembly's registers  *)
(* keep of Java's, and the types that the roundings rely on.               *)
(***************************************************************************)
THEOREM NumbersInvHolds == Spec => []TypedInv
  <1>1. Init => TypedInv
    BY InitNumbersInv, InitTyped DEF TypedInv
  <1>2. TypedInv /\ [Next]_vars => TypedInv'
    <2>1. NumbersInv => IntsTyped
      BY DEF NumbersInv
    <2> QED BY <2>1, NextNumbersInv, JSStaysTyped, DoublesStayTyped, FlagsStayTyped
            DEF TypedInv
  <1> QED BY <1>1, <1>2, PTL DEF Spec

(***************************************************************************)
(* Whatever the width of an int and the exactness of the formats:          *)
(* JavaScript computes additions, products and bit operations modulo 2^32, *)
(***************************************************************************)
THEOREM JSIsCongruent == Spec => []JSCongruent
  <1>1. TypedInv => JSCongruent
    BY DEF TypedInv, NumbersInv, LowBits, JSCongruent
  <1> QED BY <1>1, NumbersInvHolds, PTL

(***************************************************************************)
(* a bit operation makes Java's int of a result that overflowed before it, *)
(***************************************************************************)
THEOREM BitOpsDoRepair == Spec => []BitOpsRepair
  <1>1. TypedInv => BitOpsRepair
    BY DEF TypedInv, NumbersInv, LowBits, BitOpsRepair
  <1> QED BY <1>1, NumbersInvHolds, PTL

(***************************************************************************)
(* and WebAssembly's ints are Java's until a division or a conversion.     *)
(***************************************************************************)
THEOREM WasmIsExact == Spec => []WasmExact
  <1>1. TypedInv => WasmExact
    BY DEF TypedInv, NumbersInv
  <1> QED BY <1>1, NumbersInvHolds, PTL

(***************************************************************************)
(* A program whose int results never overflow, that divides exactly or     *)
(* with operands of one sign, none of them zero or too large for an f32,   *)
(* narrows only what fits, rounds only what an int holds and never         *)
(* compares a NaN computes the same in Java, in JavaScript and in          *)
(* WebAssembly, and ends on none of them: for every width of the formats,  *)
(* every argument and every length.                                        *)
(***************************************************************************)
THEOREM SafeProgramsDoAgree == Spec => []SafeProgramsAgree
  <1>1. SafeInv => SafeProgramsAgree
    BY DEF SafeInv, Agree, SafeProgramsAgree
  <1>2. TypedInv => IntsTyped
    BY DEF TypedInv, NumbersInv
  <1> QED BY <1>1, <1>2, InitSafeInv, NextSafeInv, NumbersInvHolds, PTL DEF Spec

(***************************************************************************)
(* Whatever a program computes, the ints of Java and WebAssembly keep      *)
(* their width, a register in JavaScript holds an integer until one of the *)
(* machines has ended, and doubles are doubles: for every width.           *)
(***************************************************************************)
THEOREM TypesStayOK == Spec => []TypeOK
  <1>1. TypedInv => TypeOK
    BY DEF TypedInv, NumbersInv, IntsTyped, JSTyped, DoublesTyped, FlagsTyped, TypeOK
  <1> QED BY <1>1, NumbersInvHolds, PTL
=============================================================================
