----------------------------- MODULE MCNumbers -----------------------------
(***************************************************************************)
(* Numbers with ints of 4 bits, doubles exact to 2^6, floats exact to 2^2. *)
(***************************************************************************)
EXTENDS Numbers, Bitwise

MCUnsigned(n) == n % (2 * Half)
MCPower == [i \in 0 .. 3 |-> CASE i = 0 -> 1 [] i = 1 -> 2 [] i = 2 -> 4 [] i = 3 -> 8]
MCDistance(n) == n % 4

MCBits(op, x, y) ==
    CASE op = "and" -> Wrap(MCUnsigned(x) & MCUnsigned(y))
      [] op = "or"  -> Wrap(MCUnsigned(x) | MCUnsigned(y))
      [] op = "shl" -> Wrap(x * MCPower[MCDistance(y)])
      [] op = "shr" -> x \div MCPower[MCDistance(y)]

MCBitOps == {"and", "or", "shl", "shr"}
MCBitFn == [op \in MCBitOps |-> [x \in Int32 |-> [y \in Int32 |-> MCBits(op, x, y)]]]
MCUshrFn == [x \in Int32 |-> [y \in Int32 |-> MCUnsigned(x) \div MCPower[MCDistance(y)]]]

MCIntArgs == {-5, 2, 3}
MCDoubleArgs == {Finite(-3), Finite(5), Finite(16), NaN, Infinity(1)}
=============================================================================
