CONSTANTS
    Unit = 2
    Regs = {a, b}
    Half = 8
    ByteHalf = 4
    DoubleExact = 64
    FloatExact = 4
    BitOps <- MCBitOps
    BitFn <- MCBitFn
    UshrFn <- MCUshrFn
    IntArgs <- MCIntArgs
    DoubleArgs <- MCDoubleArgs
    JSBound = 600
    MaxSteps = 3
    a = a
    b = b
SPECIFICATION Spec
INVARIANTS TypeOK SafeProgramsAgree JSCongruent BitOpsRepair WasmExact
CHECK_DEADLOCK FALSE
