\* A loop whose head is the first instruction.
CONSTANTS
  N = 3
  MaxCases = 0
  MaxSwitches = 0
  MaxBackward = 3
  MaxHandlers = 0
  LoopAtStart = TRUE
  StackDepth = 10
  Inlining = {TRUE}
SPECIFICATION RSpec
INVARIANT CompilationSucceeds
CHECK_DEADLOCK FALSE
