\* A switch.
CONSTANTS
  N = 5
  MaxCases = 3
  MaxSwitches = 1
  MaxBackward = 0
  MaxHandlers = 0
  LoopAtStart = FALSE
  StackDepth = 15
  Inlining = {FALSE}
SPECIFICATION RSpec
INVARIANT LabelsInScope
CHECK_DEADLOCK FALSE
