\* Loops and conditionals; one loop and a switch or an exception handler.
CONSTANTS
  N = 5
  MaxCases = 3
  MaxSwitches = 1
  MaxBackward = 1
  MaxHandlers = 1
  LoopAtStart = FALSE
  StackDepth = 15
  Inlining = {TRUE, FALSE}
SPECIFICATION RSpec
INVARIANTS
  TypeOK
  CompilationSucceeds
  OneBlockPerNode
  JumpsLand
  LabelsUnambiguous
PROPERTIES
  ImplementsWalk
  CompilationAdvances
CHECK_DEADLOCK FALSE
