CONSTANTS
  Calls = {c1, c2}
  Streams <- MCStreams
  Workers = {w1, w2}
SPECIFICATION FairSpec
INVARIANTS
  TypeOK
  NothingRunsAfterReturn
  WorkItemSeesItsCall
PROPERTIES
  ImplementsParallelFor
  CallsEnd
CHECK_DEADLOCK FALSE
