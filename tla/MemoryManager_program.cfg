\* A program and the collector, with a word aligned stack: three objects of two sizes, and
\* collections that are executed to their end.
CONSTANTS
  MemorySize = 84
  RequestSizes = {20, 24}
  FieldOffsets = {8}
  Slots = {s1, s2}
  Platform = "wasm"
  StackTopSkew = 0
SPECIFICATION ExecutedSpec
INVARIANTS
  CursorOnUsedBlock
  NoReferenceDangles
PROPERTIES
  CollectorKeepsScanned
  CollectionEnds
