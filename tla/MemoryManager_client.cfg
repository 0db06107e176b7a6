\* The exported functions in any order, on WebAssembly as compiled: the
\* bootstrap leaves one byte between the stack and the end of memory.
CONSTANTS
  MemorySize = 72
  RequestSizes = {12, 20}
  FieldOffsets = {8, 16}
  Slots = {s1}
  Platform = "wasm"
  StackTopSkew = 1
SPECIFICATION Spec
INVARIANTS
  TypeOK
  ListsDistinct
  HeapTiled
  MemoryConserved
PROPERTIES
  ImplementsHeap
