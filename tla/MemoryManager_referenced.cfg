\* The unit tests' platform: the collector sees only the blocks.
CONSTANTS
  MemorySize = 56
  RequestSizes = {20}
  FieldOffsets = {8, 16}
  Slots = {s1, s2}
  Platform = "jvm"
  StackTopSkew = 1
SPECIFICATION Spec
PROPERTIES
  CollectorKeepsReferenced
