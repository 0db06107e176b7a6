\* Every program of three classes, one of them an interface.
CONSTANTS
  Class = {c1, c2, i1}
  Interface = {i1}
  Programs <- MCPrograms
SPECIFICATION FairSpec
INVARIANTS
  TypeOK
  ReadyAfterBootstrap
PROPERTIES
  InitializersRunOnce
  ReferencesAreReady
  BootstrapEnds
\* The bootstrap ends.
CHECK_DEADLOCK FALSE
