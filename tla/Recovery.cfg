SPECIFICATION FairRecovery
CHECK_DEADLOCK FALSE
CONSTANTS
  Kind <- MCKind
  MaxYields = 1
  MaxHalts = 2
INVARIANTS
  StartedOnce
  NobodyForgotten
PROPERTIES
  HaltsAreInvisible
  Recovers
