SPECIFICATION FairDriver
CONSTANTS
  Kind <- MCKind
  Timeouts <- MCTimeouts
  MaxYields = 1
  Faults = {"throw", "arm", "transform", "limits", "payload", "journal", "cancel", "deadline"}
INVARIANTS
  CallbacksMatchCalls
  FetchesMatch
  NoZombies
  FailsOnlyOverdue
PROPERTIES
  Closes
