SPECIFICATION FairGo
CONSTANTS
  Kind <- MCKind
  Timeouts <- MCTimeouts
  MaxYields = 1
  Capacity = 1
  Faults = {"fail", "arm", "transform", "limits", "payload", "journal", "cancel", "deadline"}
INVARIANTS
  EveryCallAttended
  FetchesMatch
  DurableFirst
  EndsClean
PROPERTIES
  TimeoutsDue
  Ends
