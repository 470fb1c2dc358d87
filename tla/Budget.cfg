SPECIFICATION Spec
CHECK_DEADLOCK FALSE
CONSTANTS
  MaxActive = 2
  MaxElements = 2
  MaxPayload = 3
  MaxRecords = 14
  MaxJournal = 12
  CancelBytes = 2
  ConcludeBytes = 1
  EndBytes = 2
  Sizes <- MCSizes
  Lines <- MCLines
INVARIANTS
  EndIsAdmitted
  AlwaysRestorable
