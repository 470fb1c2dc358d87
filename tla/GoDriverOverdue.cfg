SPECIFICATION GoSpec
CONSTANTS
  Kind <- MCKind
  Timeouts <- MCTimeouts
  MaxYields = 1
  Capacity = 1
  Faults = {"deadline"}
INVARIANTS
  QuotaReports
