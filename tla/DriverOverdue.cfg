SPECIFICATION DriverSpec
CONSTANTS
  Kind <- MCKind
  Timeouts <- MCTimeouts
  MaxYields = 1
  Faults = {"deadline"}
INVARIANTS
  QuotaReports
