SPECIFICATION FairSpec
CONSTANTS
  Workflows <- MCWorkflows
  Functions <- MCFunctions
  Mains = {"pipeline", "choice", "route", "fan", "caller"}
  MaxYields = 2
  Faults = {"failed", "callTimeout", "elementTimeout", "lost", "transform", "cancel"}
INVARIANTS
  TypeOK
  SlotLimit
  ResultsMatchCalls
  ListsExact
  FailuresRecordedOnce
  OutcomesSound
PROPERTIES
  SettledFinal
  NothingAfterStop
  ImplementsCalls
  Termination
