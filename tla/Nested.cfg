SPECIFICATION Spec
CONSTANTS
  Workflows <- MCWorkflows
  Functions <- MCFunctions
  Mains = {"pipeline", "choice", "route", "fan", "caller", "spread", "each"}
  MaxYields = 1
  Faults = {"failed", "callTimeout", "elementTimeout", "lost", "transform", "cancel"}
  KitRuns = 4
  KitDepth = 2
  KitSegments = 2
INVARIANTS
  CompleteRunsDone
  StatesReadable
  PhasesSound
PROPERTIES
  Attributed
