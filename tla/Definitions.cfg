SPECIFICATION Spec
CONSTANTS
  Workflows <- MCWorkflows
  Functions <- MCFunctions
  Mains <- MCMains
  MaxYields = 2
  Faults = {"failed", "transform"}
INVARIANTS
  OutcomesSound
