SPECIFICATION Spec
CHECK_DEADLOCK FALSE
CONSTANTS
  p = p
  q = q
  r = r
  Workflows <- NoWorkflows
  Functions <- MCFunctions
  Mains = {}
  FunctionTypes <- MCFunctionTypes
  JudgeTypes <- MCJudges
  TransformTypes <- MCTransforms
  TypeScript <- MCTypeScript
  WorkflowIds = {"u", "v"}
  Inputs <- MCInputs
  Names <- MCNames
  TaskNames = {"t"}
  Foreign <- MCForeign
  Collectors <- MCCollectors
  Outputs <- MCOutputs
  MaxPlacements = 3
  MaxParts = 2
INVARIANTS
  OnlyNamesRefused
  KitKindsAgree
