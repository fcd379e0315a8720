SPECIFICATION Spec
CONSTANTS
  RecursionLimit = 25
  Inputs <- MCInputs
INVARIANTS
  FusionHasEachClass
