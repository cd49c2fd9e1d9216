CONSTANTS
  IRs <- MCLoopHead
  Programs <- MCLoopHeadCode
  Inputs <- MCInputs
SPECIFICATION OptimisedSpec
INVARIANTS
  SameBehaviour
