CONSTANTS
  IRs <- MCIRs
  Programs <- MCPrograms
  Inputs <- MCInputs
SPECIFICATION OptimisedSpec
INVARIANTS
  JustifiedIsSafe
  CallsStayLinked
