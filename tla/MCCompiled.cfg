CONSTANTS
  Programs <- MCPrograms
  Inputs <- MCInputs
SPECIFICATION FairSpec
INVARIANTS
  TypeOK
  CallProtocol
  GlobalTable
PROPERTIES
  ImplementsIR
  FrameIsolation
  Termination
