CONSTANTS
  IRs <- MCIRs
SPECIFICATION Spec
INVARIANTS
  JumpsResolved
  CallsResolved
  LinkedWell
  EntryPoints
