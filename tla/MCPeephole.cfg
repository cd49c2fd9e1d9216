CONSTANTS
  IRs <- MCIRs
SPECIFICATION FairSpec
INVARIANTS
  TypeOK
  JumpsLead
  NoJumpToNothing
PROPERTIES
  Stops
