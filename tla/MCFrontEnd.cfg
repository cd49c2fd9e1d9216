CONSTANT Sources <- MCSources
SPECIFICATION Spec
INVARIANTS
  ReadAsWritten
  GroupedAsWritten
  MeaningKept
  Compiles
CHECK_DEADLOCK FALSE
