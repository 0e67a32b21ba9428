SPECIFICATION Spec
CONSTANTS
  owner = owner
  operator = operator
  third = third
  Proc <- AllProcs
  Gone = Gone
  None = None
  Commands <- EveryCommand
  Resumables <- LeftBehind
  MaxTroubles = 1
  MaxEdits = 1
INVARIANTS
  Ownership
  AbortDecides
  RollbackRecorded
PROPERTIES
  ReportTruth
  ChainKept
CONSTRAINT OneOwnerSoFar
CHECK_DEADLOCK FALSE
