SPECIFICATION Spec
CONSTANTS
  Op <- Mutations
  Tool <- ToolOfMutation
  MaxBatch = 2
  MaxCrashes = 2
  MaxInterrupts = 1
  MaxFaults = 1
  MaxRaises = 1
INVARIANTS
  AtMostOnce
  NotRunMeansNotRun
  NoBlindProgress
  OwedResultsReplayable
  CountersAgree
PROPERTIES
  StatusMovesLegal
(* a session that has ended stops *)
CHECK_DEADLOCK FALSE
