SPECIFICATION FairSpec
CONSTANTS
  Op <- Batches
  Tool <- ToolOfBatch
  MaxBatch = 2
  MaxCrashes = 1
  MaxInterrupts = 0
  MaxFaults = 0
  MaxRaises = 0
PROPERTIES
  RepliesGetThrough
(* a session that has ended stops *)
CHECK_DEADLOCK FALSE
