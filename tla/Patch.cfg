SPECIFICATION Spec
CONSTANTS
  Edits = {edit}
  edit = edit
  Files = 2
  MaxFaults = 1
  MaxCrashes = 1
  MaxRollbacks = 2
INVARIANTS
  OthersKept
  PatchAllOrNothing
  RollbackTold
  ReplacedKept
  NotStuck
CHECK_DEADLOCK FALSE
