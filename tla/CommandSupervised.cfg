SPECIFICATION Spec
CONSTANTS
  Modes = {"terminal", "catalog"}
  Order <- OneOrder
  Content = {"a", "b"}
  Baseline = {"f"}
  Large = {"f"}
  Worktree <- OneWorktree
  MaxWork = 0
  MaxEdits = 2
INVARIANTS
  PreImageKept
PROPERTIES
  NoOrphan
  CallEnds
CHECK_DEADLOCK FALSE
