SPECIFICATION Spec
CONSTANTS
  Modes = {"terminal", "catalog"}
  Order <- MCOrder
  Content = {"a", "b"}
  Baseline = {"f"}
  Large = {"g"}
  Worktree <- MCWorktree
  MaxWork = 2
  MaxEdits = 1
INVARIANTS
  EffectTold
  EvidenceTrue
CHECK_DEADLOCK FALSE
