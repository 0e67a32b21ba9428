SPECIFICATION Spec
CONSTANTS
  Order <- MCOrder
  Content = {"x", "y"}
  Large = {"g"}
  Worktree <- MCWorktree
  MaxImages = 1
  MaxListed = 1
  Command = {"test", "lint"}
  Required = {"test"}
  AfterLast = TRUE
  Scope = {"f"}
  Claims <- MCClaims
  Effects <- MCEffects
  Authority = {"frozen", "observed"}
  MaxSteps = 4
  MaxCrashes = 1
CHECK_DEADLOCK FALSE
INVARIANT PatchReconcilable
