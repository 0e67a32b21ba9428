SPECIFICATION Spec
CONSTANTS
  MaxTurn = 3
  MaxRepairs = 1
  MaxCrashes = 2
  MaxInterrupts = 2
INVARIANTS
  Recoverable
  BudgetsCover
  OwnAnswers
PROPERTIES
  TakesTurns
  Settles
(* a session that has ended stops *)
CHECK_DEADLOCK FALSE
