SPECIFICATION HalfSetUp
CONSTANTS
  Proc = {s1, s2, r1}
  Setup = {s1, s2}
  None = None
  Original = Original
  Attempts = 2
  MaxFaults = 2
INVARIANTS
  MutualExclusion
  NoStrandedSession
PROPERTIES
  NoLostSetup
  PolicyKept
  LockAnswers
(* every command ends *)
CHECK_DEADLOCK FALSE
