---- MODULE MCSessionCommands ----
(* One who runs and resumes, and two who come with the other commands.      *)
EXTENDS SessionCommands, TLC

CONSTANTS owner, operator, third

AllProcs == {owner, operator, third}

EveryCommand ==
  (owner :> {"run", "resume"}) @@ (operator :> {"abort", "resume", "rollback", "status"})
    @@ (third :> {"pause", "rollback"})

LeftBehind == {"awaiting_model", "completed"}

\* What follows the removal of a lock that was not the one judged is not looked
\* at: the properties are about a workspace with one owner.
OneOwnerSoFar == ~stolen

====
