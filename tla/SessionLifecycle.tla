---- MODULE SessionLifecycle ----
(***************************************************************************)
(* The session status machine of src/session/state-machine.ts: which       *)
(* status may follow which, and which statuses end a session.  Every       *)
(* module that moves a session takes its transition relation from here.    *)
(***************************************************************************)

TerminalStatus == {"completed", "rolled_back", "blocked", "aborted", "failed"}

Status ==
  TerminalStatus \cup
  {"created", "preflight", "grant_pending", "transport_starting",
   "initializing_model", "awaiting_model", "executing_tools",
   "returning_results", "awaiting_user", "paused", "validating_completion",
   "recovering"}

\* Every status from transport_starting on can be paused or blocked, ended by
\* the operator or by an error; the rows below list what else it allows.
Stoppable == {"paused", "blocked", "aborted", "failed"}

Transitions ==
  [created               |-> {"preflight", "aborted", "failed"},
   preflight             |-> {"grant_pending", "aborted", "failed"},
   grant_pending         |-> {"transport_starting", "aborted", "failed"},
   transport_starting    |-> {"initializing_model"} \cup Stoppable,
   initializing_model    |-> {"awaiting_model"} \cup Stoppable,
   awaiting_model        |-> {"executing_tools", "awaiting_user", "recovering",
                              "validating_completion"} \cup Stoppable,
   executing_tools       |-> {"returning_results", "awaiting_user", "recovering"}
                               \cup Stoppable,
   returning_results     |-> {"awaiting_model", "recovering"} \cup Stoppable,
   awaiting_user         |-> {"executing_tools", "returning_results",
                              "transport_starting", "recovering"} \cup Stoppable,
   paused                |-> {"recovering", "transport_starting", "aborted", "failed"},
   validating_completion |-> {"completed", "returning_results", "recovering"}
                               \cup Stoppable,
   recovering            |-> {"transport_starting", "awaiting_model",
                              "returning_results"} \cup Stoppable,
   completed             |-> {"rolled_back"},
   blocked               |-> {"rolled_back"},
   aborted               |-> {"rolled_back"},
   failed                |-> {"rolled_back"},
   rolled_back           |-> {}]

\* transitionSession refuses a move to the current status and lets a rollback
\* in from anywhere.
CanTransition(from, to) ==
  from # to /\ (to \in Transitions[from] \/ to = "rolled_back")

====
