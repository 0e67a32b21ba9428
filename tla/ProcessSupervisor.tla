---- MODULE ProcessSupervisor ----
(***************************************************************************)
(* One command under supervision on a POSIX host                           *)
(* (src/tools/process-supervisor.ts, process-runner.ts and                 *)
(* platform/common.ts).  The harness spawns a supervisor that leads a      *)
(* process group; the supervisor spawns the command; the command may leave *)
(* a descendant that holds the command's pipes ("loud") or does not        *)
(* ("quiet").  Everything in the group dies when the group is killed.      *)
(*                                                                         *)
(* A terminal command and a command of the catalog are supervised with     *)
(* different rules: for the first, the group is killed once the command    *)
(* has ended.  A process that leaves the group is outside the model, and   *)
(* so are output and its bounds, exit codes ("completed" is every exit of  *)
(* the command's own), Windows, and the death of the supervisor by another *)
(* hand.                                                                   *)
(***************************************************************************)
EXTENDS Naturals, Sequences

VARIABLES mode,    \* "terminal" or "catalog"
          har,     \* the harness: "up" or "dead"
          abort,   \* the operator or the session has asked to stop
          sup,     \* the supervisor
          cmd,     \* the command
          kid,     \* its descendant
          up,      \* messages of the supervisor not yet read
          start,   \* the START message waits for the supervisor
          said,    \* the report of the exit has left the supervisor
          asked,   \* a termination request is being escalated
          launch,  \* how far the harness is with the launch
          exit,    \* the exit of the command is reported to it
          why,     \* why the harness ends the command
          ending,  \* how far it is with ending the group
          answer   \* what the runner answers

tree == <<sup, cmd, kid, up, start, said, asked>>
runner == <<launch, exit, why, ending, answer>>
procs == <<mode, har, abort, tree, runner>>

Terminal == mode = "terminal"

InitProcs ==
  /\ har = "up" /\ abort = FALSE
  /\ sup = "none" /\ cmd = "none" /\ kid = "none"
  /\ up = <<>> /\ start = FALSE /\ said = FALSE /\ asked = FALSE
  /\ launch = "idle" /\ exit = FALSE /\ why = "none" /\ ending = "no"
  /\ answer = "none"

\* The command or its descendant can still do something.
CommandRuns == cmd = "run" \/ kid \in {"loud", "quiet"}
GroupDead == sup \in {"none", "dead"} /\ ~CommandRuns

\* Nobody survives the kill of the group.
Kill ==
  /\ sup' = "dead"
  /\ cmd' = IF cmd = "run" THEN "gone" ELSE cmd
  /\ kid' = IF kid = "none" THEN "none" ELSE "gone"

KillGroup == Kill /\ UNCHANGED <<up, start, said, asked>>

------------------------------------------------------------------------
\* The supervisor.

Send(m) == up' = Append(up, m)

\* It looks who its parent is every 25 ms, until the command's pipes close.
ParentGone ==
  /\ har = "dead"
  /\ sup \in {"boot", "armed", "given"} \/ (sup = "live" /\ cmd # "closed")
  /\ KillGroup
  /\ UNCHANGED <<mode, har, abort, runner>>

Arm ==
  /\ sup = "boot" /\ har = "up"
  /\ sup' = "armed" /\ Send("ARMED")
  /\ UNCHANGED <<mode, har, abort, cmd, kid, start, said, asked, runner>>

Accept ==
  /\ sup = "armed" /\ start /\ har = "up"
  /\ sup' = "given" /\ start' = FALSE
  /\ UNCHANGED <<mode, har, abort, cmd, kid, up, said, asked, runner>>

\* The spawn succeeds, or the program cannot be started.
Spawn ==
  /\ sup = "given" /\ har = "up"
  /\ sup' = "live"
  /\ \/ cmd' = "run" /\ UNCHANGED up
     \/ cmd' = "unborn" /\ Send("FAILED")
  /\ UNCHANGED <<mode, har, abort, kid, start, said, asked, runner>>

\* STARTED is sent by a timer, so that the exit may be reported before it.
Started == "STARTED" \in {up[k] : k \in 1..Len(up)} \/ launch = "up"

Announce ==
  /\ sup = "live" /\ har = "up" /\ cmd # "unborn" /\ launch = "sent"
  /\ ~Started
  /\ Send("STARTED")
  /\ UNCHANGED <<mode, har, abort, sup, cmd, kid, start, said, asked,
                 runner>>

ReportExit ==
  /\ sup = "live" /\ cmd = "exited"
  /\ cmd' = "told" /\ Send("EXITED")
  /\ UNCHANGED <<mode, har, abort, sup, kid, start, said, asked, runner>>

\* A terminal command's group ends when its pipes are closed and the exit is
\* reported, in either order.
Sent ==
  /\ sup = "live" /\ cmd \in {"told", "closed"} /\ ~said
  /\ IF Terminal /\ cmd = "closed"
       THEN KillGroup
       ELSE said' = TRUE /\ UNCHANGED <<sup, cmd, kid, up, start, asked>>
  /\ UNCHANGED <<mode, har, abort, runner>>

\* Mutant of PipesClose: the group of a terminal command is not ended either.
PipesCloseOnly ==
  /\ sup = "live" /\ cmd = "told" /\ kid # "loud"
  /\ cmd' = "closed" /\ asked' = FALSE
  /\ sup' = "spent"
  /\ UNCHANGED <<kid, up, start, said>>
  /\ UNCHANGED <<mode, har, abort, runner>>

\* From now on nobody watches the parent or holds off a termination request.
PipesClose ==
  /\ sup = "live" /\ cmd = "told" /\ kid # "loud"
  /\ \/ /\ Terminal /\ said
        /\ KillGroup
     \/ /\ ~(Terminal /\ said)
        /\ cmd' = "closed" /\ asked' = FALSE
        /\ sup' = IF Terminal THEN sup ELSE "spent"
        /\ UNCHANGED <<kid, up, start, said>>
  /\ UNCHANGED <<mode, har, abort, runner>>

\* The supervisor of a catalog command ends with the command's exit code.
SupervisorExits ==
  /\ sup = "spent"
  /\ sup' = "dead"
  /\ UNCHANGED <<mode, har, abort, cmd, kid, up, start, said, asked,
                 runner>>

\* A second after the termination request.
Escalate ==
  /\ asked /\ sup = "live"
  /\ KillGroup
  /\ UNCHANGED <<mode, har, abort, runner>>

------------------------------------------------------------------------
\* The command: it may leave a descendant, and end.

LeaveDescendant ==
  /\ cmd = "run" /\ kid = "none"
  /\ kid' \in {"loud", "quiet"}
  /\ UNCHANGED <<mode, har, abort, sup, cmd, up, start, said, asked,
                 runner>>

CommandExits ==
  /\ cmd = "run" /\ sup = "live"
  /\ cmd' = "exited"
  /\ UNCHANGED <<mode, har, abort, sup, kid, up, start, said, asked, runner>>

DescendantExits ==
  /\ kid \in {"loud", "quiet"}
  /\ kid' = "gone"
  /\ UNCHANGED <<mode, har, abort, sup, cmd, up, start, said, asked,
                 runner>>

------------------------------------------------------------------------
\* The harness launches the command.

Launch ==
  /\ launch = "idle"
  /\ \/ /\ abort
        /\ answer' = "cancelled" /\ launch' = "over"
        /\ UNCHANGED <<tree, exit, why, ending>>
     \/ /\ ~abort
        /\ answer' = "spawn_failed" /\ launch' = "over"
        /\ UNCHANGED <<tree, exit, why, ending>>
     \/ /\ ~abort
        /\ sup' = "boot" /\ launch' = "arming"
        /\ UNCHANGED <<cmd, kid, up, start, said, asked, exit, why,
                       ending, answer>>
  /\ UNCHANGED <<mode, har, abort>>

Launching == har = "up" /\ launch \in {"arming", "paying", "sent"}
Hears(m) == har = "up" /\ up # <<>> /\ Head(up) = m /\ up' = Tail(up)

HearArmed ==
  /\ launch = "arming" /\ Hears("ARMED")
  /\ launch' = "paying"
  /\ UNCHANGED <<mode, har, abort, sup, cmd, kid, start, said, asked,
                 exit, why, ending, answer>>

\* The attempt is noted before the message is on its way.
Pay ==
  /\ Launching /\ launch = "paying"
  /\ launch' = "sent" /\ start' = TRUE
  /\ UNCHANGED <<mode, har, abort, sup, cmd, kid, up, said, asked,
                 exit, why, ending, answer>>

HearStarted ==
  /\ launch = "sent" /\ Hears("STARTED")
  /\ launch' = "up"
  /\ UNCHANGED <<mode, har, abort, sup, cmd, kid, start, said, asked,
                 exit, why, ending, answer>>

\* A launch that fails ends the group first and says what may have run.
Fails(reason) ==
  /\ Kill /\ UNCHANGED <<start, said, asked>>
  /\ launch' = "over"
  /\ answer' = IF abort THEN "cancelled" ELSE reason
  /\ UNCHANGED <<mode, har, abort, exit, why, ending>>

\* What is said of a launch that ended without a word of the supervisor.
Attempted == IF launch = "sent" THEN "indeterminate" ELSE "spawn_failed"

LaunchFails ==
  /\ Launching
  /\ \/ Fails(Attempted) /\ UNCHANGED up
     \/ Hears("FAILED") /\ Fails("spawn_failed")

------------------------------------------------------------------------
\* The harness waits for the command's end, or brings it about.

Waiting == har = "up" /\ launch = "up" /\ answer = "none"

\* Without a reason to end the command, the exit says what became of it.
ByExit == IF exit THEN "completed" ELSE "indeterminate"

HearExited ==
  /\ launch \in {"sent", "up"} /\ answer = "none" /\ Hears("EXITED")
  /\ exit' = TRUE
  /\ UNCHANGED <<mode, har, abort, sup, cmd, kid, start, said, asked,
                 launch, why, ending, answer>>

\* SIGTERM reaches the whole group.  The supervisor stays to guard it as long
\* as it listens; the command and its descendant may heed it or not.
Terminated ==
  /\ sup' = IF sup = "live" /\ cmd = "closed" THEN "dead" ELSE sup
  /\ asked' = (sup = "live" /\ cmd # "closed")
  /\ \/ cmd = "run" /\ cmd' = "exited"
     \/ UNCHANGED cmd
  /\ \/ kid \in {"loud", "quiet"} /\ kid' = "gone"
     \/ UNCHANGED kid
  /\ UNCHANGED <<up, start, said>>

\* Once the harness has seen the supervisor's end, it signals nobody any more.
BeginEnding ==
  /\ \/ sup = "dead" /\ ending' = "seen" /\ UNCHANGED tree
     \/ ending' = "term" /\ Terminated
  /\ UNCHANGED <<mode, har, abort, launch, exit, answer>>

\* The time is up or the session stops, and no exit is known yet.  (The runner
\* of the catalog does not listen for the exit of the command.)
EndCommand(reason) ==
  /\ Waiting /\ why = "none" /\ ending = "no"
  /\ Terminal => ~exit
  /\ reason = "cancelled" => abort
  /\ why' = reason
  /\ BeginEnding

\* Mutant of FlushExpires: it waits for the pipes of whoever holds them.
FlushWaits ==
  /\ Waiting /\ Terminal /\ exit /\ why = "none" /\ ending = "no"
  /\ sup = "dead"
  /\ BeginEnding
  /\ UNCHANGED why

\* The exit is known but the pipes stay open.
FlushExpires ==
  /\ Waiting /\ Terminal /\ exit /\ why = "none" /\ ending = "no"
  /\ BeginEnding
  /\ UNCHANGED why

\* The supervisor's pipes are closed or the grace is over: whoever is left of
\* the group is killed.  A terminal command is answered then.
FinishEnding ==
  /\ har = "up"
  /\ \/ ending = "term" /\ KillGroup
     \/ ending = "seen" /\ UNCHANGED tree
  /\ ending' = "done"
  /\ answer' = IF ~Terminal \/ answer # "none" THEN answer
               ELSE IF why # "none" THEN why ELSE ByExit
  /\ UNCHANGED <<mode, har, abort, launch, exit, why>>

\* The supervisor's pipes and its channel are closed.  While the group is being
\* ended, that is what ends the grace, and the kill comes before the answer.
SeeClose ==
  /\ Waiting /\ sup = "dead" /\ up = <<>> /\ ending # "term"
  /\ Terminal => why = "none"
  /\ answer' = CASE why # "none" -> why
                 [] OTHER        -> IF Terminal THEN ByExit ELSE "completed"
  /\ UNCHANGED <<mode, har, abort, tree, launch, exit, why, ending>>

Stop == ~abort /\ abort' = TRUE
        /\ UNCHANGED <<mode, har, tree, runner>>

\* What the harness knew is lost with it, and so is what was under way.
Forget ==
  /\ har = "up" /\ har' = "dead"
  /\ launch' = "idle" /\ exit' = FALSE /\ why' = "none" /\ ending' = "no"
  /\ answer' = "none"
  /\ up' = <<>> /\ start' = FALSE
  /\ UNCHANGED <<mode, abort, said, asked>>

Crash == Forget /\ UNCHANGED <<sup, cmd, kid>>

------------------------------------------------------------------------
Supervise == \/ ParentGone \/ Arm \/ Accept \/ Announce \/ ReportExit
             \/ Sent \/ PipesClose \/ SupervisorExits \/ Escalate

\* Steps of the harness that its event loop or a timer takes in the end.
Run == \/ HearArmed \/ Pay \/ HearStarted \/ HearExited
       \/ LaunchFails \/ EndCommand("timed_out") \/ EndCommand("cancelled")
       \/ FlushExpires \/ FinishEnding \/ SeeClose
====
