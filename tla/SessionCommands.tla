---- MODULE SessionCommands ----
(***************************************************************************)
(* The commands of the CLI on one session (src/cli/commands.ts): run,      *)
(* resume, pause, abort, rollback and status, each in a process of its     *)
(* own, over the files they share: the workspace lock, session.json, the   *)
(* completion report, the audit log, the request file of the operator and  *)
(* the checkpoint.                                                         *)
(*                                                                         *)
(* run and resume own the agent runtime.  Of it this module keeps what     *)
(* moves the session and what stops it; the turns and the tool calls in    *)
(* between are the subject of TurnExchange and ToolExecution.  Every       *)
(* write of session.json and every line of the audit log is a step, may    *)
(* fail, and may be followed by the death of the process.                  *)
(***************************************************************************)
EXTENDS WorkspaceLock, Naturals, FiniteSets, SessionLifecycle

CONSTANTS Commands,     \* the commands each process may be started with
          Resumables,   \* the statuses a dead owner may have left behind
          MaxTroubles,  \* crashes, failing writes and signals together
          MaxEdits

ASSUME BoundAssumption ==
  /\ MaxTroubles \in Nat /\ MaxEdits \in Nat
  /\ Commands \in [Proc -> SUBSET {"run", "resume", "pause", "abort", "rollback", "status"}]
  /\ Resumables \subseteq Status

ASSUME NoneAssumption == None \notin Nat

\* run makes a session of its own, and only one session is looked at here.
ASSUME OneRunAssumption ==
  \A p, q \in Proc : "run" \in Commands[p] \cap Commands[q] => p = q

VARIABLES disk,      \* session.json
          manifest,  \* the runtime manifest is there
          handoff,   \* the completion report in its file
          trail,     \* the audit log
          request,   \* the operator's request file
          restored,  \* the rollback of the checkpoint has been made
          tree,      \* the content of the repository
          cmd, mem,  \* of a process: its command and the session in its memory
          goal,      \* the write it is in the middle of
          handler,   \* where an exception takes it
          log,       \* its audit logs: the command's and the runtime's
          ctl,       \* what it has been asked for, and its monitor
          told,      \* its exit code
          troubles, edits

local == <<cmd, mem, goal, handler, log, ctl, told>>
files == <<disk, manifest, handoff, trail, request, restored, tree>>
counts == <<troubles, edits>>
vars == <<lockVars, local, files, counts>>

------------------------------------------------------------------------------
(* The session, in its file and in memory.                                  *)

Version == 0 .. MaxEdits

\* base: the content the latest recorded effect left; claim: the stored answer
\* of the model is a completion; report: the reference to the handoff.
NoSession == [status |-> "none", report |-> None, base |-> 0, claim |-> FALSE]

Ended(s) == s.status \in TerminalStatus

\* Mutant of Swept: a completed session loses its report too.
SweptAlways(s) == IF Ended(s) THEN None ELSE handoff

\* Every read of an ended session sweeps what an interrupted end left.
Swept(s) == IF Ended(s) /\ s.status # "completed" THEN None ELSE handoff

\* Leaving for a terminal status other than completed drops the reference.
Moved(s, to) ==
  [s EXCEPT !.status = to,
            !.report = IF to \in TerminalStatus \ {"completed"} THEN None ELSE @]

------------------------------------------------------------------------------
(* Control of a process: where it goes after a step or an exception.        *)

NoGoal == [to |-> "none", then |-> "none"]
NoLogs == [cli |-> "none", rt |-> "none"]
Unasked == [req |-> "none", intr |-> "none", mon |-> "off", late |-> FALSE]

Throw(p) == Go(p, handler[p])

\* moveState and move: the state is written, then the event appended.
Move(p, to, then) ==
  /\ CanTransition(mem[p].status, to)
  /\ goal' = [goal EXCEPT ![p] = [to |-> to, then |-> then]]
  /\ Go(p, "write")

Note(p, event, then) ==
  /\ goal' = [goal EXCEPT ![p] = [to |-> event, then |-> then]]
  /\ Go(p, "append")

Exit(p, code) ==
  /\ Go(p, "exited")
  /\ told' = [told EXCEPT ![p] = code]

Stop(p, code) ==
  /\ Go(p, "stop")
  /\ told' = [told EXCEPT ![p] = code]

\* What may go wrong is counted.
Trouble == troubles < MaxTroubles /\ troubles' = troubles + 1

------------------------------------------------------------------------------
(* The writes.                                                              *)

\* The runtime has an audit log of its own, next to the one of its command.
InRuntime(p) == handler[p] \in {"caught", "unwind"}
Log(p) == IF InRuntime(p) THEN "rt" ELSE "cli"

WriteState(p) ==
  /\ At(p, "write")
  /\ mem' = [mem EXCEPT ![p] = Moved(@, goal[p].to)]
  /\ disk' = mem'[p]
  /\ Go(p, "append")
  /\ UNCHANGED <<lock, judged, stolen, cmd, goal, handler, log, ctl, told, manifest,
                 handoff, trail, request, restored, tree, counts>>

WriteFails(p) ==
  /\ At(p, "write")
  /\ Trouble /\ Throw(p)
  /\ UNCHANGED <<lock, judged, stolen, local, files, edits>>

\* The logs that a line of another log leaves behind the end of the file.
Behind(p) ==
  [q \in Proc |-> [l \in {"cli", "rt"} |->
     IF <<q, l>> = <<p, Log(p)>>
       THEN IF log[q][l] = "new" THEN "fresh" ELSE log[q][l]
       ELSE IF log[q][l] = "fresh" THEN "stale" ELSE log[q][l]]]

\* Only a log that has not been read yet looks at the file before it appends.
Unreadable(p) == log[p][Log(p)] = "new" /\ trail.chain # "whole"

Appended(p) ==
  [trail EXCEPT
     !.chain = IF @ = "whole" /\ log[p][Log(p)] = "stale" THEN "forked" ELSE @,
     !.from = IF goal[p].to = "undone" THEN mem[p].status ELSE @,
     !.undos = IF goal[p].to = "undone" THEN @ + 1 ELSE @,
     !.ended = @ \/ goal[p].to \in {"rolled_back", "ended"}]

\* A command that ends the session clears its source artifacts and report,
\* whether the line was appended or not.
Clears(p) == goal[p].to \in TerminalStatus /\ ~InRuntime(p)

AppendEvent(p) ==
  /\ At(p, "append") /\ ~Unreadable(p)
  /\ trail' = Appended(p)
  /\ log' = Behind(p)
  /\ Go(p, IF Clears(p) THEN "clear" ELSE goal[p].then)
  /\ UNCHANGED <<lock, judged, stolen, cmd, mem, goal, handler, ctl, told, disk,
                 manifest, handoff, request, restored, tree, counts>>

\* A line that is cut short stays in the file.
AppendFails(p) ==
  /\ At(p, "append")
  /\ \/ Unreadable(p) /\ UNCHANGED <<trail, troubles>>
     \/ /\ ~Unreadable(p) /\ Trouble
        /\ \/ UNCHANGED trail
           \/ trail' = [trail EXCEPT !.chain = IF @ = "whole" THEN "cut" ELSE @]
  /\ goal' = [goal EXCEPT ![p].then = handler[p]]
  /\ Go(p, IF Clears(p) THEN "clear" ELSE handler[p])
  /\ UNCHANGED <<lock, judged, stolen, cmd, mem, handler, log, ctl, told, disk,
                 manifest, handoff, request, restored, tree, edits>>

Clear(p) ==
  /\ At(p, "clear")
  /\ \/ /\ handoff' = IF mem[p].status = "completed" THEN handoff ELSE None
        /\ Go(p, goal[p].then)
        /\ UNCHANGED troubles
     \/ Trouble /\ Throw(p) /\ UNCHANGED handoff
  /\ UNCHANGED <<lock, judged, stolen, local, disk, manifest, trail, request,
                 restored, tree, edits>>

Write(p) == WriteState(p) \/ WriteFails(p) \/ AppendEvent(p) \/ AppendFails(p) \/ Clear(p)

------------------------------------------------------------------------------
(* The operator's request: its writer, its reader, and what it asks of the  *)
(* runtime.                                                                 *)

\* Mutant of Recorded: the first interruption counts, whatever it is.
RecordedFirst(intr, what) == IF intr = "none" THEN what ELSE intr

\* AgentRuntime.recordInterruption: the first one counts, but an abort wins.
Recorded(intr, what) == IF intr = "none" \/ what = "abort" THEN what ELSE intr

Bound(p) == InRuntime(p)

\* The session's fate is settled: what is asked now comes too late.
Settled(p) ==
  \/ Ended(mem[p])
  \/ pc[p] \in {"write", "append"} /\ goal[p].to \in TerminalStatus
  \/ pc[p] \in {"result", "report", "failed", "stop", "release"}

Ask(p, what, mon) ==
  ctl' = [ctl EXCEPT ![p] =
            [req  |-> IF @.req = "abort" THEN @.req ELSE what,
             intr |-> IF Bound(p) /\ (@.req # "abort" \/ what = "abort")
                        THEN Recorded(@.intr, what) ELSE @.intr,
             mon  |-> mon,
             late |-> @.late \/ (what = "abort" /\ Settled(p))]]

ReadRequest(p) ==
  /\ ctl[p].mon = "idle" /\ request # "none" /\ ~At(p, "stop")
  /\ ctl' = [ctl EXCEPT ![p].mon = request]
  /\ UNCHANGED <<lockVars, cmd, mem, goal, handler, log, told, files, counts>>

Deliver(p) ==
  /\ ctl[p].mon \in {"pause", "abort"}
  /\ Ask(p, ctl[p].mon, "done")
  /\ UNCHANGED <<lockVars, cmd, mem, goal, handler, log, told, files, counts>>

DropRequest(p) ==
  /\ ctl[p].mon = "done"
  /\ request' = "none"
  /\ ctl' = [ctl EXCEPT ![p].mon = "idle"]
  /\ UNCHANGED <<lockVars, cmd, mem, goal, handler, log, told, disk, manifest,
                 handoff, trail, restored, tree, counts>>

Monitor(p) == ReadRequest(p) \/ Deliver(p) \/ DropRequest(p)

\* SIGINT or SIGTERM at the terminal of run or resume.
Signal(p) ==
  /\ cmd[p] \in {"run", "resume"} /\ pc[p] \notin Outside \cup {"record"}
  /\ ctl[p].req = "none"
  /\ Trouble /\ Ask(p, "pause", ctl[p].mon)
  /\ UNCHANGED <<lockVars, cmd, mem, goal, handler, log, told, files, edits>>

\* A pause leaves the request alone that it read as an abort.
WriteRequest(p) ==
  /\ At(p, "ask")
  /\ Go(p, IF cmd[p] = "pause" /\ request = "abort" THEN "wait" ELSE "rename")
  /\ UNCHANGED <<lock, judged, stolen, local, files, counts>>

RenameRequest(p) ==
  /\ At(p, "rename")
  /\ request' = cmd[p]
  /\ Go(p, "wait")
  /\ UNCHANGED <<lock, judged, stolen, local, disk, manifest, handoff, trail,
                 restored, tree, counts>>

Acknowledged(p) ==
  IF cmd[p] = "abort" THEN disk.status = "aborted"
                      ELSE disk.status = "paused" \/ Ended(disk)

AwaitResult(p) ==
  /\ At(p, "wait")
  /\ handoff' = Swept(disk)
  /\ \/ Acknowledged(p) /\ Exit(p, "ok")
     \/ ~Acknowledged(p) /\ Exit(p, "two")
  /\ UNCHANGED <<lock, judged, stolen, cmd, mem, goal, handler, log, ctl, disk,
                 manifest, trail, request, restored, tree, counts>>

------------------------------------------------------------------------------
(* The commands up to the workspace lock.                                   *)

Begin(p, c) == At(p, "idle") /\ c \in Commands[p] /\ cmd' = [cmd EXCEPT ![p] = c]

\* Every command but run reads the session before it has the lock.
Look(p) == disk # NoSession /\ handoff' = Swept(disk)

Begun(p) == UNCHANGED <<lock, judged, stolen, mem, goal, handler, log, ctl, disk,
                        manifest, trail, request, restored, tree, counts>>

StartRun(p) ==
  /\ Begin(p, "run") /\ disk = NoSession
  /\ Go(p, "open")
  /\ Begun(p) /\ UNCHANGED <<told, handoff>>

\* A session whose startup was cut off is to be aborted, not resumed.
Resumable(s) ==
  ~Ended(s) /\ s.status \notin {"created", "preflight"} /\ manifest

\* It is refused as well when the browser is not the one it was started with.
StartResume(p) ==
  /\ Begin(p, "resume") /\ Look(p)
  /\ \/ Exit(p, "error")
     \/ Resumable(disk) /\ Go(p, "open") /\ UNCHANGED told
  /\ Begun(p)

EndedCode == IF disk.status = "completed" THEN "ok" ELSE "one"

StartControl(p) ==
  /\ Begin(p, "pause") \/ Begin(p, "abort")
  /\ Look(p)
  /\ \/ Ended(disk) /\ Exit(p, EndedCode)
     \/ disk.status = "paused" /\ cmd'[p] = "pause" /\ Exit(p, "ok")
     \/ /\ ~Ended(disk) /\ (disk.status # "paused" \/ cmd'[p] = "abort")
        /\ Go(p, "open") /\ UNCHANGED told
  /\ Begun(p)

StartRollback(p) ==
  /\ Begin(p, "rollback") /\ Look(p)
  /\ Go(p, "open")
  /\ Begun(p) /\ UNCHANGED told

ShowStatus(p) ==
  /\ Begin(p, "status") /\ Look(p)
  /\ Exit(p, IF disk.status = "completed" /\ handoff # disk.report THEN "error" ELSE "ok")
  /\ Begun(p)

\* Only pause and abort have something to say to the owner.
Refused(p) ==
  /\ pc[p] \in {"refused", "stopped"}
  /\ IF At(p, "refused") /\ cmd[p] \in {"pause", "abort"}
       THEN Go(p, "ask") /\ UNCHANGED told
       ELSE Exit(p, "error")
  /\ UNCHANGED <<lock, judged, stolen, cmd, mem, goal, handler, log, ctl, files, counts>>

Start(p) ==
  StartRun(p) \/ StartResume(p) \/ StartControl(p) \/ StartRollback(p)
  \/ ShowStatus(p) \/ Refused(p)

\* What a command has in memory once it has the lock: the session read anew.
Reread(p) == mem' = [mem EXCEPT ![p] = disk] /\ handoff' = Swept(disk)
NewLog(p) == log' = [log EXCEPT ![p].cli = "new"]
Handle(p, place) == handler' = [handler EXCEPT ![p] = place]

------------------------------------------------------------------------------
(* pause, abort and rollback as owners of the workspace.                    *)

Owned(p, c) == At(p, "locked") /\ cmd[p] \in c
Alone(p) == UNCHANGED <<lock, judged, stolen, cmd, ctl, disk, manifest, trail,
                        request, tree, counts>>

ControlOwned(p) ==
  /\ Owned(p, {"pause", "abort"})
  /\ Reread(p) /\ NewLog(p) /\ Handle(p, "failed")
  /\ LET to == IF cmd[p] = "pause" THEN "paused" ELSE "aborted"
     IN \/ Ended(disk) /\ Stop(p, EndedCode) /\ UNCHANGED goal
        \/ /\ ~Ended(disk) /\ to \notin Transitions[disk.status]
           /\ Go(p, "failed") /\ UNCHANGED <<goal, told>>
        \/ /\ ~Ended(disk) /\ to \in Transitions[disk.status]
           /\ goal' = [goal EXCEPT ![p] = [to |-> to, then |-> "done"]]
           /\ Go(p, "write") /\ UNCHANGED told
  /\ Alone(p) /\ UNCHANGED restored

\* The chain is verified first.  The rollback of the checkpoint may be refused;
\* one that was made is found made (CheckpointStore).
RollbackOwned(p) ==
  /\ Owned(p, {"rollback"})
  /\ Reread(p) /\ NewLog(p) /\ Handle(p, "failed")
  /\ \/ trail.chain = "whole" /\ restored' = TRUE /\ Go(p, "announce")
     \/ (trail.chain # "whole" \/ ~restored) /\ Go(p, "failed") /\ UNCHANGED restored
  /\ Alone(p) /\ UNCHANGED <<goal, told>>

\* Mutant of Announced: the log is not searched for an earlier rollback.
NeverAnnounced == FALSE

Announced == trail.undos > 0

\* The event of an earlier, interrupted rollback says which status it undid.
Announce(p) ==
  /\ At(p, "announce")
  /\ \/ ~Announced /\ Note(p, "undone", "invalidate")
     \/ /\ Announced /\ mem[p].status \in {"rolled_back", trail.from}
        /\ Go(p, "invalidate") /\ UNCHANGED goal
     \/ /\ Announced /\ mem[p].status \notin {"rolled_back", trail.from}
        /\ Go(p, "failed") /\ UNCHANGED goal
  /\ Alone(p) /\ UNCHANGED <<mem, handler, log, told, handoff, restored>>

Invalidate(p) ==
  /\ At(p, "invalidate")
  /\ \/ mem[p].status # "rolled_back" /\ Move(p, "rolled_back", "conclude")
     \/ mem[p].status = "rolled_back" /\ Go(p, "conclude") /\ UNCHANGED goal
  /\ Alone(p) /\ UNCHANGED <<mem, handler, log, told, handoff, restored>>

Conclude(p) ==
  /\ At(p, "conclude")
  /\ \/ trail.chain # "whole" /\ Go(p, "failed") /\ UNCHANGED goal
     \/ trail.chain = "whole" /\ trail.ended /\ Go(p, "done") /\ UNCHANGED goal
     \/ trail.chain = "whole" /\ ~trail.ended /\ Note(p, "ended", "done")
  /\ Alone(p) /\ UNCHANGED <<mem, handler, log, told, handoff, restored>>

Done(p) ==
  /\ At(p, "done") /\ Stop(p, "ok")
  /\ Alone(p) /\ UNCHANGED <<mem, goal, handler, log, handoff, restored>>

Control(p) ==
  ControlOwned(p) \/ RollbackOwned(p) \/ Announce(p) \/ Invalidate(p) \/ Conclude(p) \/ Done(p)

------------------------------------------------------------------------------
(* run and resume up to the runtime.                                        *)

Kept(p) == UNCHANGED <<lock, judged, stolen, cmd, request, restored, tree, edits>>

RunOwned(p) ==
  /\ Owned(p, {"run"})
  /\ Handle(p, "thrown")
  /\ \/ /\ mem' = [mem EXCEPT ![p] = [NoSession EXCEPT !.status = "created"]]
        /\ disk' = mem'[p]
        /\ NewLog(p) /\ Note(p, "note", "created")
        /\ UNCHANGED troubles
     \/ Trouble /\ Go(p, "failed") /\ UNCHANGED <<mem, disk, log, goal>>
  /\ Kept(p) /\ UNCHANGED <<ctl, told, manifest, handoff, trail>>

\* The session is published in the earliest status a resume accepts.
Publish(p) ==
  /\ \/ At(p, "created") /\ Move(p, "preflight", "preflight") /\ UNCHANGED manifest
     \/ At(p, "preflight") /\ Move(p, "grant_pending", "granted") /\ UNCHANGED manifest
     \/ At(p, "granted") /\ manifest' = TRUE /\ Go(p, "approve") /\ UNCHANGED goal
  /\ Kept(p)
  /\ UNCHANGED <<mem, handler, log, ctl, told, disk, handoff, trail, troubles>>

\* The owner before may have ended the session since the first look.
ResumeOwned(p) ==
  /\ Owned(p, {"resume"})
  /\ Reread(p) /\ NewLog(p) /\ Handle(p, "thrown")
  /\ \/ (Ended(disk) \/ trail.chain # "whole") /\ Go(p, "thrown") /\ UNCHANGED goal
     \/ /\ ~Ended(disk) /\ trail.chain = "whole"
        /\ IF disk.status = "grant_pending"
             THEN Go(p, "approve") /\ UNCHANGED goal
             ELSE Note(p, "note", "launch")
  /\ Kept(p) /\ UNCHANGED <<ctl, told, disk, manifest, trail, troubles>>

ApproveGrant(p) ==
  /\ \/ At(p, "approve") /\ Note(p, "note", "approved")
     \/ At(p, "approve") /\ Move(p, "aborted", "declined")
     \/ At(p, "approved")
        /\ Move(p, "transport_starting", IF cmd[p] = "run" THEN "launch" ELSE "recovered")
     \/ At(p, "recovered") /\ Note(p, "note", "launch")
  /\ Kept(p)
  /\ UNCHANGED <<mem, handler, log, ctl, told, disk, manifest, handoff, trail, troubles>>

Declined(p) ==
  /\ At(p, "declined") /\ Stop(p, "two")
  /\ Kept(p) /\ UNCHANGED <<mem, goal, handler, log, ctl, disk, manifest, handoff, trail, troubles>>

\* The monitor runs from here on; what it is told while the page opens waits
\* for the runtime or, when the page does not open, decides how the command ends.
Launch(p) ==
  /\ At(p, "launch")
  /\ \/ ctl[p].mon = "off" /\ ctl' = [ctl EXCEPT ![p].mon = "idle"]
        /\ UNCHANGED <<pc, handler, log>>
     \/ /\ ctl[p].mon # "off" /\ trail.chain = "whole"
        /\ log' = [log EXCEPT ![p].rt = "fresh"]
        /\ Handle(p, "caught") /\ Go(p, "startup")
        /\ ctl' = [ctl EXCEPT ![p].intr = ctl[p].req]
     \/ ctl[p].mon # "off" /\ Go(p, "thrown") /\ UNCHANGED <<handler, log, ctl>>
  /\ Kept(p) /\ UNCHANGED <<mem, goal, told, disk, manifest, handoff, trail, troubles>>

\* The catch of the command.  run goes on with the log it began with, resume
\* makes a new one.
Target(p) ==
  LET req == ctl[p].req
  IN IF req = "pause" THEN "paused"
     ELSE IF req = "abort" THEN "aborted"
     ELSE IF cmd[p] = "run" THEN "failed" ELSE "paused"

\* Mutant of FreshForCatch: resume, too, goes on with the log it began with.
SameForCatch(p) == log

FreshForCatch(p) == IF cmd[p] = "resume" THEN [log EXCEPT ![p].cli = "new"] ELSE log

Thrown(p) ==
  /\ At(p, "thrown")
  /\ Handle(p, "failed")
  /\ IF Target(p) \in Transitions[mem[p].status] /\ mem[p].status # "paused"
       THEN Move(p, Target(p), "failed") /\ log' = FreshForCatch(p)
       ELSE Go(p, "failed") /\ UNCHANGED <<goal, log>>
  /\ Kept(p) /\ UNCHANGED <<mem, ctl, told, disk, manifest, handoff, trail, troubles>>

Failed(p) ==
  /\ At(p, "failed") /\ Stop(p, "error")
  /\ Kept(p) /\ UNCHANGED <<mem, goal, handler, log, ctl, disk, manifest, handoff, trail, troubles>>

\* The last poll is waited for.
StopMonitor(p) ==
  /\ At(p, "stop") /\ ctl[p].mon \in {"off", "idle"}
  /\ ctl' = [ctl EXCEPT ![p].mon = "off"]
  /\ Go(p, "release")
  /\ Kept(p) /\ UNCHANGED <<mem, goal, handler, log, told, disk, manifest, handoff, trail, troubles>>

Compose(p) ==
  RunOwned(p) \/ Publish(p) \/ ResumeOwned(p) \/ ApproveGrant(p) \/ Declined(p)
  \/ Launch(p) \/ Thrown(p) \/ Failed(p) \/ StopMonitor(p)

------------------------------------------------------------------------------
(* The runtime.                                                             *)

Inside(p) == Kept(p) /\ UNCHANGED <<told, manifest, trail, log>>
Interrupted(p) == ctl[p].intr # "none"
FinishNow(p) == Interrupted(p) /\ Go(p, "finish") /\ UNCHANGED goal

\* A session in any other status is not moved.
StartupMove(s) ==
  CASE s = "grant_pending" -> "transport_starting"
    [] s = "transport_starting" -> "initializing_model"
    [] s \in {"paused", "executing_tools", "returning_results", "awaiting_user",
             "validating_completion"} -> "recovering"
    [] s \in {"initializing_model", "recovering"} -> "awaiting_model"
    [] OTHER -> s

\* A mutation of unknown outcome pauses the session again (ToolExecution).
Startup(p) ==
  /\ At(p, "startup")
  /\ \/ mem[p].status # "awaiting_model" /\ Move(p, StartupMove(mem[p].status), "startup")
     \/ mem[p].status \in {"initializing_model", "recovering", "awaiting_model"}
        /\ Go(p, "finish") /\ UNCHANGED goal
     \/ mem[p].status = "awaiting_model" /\ Go(p, "work") /\ UNCHANGED goal
  /\ Inside(p) /\ UNCHANGED <<mem, handler, ctl, disk, handoff, troubles>>

\* One persist of the session as it is in memory.
Persist(p, s, then) ==
  \/ /\ mem' = [mem EXCEPT ![p] = s] /\ disk' = s
     /\ Go(p, then) /\ UNCHANGED troubles
  \/ Trouble /\ mem' = [mem EXCEPT ![p] = s] /\ Throw(p) /\ UNCHANGED disk

\* A tool call records the content it leaves; an answer that claims completion
\* is stored before it is looked at, and looked at again by a resumed session.
Work(p) ==
  /\ At(p, "work") /\ ~Interrupted(p) /\ ~mem[p].claim
  /\ \/ mem[p].base # tree /\ Persist(p, [mem[p] EXCEPT !.base = tree], "work") /\ UNCHANGED goal
     \/ Persist(p, [mem[p] EXCEPT !.claim = TRUE], "work") /\ UNCHANGED goal
     \/ Move(p, "blocked", "result") /\ UNCHANGED <<mem, disk, troubles>>
     \/ \E error \in {"caught", "halted"} : Go(p, error) /\ UNCHANGED <<mem, disk, goal, troubles>>
  /\ Inside(p) /\ UNCHANGED <<handler, ctl, handoff>>

Claim(p) ==
  /\ At(p, "work") /\ ~Interrupted(p) /\ mem[p].claim
  /\ Move(p, "validating_completion", "claimed")
  /\ Inside(p) /\ UNCHANGED <<mem, handler, ctl, disk, handoff, troubles>>

\* completion.claimed, and a look at the repository; verifyCompletion may find
\* fault with the claim, and does when the content is not what was recorded.
Inspect(p) ==
  /\ \/ At(p, "claimed") /\ Note(p, "note", "inspect") /\ UNCHANGED mem
     \/ At(p, "inspect") /\ FinishNow(p) /\ UNCHANGED mem
     \/ /\ At(p, "inspect") /\ ~Interrupted(p) /\ tree = mem[p].base
        /\ Go(p, "save") /\ UNCHANGED <<mem, goal>>
     \/ /\ At(p, "inspect") /\ ~Interrupted(p)
        /\ mem' = [mem EXCEPT ![p].report = None]
        /\ Go(p, "saved") /\ UNCHANGED goal
  /\ Inside(p) /\ UNCHANGED <<handler, ctl, disk, handoff, troubles>>

\* A report referred to already must be there and say the same; a new one is
\* written before anything refers to it.
SaveReport(p) ==
  /\ At(p, "save")
  /\ LET s == mem[p]
     IN \/ /\ s.report # None
           /\ Go(p, IF handoff # s.report THEN "halted"
                    ELSE IF s.report # s.base THEN "caught" ELSE "saved")
           /\ UNCHANGED <<mem, handoff, troubles>>
        \/ /\ s.report = None
           /\ handoff' = s.base /\ mem' = [mem EXCEPT ![p].report = s.base]
           /\ Go(p, "saved") /\ UNCHANGED troubles
        \/ s.report = None /\ Trouble /\ Throw(p) /\ UNCHANGED <<mem, handoff>>
  /\ Inside(p) /\ UNCHANGED <<goal, handler, ctl, disk>>

Conclusion(p) ==
  /\ \/ At(p, "saved") /\ FinishNow(p)
     \/ At(p, "saved") /\ ~Interrupted(p) /\ Note(p, "note", "verified")
     \/ At(p, "verified") /\ FinishNow(p)
     \/ At(p, "verified") /\ ~Interrupted(p) /\ mem[p].report # None
        /\ Move(p, "completed", "result")
     \/ At(p, "verified") /\ ~Interrupted(p) /\ mem[p].report = None
        /\ Move(p, "returning_results", "rejected")
     \/ At(p, "rejected") /\ Move(p, "awaiting_model", "answer")
  /\ Inside(p) /\ UNCHANGED <<mem, handler, ctl, disk, handoff, troubles>>

\* The rejection is queued, which retires the answer.
Answer(p) ==
  /\ At(p, "answer")
  /\ Persist(p, [mem[p] EXCEPT !.claim = FALSE], "work")
  /\ Inside(p) /\ UNCHANGED <<goal, handler, ctl, handoff>>

\* The catch of the runtime: an interruption counts more than the error; an
\* indeterminate delivery or a required recovery pauses; all else fails.
Caught(p) ==
  /\ pc[p] \in {"caught", "halted"}
  /\ Handle(p, "unwind")
  /\ \/ Interrupted(p) /\ Go(p, "finish") /\ UNCHANGED goal
     \/ /\ ~Interrupted(p) /\ At(p, "halted") /\ mem[p].status # "paused"
        /\ Go(p, "finish") /\ UNCHANGED goal
     \/ /\ ~Interrupted(p) /\ (At(p, "caught") \/ mem[p].status = "paused")
        /\ IF Ended(mem[p]) THEN Go(p, "result") /\ UNCHANGED goal
                            ELSE Move(p, "failed", "result")
  /\ Inside(p) /\ UNCHANGED <<mem, ctl, disk, handoff, troubles>>

\* pauseWithInterruptionPriority and abort.
Finish(p) ==
  /\ At(p, "finish")
  /\ \/ Ended(mem[p]) /\ Go(p, "result") /\ UNCHANGED goal
     \/ ~Ended(mem[p]) /\ ctl[p].intr = "abort" /\ Move(p, "aborted", "result")
     \/ /\ ctl[p].intr # "abort" /\ mem[p].status = "paused"
        /\ Go(p, "result") /\ UNCHANGED goal
     \/ /\ ~Ended(mem[p]) /\ ctl[p].intr # "abort" /\ mem[p].status # "paused"
        /\ Move(p, "paused", "finish")
  /\ Inside(p) /\ UNCHANGED <<mem, handler, ctl, disk, handoff, troubles>>

Stopping(p) ==
  /\ At(p, "work") /\ FinishNow(p)
  /\ Inside(p) /\ UNCHANGED <<mem, handler, ctl, disk, handoff, troubles>>

\* run's finally: an ended session is cleared on the way out.
Leave(p) ==
  /\ pc[p] \in {"result", "unwind"}
  /\ Handle(p, "thrown")
  /\ LET to == IF At(p, "result") THEN "report" ELSE "thrown"
     IN IF Ended(mem[p])
          THEN Go(p, "clear") /\ goal' = [goal EXCEPT ![p].then = to]
          ELSE Go(p, to) /\ UNCHANGED goal
  /\ Inside(p) /\ UNCHANGED <<mem, ctl, disk, handoff, troubles>>

\* The report is read back and the repository looked at once more.
Report(p) ==
  /\ At(p, "report")
  /\ LET s == mem[p]
     IN IF s.status = "completed" /\ handoff # s.report
          THEN Go(p, "thrown") /\ UNCHANGED told
          ELSE Stop(p, IF s.status = "completed" /\ tree = s.report THEN "ok"
                       ELSE IF s.status = "paused" THEN "two" ELSE "one")
  /\ Kept(p)
  /\ UNCHANGED <<mem, goal, handler, log, ctl, disk, manifest, handoff, trail, troubles>>

Runtime(p) ==
  Startup(p) \/ Work(p) \/ Claim(p) \/ Inspect(p) \/ SaveReport(p) \/ Conclusion(p)
  \/ Answer(p) \/ Caught(p) \/ Finish(p) \/ Stopping(p) \/ Leave(p) \/ Report(p)

------------------------------------------------------------------------------
(* The whole.                                                               *)

\* What a process that has ended leaves of itself.
Forget(p) ==
  /\ mem' = [mem EXCEPT ![p] = NoSession]
  /\ goal' = [goal EXCEPT ![p] = NoGoal]
  /\ handler' = [handler EXCEPT ![p] = "none"]
  /\ log' = [log EXCEPT ![p] = NoLogs]
  /\ ctl' = [ctl EXCEPT ![p] = Unasked]
  /\ cmd' = [cmd EXCEPT ![p] = "none"]
  /\ told' = [told EXCEPT ![p] = "none"]

Crash(p) ==
  /\ Trouble
  /\ Alive(p)
  /\ Go(p, "dead")
  /\ Forget(p) /\ judged' = [judged EXCEPT ![p] = None]
  /\ UNCHANGED <<lock, stolen, files, edits>>

\* Somebody edits the repository; nobody but a runtime and the report of its
\* command looks, so that an edit at another time is one made when they begin.
Edit ==
  /\ edits < MaxEdits
  /\ \E p \in Proc : InRuntime(p) \/ At(p, "report")
  /\ edits' = edits + 1 /\ tree' = edits + 1
  /\ UNCHANGED <<lockVars, local, disk, manifest, handoff, trail, request, restored,
                 troubles>>

Locking(p) ==
  \/ Acquire(p) /\ UNCHANGED <<local, files, counts>>
  \/ ReleaseLock(p) /\ Forget(p) /\ UNCHANGED <<files, counts>>

Step(p) ==
  Start(p) \/ Locking(p) \/ Write(p) \/ Control(p) \/ Compose(p) \/ Runtime(p)
  \/ WriteRequest(p) \/ RenameRequest(p) \/ AwaitResult(p)

Next ==
  \/ \E p \in Proc : Step(p) \/ Monitor(p) \/ Signal(p) \/ Crash(p)
  \/ Edit

\* A session there is not yet, or one left behind: by an owner that died, with
\* its lock, or by one that paused or completed it.
Left(status) ==
  [NoSession EXCEPT !.status = status,
                    !.report = IF status = "completed" THEN 0 ELSE None,
                    !.claim = status = "completed"]

Init ==
  /\ \/ /\ disk = NoSession /\ lock = Free /\ manifest = FALSE
     \/ /\ \E status \in Resumables : disk = Left(status)
        /\ lock = IF disk.status \in {"paused", "completed"}
                    THEN Free ELSE [owner |-> Gone, whole |-> TRUE]
        /\ manifest = TRUE
  /\ handoff = disk.report
  /\ pc = [p \in Proc |-> "idle"]
  /\ judged = [p \in Proc |-> None]
  /\ stolen = FALSE
  /\ trail = [chain |-> "whole", from |-> "none", undos |-> 0, ended |-> FALSE]
  /\ request = "none" /\ restored = FALSE /\ tree = 0
  /\ cmd = [p \in Proc |-> "none"]
  /\ mem = [p \in Proc |-> NoSession]
  /\ goal = [p \in Proc |-> NoGoal]
  /\ handler = [p \in Proc |-> "none"]
  /\ log = [p \in Proc |-> NoLogs]
  /\ ctl = [p \in Proc |-> Unasked]
  /\ told = [p \in Proc |-> "none"]
  /\ troubles = 0 /\ edits = 0

Spec == Init /\ [][Next]_vars

------------------------------------------------------------------------------
(* Properties.                                                              *)

\* The lock of the workspace (store.ts:205-247) keeps all owners but one out,
\* as long as no file is removed in place of the stale one that was judged: a
\* file that has no owner in it yet is nobody's to remove.
OneOwner == ~stolen => Cardinality(Owners) <= 1

\* What an owner moves is the session that is on disk: it read it again when it
\* had the lock, nobody else wrote it since, and a write that failed is taken
\* back in memory too (commands.ts, restoreSessionLifecycle).
OwnerInStep ==
  ~stolen => \A p \in Owners : ~At(p, "record") /\ ~At(p, "locked")
                                 => mem[p].status = disk.status

\* The session has one owner, who works on what is on disk.
Ownership == OneOwner /\ OwnerInStep

\* An abort that reaches run or resume before the session is decided ends it
\* aborted, at whatever place the page, the runtime or a pause stands
\* (DeferredRuntimeControl, recordInterruption, the catch of the command).
AbortDecides ==
  \A p \in Proc :
    At(p, "stop") /\ ctl[p].req = "abort" /\ ~ctl[p].late
      => \/ mem[p].status = "aborted"
         \/ told[p] = "error" /\ (troubles > 0 \/ mem[p].status = "paused")

\* A completed session refers to a report, and the report is there and is the
\* one that was verified (completion-handoff-store.ts, agent-runtime.ts:1279).
ReportKept ==
  disk.status = "completed" /\ ~stolen => disk.report # None /\ handoff = disk.report

\* Of a session that ended otherwise no command that succeeds leaves a report
\* behind, whatever was interrupted before (store.ts:111, terminal-cleanup.ts).
ReportRetired(p) ==
  told'[p] \in {"ok", "one", "two"} \ {told[p]} /\ Ended(disk') /\ disk'.status # "completed"
    => handoff' = None \/ stolen

\* There is a report exactly where there should be one.
ReportTruth == [][ReportKept' /\ \A p \in Proc : ReportRetired(p)]_vars

\* A rollback that reports success has happened, moved the session, and is in
\* the audit log once and with its end, over crashes and repetitions
\* (commands.ts:757-880).
RollbackRecorded ==
  \A p \in Proc :
    At(p, "stop") /\ cmd[p] = "rollback" /\ told[p] = "ok" /\ ~stolen
      => restored /\ disk.status = "rolled_back" /\ trail.undos = 1 /\ trail.ended

\* The two audit logs of one process, and those of the processes that follow
\* each other, do not fork the chain, but for the catch of run, which writes with
\* the log it began with (commands.ts:455).
ChainKept ==
  [][trail.chain = "whole" /\ trail'.chain = "forked"
       => stolen \/ \E p \in Proc : cmd[p] = "run" /\ handler[p] = "failed"]_vars
====
