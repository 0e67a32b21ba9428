---- MODULE TerminalCommand ----
(***************************************************************************)
(* One call that runs a command, from its request to its answer            *)
(* (src/tools/terminal-executor.ts, tool-host.ts), on the evidence it      *)
(* leaves (src/session/terminal-artifacts.ts, artifact-store.ts), and on   *)
(* what the next process makes of that after a crash.  The command runs    *)
(* under ProcessSupervisor and works on the repository of                  *)
(* WorkspaceObserver; another program, the editor, works on it as well.    *)
(*                                                                         *)
(* A terminal command is bracketed by two observations, each step is put   *)
(* on disk before the next one.  A command of the catalog is bracketed by  *)
(* two statuses, which have to be equal.                                   *)
(***************************************************************************)
EXTENDS WorkspaceObserver, ProcessSupervisor, FiniteSets

CONSTANTS Modes,     \* the commands looked at: "terminal", "catalog" or both
          MaxWork,   \* bound: writes of the command and its descendant
          MaxEdits   \* bound: writes of the editor

VARIABLES pc,       \* how far the call is
          file,     \* the evidence on disk, by kind
          result,   \* the result the call has built and stored
          journal,  \* the status of the call in the journal
          verdict,  \* what the next process takes the evidence for
          lost,     \* the machine lost power
          work, edits,
          before,   \* history: the texts before the call
          foreign   \* history: the paths the editor has written

exec == <<pc, file, result, journal, verdict, lost>>
bounds == <<work, edits, before, foreign>>
vars == <<repo, seen, procs, exec, bounds>>

Kinds == {"request", "pre", "launch", "exit", "post", "result"}
NoResult == [outcome |-> "none", effect |-> Effect("none", {})]

Init ==
  /\ mode \in Modes
  /\ InitProcs
  /\ \E t \in Worktree :
       /\ wt = [p \in Path |-> [text |-> t.files[p], stamp |-> 1]]
       /\ head = [id |-> 1, tree |-> t.tree]
       /\ before = t.files
  /\ objects = {head.tree[p] : p \in Path} \ {Absent}
  /\ hidden = 0
  /\ look = Idle /\ pre = NoObservation /\ post = NoObservation
  /\ pc = IF Terminal THEN "request" ELSE "before"
  /\ file = [k \in Kinds |-> "none"]
  /\ result = NoResult /\ journal = "executing" /\ verdict = "none"
  /\ lost = FALSE
  /\ work = 0 /\ edits = 0 /\ foreign = {}

At(place) == har = "up" /\ pc = place

------------------------------------------------------------------------
\* Evidence: the content is written before the manifest that vouches for it.

\* What becomes of the call when kind k cannot be stored.
Refused(k) ==
  IF k \in {"pre", "launch"} THEN "prelaunch_failed" ELSE "persistence_failed"

Put(k, next) ==
  /\ \/ /\ file[k] = "none"
        /\ file' = [file EXCEPT ![k] = "half"] /\ UNCHANGED pc
     \/ /\ file[k] = "half"
        /\ file' = [file EXCEPT ![k] = "whole"] /\ pc' = next
     \/ /\ file' \in {[file EXCEPT ![k] = s] : s \in {"none", "half"}}
        /\ pc' = Refused(k)
  /\ UNCHANGED <<repo, seen, procs, journal, verdict, lost, bounds>>

PutRequest == At("request") /\ Put("request", "observe") /\ UNCHANGED result

\* The pre-observation, put on disk when it is complete.
ObservePre ==
  /\ At("observe") /\ look.phase = "idle"
  /\ \/ /\ pre.state = "none"
        /\ StartLook("pre") /\ UNCHANGED pc
     \/ /\ pre.state = "unknown"
        /\ pc' = "prelaunch_failed" /\ UNCHANGED look
     \/ /\ pre.state = "complete"
        /\ pc' = "keepPre" /\ UNCHANGED look
  /\ UNCHANGED <<repo, pre, post, procs, file, result, journal, verdict, lost,
                 bounds>>

PutPre == At("keepPre") /\ Put("pre", "receipt") /\ UNCHANGED result
PutLaunch == At("receipt") /\ Put("launch", "run") /\ UNCHANGED result

\* Behind the answer of the runner nothing of the processes matters any more
\* but that answer and who still runs.
Over ==
  /\ exit' = FALSE /\ why' = "none" /\ ending' = "no" /\ abort' = FALSE
  /\ up' = <<>> /\ start' = FALSE /\ said' = FALSE /\ asked' = FALSE
  /\ cmd' = IF cmd \in {"none", "unborn", "run"} THEN cmd ELSE "gone"
  /\ kid' = IF kid = "gone" THEN "none" ELSE kid
  /\ UNCHANGED <<mode, har, sup, launch, answer>>

RunCommand ==
  /\ At("run")
  /\ \/ /\ launch = "idle"
        /\ Launch /\ UNCHANGED pc
     \/ /\ answer # "none"
        /\ pc' = IF Terminal THEN "exit" ELSE "after"
        /\ Over
  /\ UNCHANGED <<repo, seen, file, result, journal, verdict, lost, bounds>>

PutExit == At("exit") /\ Put("exit", "observePost") /\ UNCHANGED result

\* A post-observation that fails is kept as unknown.
ObservePost ==
  /\ At("observePost") /\ look.phase = "idle"
  /\ IF post.state = "none"
       THEN StartLook("post") /\ UNCHANGED pc
       ELSE pc' = "keepPost" /\ UNCHANGED look
  /\ UNCHANGED <<repo, pre, post, procs, file, result, journal, verdict, lost,
                 bounds>>

PutPost == At("keepPost") /\ Put("post", "compare") /\ UNCHANGED result

\* The effect is told by the comparison, which may run out of time.
Tell ==
  /\ At("compare")
  /\ result' \in {[outcome |-> answer, effect |-> Compare],
                  [outcome |-> answer, effect |-> Effect("unknown", {})]}
  /\ pc' = "result"
  /\ UNCHANGED <<repo, seen, procs, file, journal, verdict, lost, bounds>>

PutResult == At("result") /\ Put("result", "answered") /\ UNCHANGED result

------------------------------------------------------------------------
\* A command of the catalog.

LookBefore ==
  /\ At("before") /\ look.phase = "idle"
  /\ \/ /\ pre.state = "none"
        /\ StartLook("before") /\ UNCHANGED pc
     \/ /\ pre.state = "unknown"
        /\ pc' = "prelaunch_failed" /\ UNCHANGED look
     \/ /\ pre.state = "complete"
        /\ pc' = "run" /\ UNCHANGED look
  /\ UNCHANGED <<repo, pre, post, procs, file, result, journal, verdict, lost,
                 bounds>>

\* A repository that changed, or cannot be read, is no answer.
LookAfter ==
  /\ At("after") /\ look.phase = "idle"
  /\ \/ /\ post.state = "none"
        /\ StartLook("after") /\ UNCHANGED <<pc, result>>
     \/ /\ post.state = "unknown"
        /\ pc' = "recovery_required" /\ UNCHANGED <<look, result>>
     \/ /\ post.state = "complete"
        /\ IF Fingerprint(pre.at) = Fingerprint(post.at)
             THEN /\ pc' = "answered"
                  /\ result' = [outcome |-> answer,
                                effect |-> Effect("none", {})]
             ELSE pc' = "recovery_required" /\ UNCHANGED result
        /\ UNCHANGED look
  /\ UNCHANGED <<repo, pre, post, procs, file, journal, verdict, lost, bounds>>

------------------------------------------------------------------------
\* The journal hears of the end of the call.
Ends == {"answered", "prelaunch_failed", "persistence_failed",
         "recovery_required"}

JournalEnd ==
  /\ har = "up" /\ pc \in Ends /\ journal = "executing"
  /\ journal' = CASE pc = "answered"         -> "completed"
                  [] pc = "prelaunch_failed" -> "failed"
                  [] OTHER                   -> "indeterminate"
  /\ UNCHANGED <<repo, seen, procs, pc, file, result, verdict, lost, bounds>>

\* What the next process finds, once each of the records is whole or absent
\* and none is there without those it rests on.
Whole(k) == file[k] = "whole"

ChainBroken ==
  \/ \E k \in Kinds : file[k] = "half"
  \/ Whole("result") /\ \E k \in Kinds : ~Whole(k)
  \/ ~Whole("request") /\ \E k \in Kinds : Whole(k)
  \/ Whole("launch") /\ ~Whole("pre")
  \/ Whole("exit") /\ ~(Whole("pre") /\ Whole("launch"))
  \/ Whole("post") /\ ~(Whole("exit") /\ Whole("launch"))

Inspect ==
  CASE ChainBroken              -> "recovery_required"
    [] ~ChainBroken /\ Whole("result") -> "completed"
    [] ~ChainBroken /\ Whole("exit") /\ ~Whole("result")
                                -> "exit_without_result"
    [] ~ChainBroken /\ Whole("launch") /\ ~Whole("exit")
                                -> "launch_without_exit"
    [] OTHER ->
         CASE journal = "failed"    -> "completed_prelaunch_failure"
           [] journal = "completed" -> "completed_unproven_without_result"
           [] OTHER -> IF Whole("request") THEN "request_without_launch"
                                           ELSE "none_found"

Recover ==
  /\ har = "dead" /\ Terminal /\ verdict = "none"
  /\ verdict' = Inspect
  /\ UNCHANGED <<repo, seen, procs, pc, file, result, journal, lost, bounds>>

\* Mutant of ProvesNoLaunch: a loss of storage is not thought of.
NothingFound ==
  verdict \in {"none_found", "request_without_launch",
               "completed_prelaunch_failure"}

\* Absent receipts prove something only if no storage was lost.
ProvesNoLaunch ==
  /\ ~lost
  /\ verdict \in {"none_found", "request_without_launch",
                  "completed_prelaunch_failure"}

------------------------------------------------------------------------
\* The world.

Works ==
  \/ \E p \in Path, t \in Text : Write(p, t)
  \/ CommitAll
  \/ TouchHidden

CommandWorks ==
  /\ CommandRuns /\ work < MaxWork
  /\ Works
  /\ work' = work + 1
  /\ UNCHANGED <<seen, procs, exec, edits, before, foreign>>

EditorWrites ==
  /\ har = "up" /\ edits < MaxEdits
  /\ \E p \in Path, t \in Text : Write(p, t) /\ foreign' = foreign \cup {p}
  /\ edits' = edits + 1
  /\ UNCHANGED <<seen, procs, exec, work, before>>

\* A stop that is asked for earlier is noticed at the launch or, while the
\* repository is read, ends the reading like its deadline.
Abort == At("run") /\ Stop /\ UNCHANGED <<repo, seen, exec, bounds>>

\* What was observed is lost with the harness unless it is on disk.
Lost ==
  /\ pc' = "crashed"
  /\ look' = Idle /\ pre' = NoObservation /\ post' = NoObservation
  /\ result' = IF Whole("result") THEN result ELSE NoResult
  /\ UNCHANGED <<repo, journal, verdict, bounds>>

Dies == Crash /\ Lost /\ UNCHANGED <<file, lost>>

\* A loss of power ends every process and may take any of the files.
PowerLoss ==
  /\ Terminal
  /\ Forget /\ Kill /\ Lost
  /\ lost' = TRUE
  /\ \E S \in {{k} : k \in Kinds} \cup {Kinds} :
       file' = [k \in Kinds |-> IF k \in S THEN "none" ELSE file[k]]

------------------------------------------------------------------------
Observes == /\ har = "up"
            /\ Collect \/ TimeOut
            /\ UNCHANGED <<procs, exec, bounds>>

Supervises == Supervise /\ UNCHANGED <<repo, seen, exec, bounds>>
Spawns == Spawn /\ UNCHANGED <<repo, seen, exec, bounds>>
CommandMoves == /\ CommandExits \/ LeaveDescendant \/ DescendantExits
                /\ UNCHANGED <<repo, seen, exec, bounds>>
Runs == Run /\ UNCHANGED <<repo, seen, exec, bounds>>

Call == \/ PutRequest \/ ObservePre \/ PutPre \/ PutLaunch \/ RunCommand
        \/ PutExit \/ ObservePost \/ PutPost \/ Tell \/ PutResult
        \/ LookBefore \/ LookAfter \/ JournalEnd

Next == \/ Call \/ Observes \/ Supervises \/ Spawns \/ CommandMoves \/ Runs
        \/ CommandWorks \/ EditorWrites \/ Abort \/ Dies \/ PowerLoss
        \/ Recover

\* The event loop of the harness goes on and its timers run out; so do those
\* of the supervisor.  The command owes nothing.
Fairness == /\ WF_vars(Call) /\ WF_vars(Observes)
            /\ WF_vars(Runs) /\ WF_vars(Supervises) /\ WF_vars(Spawns)

Spec == Init /\ [][Next]_vars /\ Fairness

------------------------------------------------------------------------
Told == pc = "answered" \/ verdict = "completed"

\* When a call is answered, or its stored result is taken over by the next
\* process, nothing of a terminal command runs any more; and if the result
\* claims to know the effect, it names every path that changed and that no
\* other program wrote, whatever was committed, and nothing protected changed.
EffectTold ==
  Told /\ (Terminal \/ kid = "none") =>
    /\ ~CommandRuns
    /\ result.effect.outcome \in {"none", "observed"} =>
         /\ hidden = 0
         /\ \A p \in Path \ foreign :
              wt[p].text # before[p] => p \in result.effect.paths
    /\ result.effect.outcome = "none" => head.id = 1

\* Neither the evidence that is taken for the proof that a command was never
\* launched nor the answer that it could not be started is given for a command
\* that ran.
EvidenceTrue ==
  ProvesNoLaunch \/ answer = "spawn_failed" => cmd \in {"none", "unborn"}

\* Once a terminal command may run, work from before the session that no
\* checkpoint holds can be put back as the command found it.
PreImageKept ==
  Terminal /\ launch # "idle" =>
    \A p \in Baseline \ foreign :
      /\ pre.images[p].text = before[p]
      /\ \/ pre.images[p].kind = "retained"
         \/ pre.images[p].kind = "blob" /\ before[p] \in objects

\* When the harness dies, a supervisor that still lives ends a terminal command
\* with all it has left behind, at whatever point of the launch, of the command
\* or of its end that is.
NoOrphan == (Terminal /\ har = "dead" /\ sup # "dead") ~> GroupDead

\* Every call comes to an end, whatever the command does and whoever holds its
\* pipes, unless the harness dies.
CallEnds == <>(pc \in Ends \/ har = "dead")
====
