----------------------------- MODULE PatchEngine -----------------------------
(* One patch transaction over several files of the worktree                 *)
(* (src/repository/patch-engine.ts) and the durable checkpoint that is to   *)
(* undo it (the manifest of src/repository/checkpoint.ts).  The process may *)
(* be lost at every system call, a filesystem operation may fail at every   *)
(* one, and other programs may replace, edit or delete a target meanwhile.  *)
EXTENDS PinnedMutation

CONSTANTS
  Files,          \* the number of changes of the patch
  MaxFaults,      \* failed filesystem operations and manifest writes
  MaxCrashes,     \* losses of the process
  MaxRollbacks    \* rollback commands

ASSUME PatchAssumption ==
  /\ Files \in Nat \ {0}
  /\ {MaxFaults, MaxCrashes, MaxRollbacks} \subseteq Nat

Path == 1..Files

VARIABLES
  kind,     \* [Path -> {"create", "update", "delete"}]: the change
  fam,      \* [Path -> Family]: the worktree
  disk,     \* the checkpoint manifest on disk
  plan,     \* the MutationPlan of every change, in the memory of the patch
  snap,     \* the RollbackSnapshot of every entry, in the memory of a rollback
  pc,       \* where the running program is; at "idle" none runs
  pre,      \* what each target was when the last rollback began
  outcome,  \* how the last program ended
  owed,     \* the files of others that must still exist somewhere
  touched,  \* the paths whose target another program has changed since then
  count     \* the bounds used up

memory == <<plan, snap>>
world == <<kind, pre, owed, touched>>
vars == <<fam, disk, memory, pc, outcome, world, count>>

NewOf(p) == kind[p] # "delete"
OldOf(p) == kind[p] # "create"

NoFile == [n \in Leaf |-> Absent]
Untouched(k) ==
  [at |-> [NoFile EXCEPT !["target"] = IF k = "create" THEN Absent ELSE "orig"],
   open |-> {}, parked |-> [b \in Box |-> NoFile]]

\* The evidence of recordMutationArtifacts: identities once they are known,
\* "planned" while only the bytes are.
NoEvidence == [tmp |-> Absent, bak |-> Absent, probe |-> Absent, box |-> FALSE]

NoPlan == [tmp |-> Absent, bak |-> Absent, probe |-> Absent, box |-> FALSE,
           staged |-> FALSE, backed |-> FALSE, dropped |-> FALSE,
           attempted |-> FALSE, installed |-> FALSE, opened |-> FALSE,
           blocked |-> FALSE]

NoSnapshot == [cur |-> Absent, tmp |-> Absent, bak |-> Absent, ins |-> Absent,
               box |-> FALSE, attempted |-> FALSE, retried |-> FALSE,
               mutated |-> FALSE, seen |-> Absent]

NoCheckpoint == [made |-> FALSE, sealed |-> FALSE, forced |-> FALSE,
                 phase |-> "none", ev |-> [p \in Path |-> NoEvidence],
                 re |-> [p \in Path |-> NoSnapshot]]

Init ==
  /\ kind \in [Path -> {"create", "update", "delete"}]
  /\ fam = [p \in Path |-> Untouched(kind[p])]
  /\ disk = NoCheckpoint
  /\ plan = [p \in Path |-> NoPlan]
  /\ snap = [p \in Path |-> NoSnapshot]
  /\ pc = [at |-> "plan", p |-> 1, then |-> "none"]
  /\ outcome = "none"
  /\ pre = [p \in Path |-> Absent]
  /\ owed = [p \in Path |-> {}]
  /\ touched = {}
  /\ count = [faults |-> 0, crashes |-> 0, rollbacks |-> 0, edits |-> {}]

-----------------------------------------------------------------------------
(* Control *)

At(l) == pc.at = l
Goto(l, p) == pc' = [at |-> l, p |-> p, then |-> "none"]

\* A manifest write comes before the step named then.
Save(l, p, then) == pc' = [at |-> l, p |-> p, then |-> then]

\* The next change, or the step after the last one.
Onward(again, next) ==
  IF pc.p < Files THEN Goto(again, pc.p + 1) ELSE Goto(next, 1)
End(how) ==
  /\ pc' = [at |-> "idle", p |-> 1, then |-> "none"]
  /\ outcome' = how
  /\ plan' = [p \in Path |-> NoPlan] /\ snap' = [p \in Path |-> NoSnapshot]

\* A new file of another program stands at the target in place of the old one.
Replaced(p, e) ==
  /\ owed' = [owed EXCEPT ![p] = (@ \ {fam[p].at["target"]}) \cup {e}]
  /\ touched' = touched \cup {p}

\* One operation in the directory of the current path.
Perform(out) ==
  /\ out.cost = "fault" => count.faults < MaxFaults
  /\ out.cost = "crash" => count.crashes < MaxCrashes
  /\ out.e \notin count.edits
  /\ fam' = [fam EXCEPT ![pc.p] = out.f]
  /\ count' = [count EXCEPT !.faults = @ + IF out.cost = "fault" THEN 1 ELSE 0,
                            !.crashes = @ + IF out.cost = "crash" THEN 1 ELSE 0,
                            !.edits = @ \cup ({out.e} \ {Absent})]
  /\ \/ out.e = Absent /\ UNCHANGED <<owed, touched>>
     \/ out.e # Absent /\ Replaced(pc.p, out.e)
  /\ UNCHANGED <<kind, pre>>

Here == fam[pc.p]
Mine == plan[pc.p]
SetMine(r) == plan' = [plan EXCEPT ![pc.p] = r]

\* The catch of applyPatch.
Throw == Goto("undoTemp", Files) /\ UNCHANGED <<memory, disk, outcome>>

Lost(out) == out.how = "killed" /\ End("lost") /\ UNCHANGED disk
Failed(out) == out.how = "error" /\ Throw

Calculate == UNCHANGED <<fam, world, count>>

-----------------------------------------------------------------------------
(* Reading the manifest *)

\* authenticatedTransactionHardLink: the second name of the target is an
\* artifact whose identity the manifest has.
Twin(p, n, o) == fam[p].at["target"] = o /\ fam[p].at[n] = o

Authentic(p) ==
  LET ev == disk.ev[p]
      re == disk.re[p]
  IN  \/ Twin(p, "new", ev.tmp) \/ Twin(p, "old", ev.bak)
      \/ Twin(p, "probe", ev.probe) \/ Twin(p, "newR", re.tmp)
      \/ Twin(p, "oldR", re.bak)
      \/ Twin(p, "probeR", IF re.tmp # Absent THEN re.tmp ELSE re.cur)

\* loadAndVerify resolves every path: a file with a second name is refused
\* unless that name is authentic.
Resolves(p) ==
  \/ fam[p].at["target"] = Absent
  \/ Links(fam[p]) = 1
  \/ Links(fam[p]) = 2 /\ Authentic(p)

\* isManifest: a rollback stands in the manifest as a whole, with one of its
\* phases, or not at all.
WellFormed ==
  /\ disk.phase \in {"none", "applying", "restored", "reverting", "reverted"}
  /\ disk.phase = "none" => ~ disk.forced /\ \A p \in Path : disk.re[p] = NoSnapshot

Loadable == WellFormed /\ \A p \in Path : Resolves(p)

-----------------------------------------------------------------------------
(* Before the transaction *)

\* The base of the patch is compared by its bytes.
BaseHolds(p) ==
  Contents(fam[p].at["target"]) = IF OldOf(p) THEN "old bytes" ELSE Absent

\* Validation of the changes; nothing has been written when it fails.
PlanChanges ==
  /\ At("plan")
  /\ \/ (\A p \in Path : BaseHolds(p)) /\ Goto("checkpoint", 1)
          /\ UNCHANGED <<outcome, memory>>
     \/ (\E p \in Path : ~ BaseHolds(p)) /\ End("refused")
  /\ UNCHANGED disk /\ Calculate

\* The before-images are stored, compared with the plans again, and the names
\* of the artifacts bound with the bytes they are to have.
CreateCheckpoint ==
  /\ At("checkpoint")
  /\ \/ /\ \A p \in Path : BaseHolds(p)
        /\ disk' = [disk EXCEPT
             !.made = TRUE,
             !.ev = [p \in Path |->
               [NoEvidence EXCEPT !.tmp = IF NewOf(p) THEN "planned" ELSE Absent,
                                  !.probe = "planned"]]]
        /\ Goto("box", 1) /\ UNCHANGED <<outcome, memory>>
     \/ /\ \E p \in Path : ~ BaseHolds(p)
        /\ End("refused") /\ UNCHANGED disk
  /\ Calculate

\* recordMutationArtifacts: what the plans know now, in one atomic rewrite.
Evidence(p) ==
  [tmp |-> IF ~ NewOf(p) THEN Absent
           ELSE IF plan[p].tmp = Absent THEN "planned" ELSE plan[p].tmp,
   bak |-> plan[p].bak,
   probe |-> IF plan[p].probe = Absent THEN "planned" ELSE plan[p].probe,
   box |-> plan[p].box]

\* artifactEvidenceCanAdvance: a planned artifact may be bound to an inode, and
\* what is bound stays so.
CanAdvance(was, is) == is = was \/ was = Absent \/ (was = "planned" /\ is # Absent)

Advances(p) ==
  LET was == disk.ev[p] IN
    /\ CanAdvance(was.tmp, Evidence(p).tmp)
    /\ CanAdvance(was.bak, Evidence(p).bak)
    /\ CanAdvance(was.probe, Evidence(p).probe)
    /\ was.box => Evidence(p).box

Recordable == Loadable /\ \A p \in Path : Advances(p)

RecordArtifacts ==
  /\ At("record")
  /\ \/ /\ Recordable
        /\ disk' = [disk EXCEPT !.ev = [p \in Path |-> Evidence(p)]]
        /\ Goto(pc.then, pc.p)
        /\ UNCHANGED <<memory, outcome, count>>
     \/ ~ Recordable /\ Throw /\ UNCHANGED count
     \/ /\ count.faults < MaxFaults
        /\ count' = [count EXCEPT !.faults = @ + 1] /\ Throw
  /\ UNCHANGED <<fam, world>>

-----------------------------------------------------------------------------
(* commit *)

MakeBox ==
  /\ At("box")
  /\ \E out \in Outcomes(CreateQuarantine(Here, "private")) :
       /\ Perform(out)
       /\ \/ /\ out.how = "done"
             /\ SetMine([Mine EXCEPT !.box = TRUE, !.opened = TRUE])
             /\ IF pc.p < Files THEN Save("record", pc.p + 1, "box")
                ELSE Save("record", 1, "stage")
             /\ UNCHANGED <<snap, disk, outcome>>
          \/ Failed(out)
          \/ Lost(out)

\* The staging loop: all the new files are written before the manifest is.
AfterStage ==
  IF pc.p < Files THEN Goto("stage", pc.p + 1) ELSE Save("record", 1, "probe")

Stage ==
  /\ At("stage")
  /\ \/ /\ ~ NewOf(pc.p) /\ AfterStage
        /\ UNCHANGED <<memory, disk, outcome>> /\ Calculate
     \/ /\ NewOf(pc.p)
        /\ \E out \in Outcomes(Write(Here, "new", "staged")) :
             /\ Perform(out)
             /\ \/ /\ out.how = "done" /\ AfterStage
                   /\ SetMine([Mine EXCEPT !.tmp = "staged", !.staged = TRUE])
                   /\ UNCHANGED <<snap, disk, outcome>>
                \/ Failed(out)
                \/ Lost(out)

\* preflightHardLinkSupport: the inode the probe will have is bound first.
ProbeSource(p) == IF NewOf(p) THEN "new" ELSE "target"

BindProbe ==
  /\ At("probe")
  /\ \/ /\ Here.at[ProbeSource(pc.p)] # Absent
        /\ SetMine([Mine EXCEPT !.probe = IF NewOf(pc.p) THEN "staged"
                                          ELSE Here.at["target"]])
        /\ Save("record", pc.p, "link")
        /\ UNCHANGED <<snap, disk, outcome>>
     \/ Here.at[ProbeSource(pc.p)] = Absent /\ Throw
  /\ Calculate

Probe ==
  /\ At("link")
  /\ LET o == IF NewOf(pc.p) THEN "staged" ELSE "orig"
     IN  \E out \in ProbeOrTidy(Here, "private", ProbeSource(pc.p), "probe", o) :
           /\ Perform(out)
           /\ \/ /\ out.how = "done" /\ Onward("probe", "base")
                 /\ UNCHANGED <<memory, disk, outcome>>
              \/ Failed(out)
              \/ Lost(out)

\* Existence and bytes once more, and the inode the backup will be.
CheckBase ==
  /\ At("base")
  /\ \/ ~ BaseHolds(pc.p) /\ Throw
     \/ /\ BaseHolds(pc.p) /\ OldOf(pc.p)
        /\ SetMine([Mine EXCEPT !.bak = Here.at["target"]])
        /\ Save("record", pc.p, "capture") /\ UNCHANGED <<snap, disk, outcome>>
     \/ /\ BaseHolds(pc.p) /\ ~ OldOf(pc.p) /\ Goto("intend", pc.p)
        /\ UNCHANGED <<memory, disk, outcome>>
  /\ Calculate

\* The handler of a failed capture looks for the copy by its bytes.
CaptureFailed(out) ==
  LET r == Reconcile(out.f, "private", "target", Mine.bak)
  IN  [out EXCEPT !.f = r.last]

CaptureTarget ==
  /\ At("capture")
  /\ \E out \in Outcomes(Capture(Here, "private", "target", "old", Mine.bak)) :
       LET seen == IF out.how = "error" THEN CaptureFailed(out) ELSE out
       IN  /\ Perform(seen)
           /\ \/ /\ out.how = "done"
                 /\ SetMine([Mine EXCEPT !.backed = TRUE])
                 /\ Save("record", pc.p, "check")
                 /\ UNCHANGED <<snap, disk, outcome>>
              \/ /\ out.how = "error"
                 /\ LET r == Reconcile(out.f, "private", "target", Mine.bak)
                    IN  SetMine([Mine EXCEPT !.backed =
                          r.ok /\ Contents(seen.f.at["old"]) = "old bytes"])
                 /\ Goto("undoTemp", Files) /\ UNCHANGED <<snap, disk, outcome>>
              \/ Lost(out)

CheckCapture ==
  /\ At("check")
  /\ \/ /\ Here.at["old"] = Mine.bak
        /\ IF NewOf(pc.p) THEN Goto("intend", pc.p) ELSE Onward("base", "drop")
        /\ UNCHANGED <<memory, disk, outcome>>
     \/ Here.at["old"] # Mine.bak /\ Throw
  /\ Calculate

\* finalInstallAttempted is set in the memory before the manifest is written.
IntendInstall ==
  /\ At("intend")
  /\ SetMine([Mine EXCEPT !.attempted = TRUE])
  /\ Save("record", pc.p, "install")
  /\ UNCHANGED <<snap, disk, outcome>> /\ Calculate

InstallTarget ==
  /\ At("install")
  /\ \E out \in Outcomes(Link(Here, "new", "target", "staged")) :
       /\ Perform(out)
       /\ \/ /\ out.how = "done"
             /\ SetMine([Mine EXCEPT !.installed = TRUE])
             /\ Goto("unstage", pc.p) /\ UNCHANGED <<snap, disk, outcome>>
          \/ /\ out.how = "error"
             /\ SetMine([Mine EXCEPT !.installed = out.f.at["target"] = "staged"])
             /\ Goto("undoTemp", Files) /\ UNCHANGED <<snap, disk, outcome>>
          \/ Lost(out)

Unstage ==
  /\ At("unstage")
  /\ \E out \in RemoveArtifact(Here, "private", "new", "staged") :
       /\ Perform(out)
       /\ \/ /\ out.how = "done"
             /\ SetMine([Mine EXCEPT !.staged = FALSE])
             /\ Onward("base", "drop") /\ UNCHANGED <<snap, disk, outcome>>
          \/ Failed(out)
          \/ Lost(out)

\* The backups go only when every file is in place.
DropBackup ==
  /\ At("drop")
  /\ \/ /\ ~ OldOf(pc.p) /\ Onward("drop", "verify")
        /\ UNCHANGED <<memory, disk, outcome>> /\ Calculate
     \/ /\ OldOf(pc.p) /\ Here.at["old"] # Mine.bak /\ Throw /\ Calculate
     \/ /\ OldOf(pc.p) /\ Here.at["old"] = Mine.bak
        /\ \E out \in RemoveArtifact(Here, "private", "old", Mine.bak) :
             /\ Perform(out)
             /\ \/ /\ out.how = "done"
                   /\ SetMine([Mine EXCEPT !.backed = FALSE, !.dropped = TRUE])
                   /\ Onward("drop", "verify") /\ UNCHANGED <<snap, disk, outcome>>
                \/ Failed(out)
                \/ Lost(out)

ResultHolds(p) == fam[p].at["target"] = IF NewOf(p) THEN "staged" ELSE Absent

VerifyPath ==
  /\ At("verify")
  /\ \/ ResultHolds(pc.p) /\ Onward("verify", "seal")
          /\ UNCHANGED <<memory, disk, outcome>>
     \/ ~ ResultHolds(pc.p) /\ Throw
  /\ Calculate

\* seal replaces the evidence of consumed artifacts by the expected post-state.
Seal ==
  /\ At("seal")
  /\ \/ /\ Loadable
        /\ disk' = [disk EXCEPT
             !.sealed = TRUE,
             !.ev = [p \in Path |-> [disk.ev[p] EXCEPT
                       !.tmp = Absent, !.bak = Absent, !.probe = Absent]]]
        /\ Goto("unbox", 1) /\ UNCHANGED <<memory, outcome, count>>
     \/ ~ Loadable /\ Throw /\ UNCHANGED count
     \/ /\ count.faults < MaxFaults
        /\ count' = [count EXCEPT !.faults = @ + 1] /\ Throw
  /\ UNCHANGED <<fam, world>>

RemoveBox ==
  /\ At("unbox")
  /\ \E out \in Outcomes(RemoveQuarantine(Here, "private")) :
       /\ Perform(out)
       /\ \/ /\ out.how = "done"
             /\ \/ pc.p < Files /\ Goto("unbox", pc.p + 1)
                     /\ UNCHANGED <<memory, outcome>>
                \/ pc.p = Files /\ End("applied")
             /\ UNCHANGED disk
          \/ out.how = "error" /\ End("recovery") /\ UNCHANGED disk
          \/ Lost(out)

-----------------------------------------------------------------------------
(* restorePlans: the changes in reverse, each as far as it will go *)

\* Mutant: a deletion whose backup is gone counts as not begun.
NothingPending == ~ Mine.installed /\ ~ Mine.backed

NothingDone == ~ Mine.installed /\ ~ Mine.backed /\ ~ Mine.dropped

\* An installation that was tried and is not there is left alone.
Deleted == Mine.attempted /\ ~ Mine.installed /\ OldOf(pc.p)

\* The error of one change is kept while the others are restored.
NextUndo == IF pc.p > 1 THEN Goto("undoTemp", pc.p - 1) ELSE Goto("undone", 1)

Blocked ==
  /\ SetMine([Mine EXCEPT !.blocked = TRUE]) /\ NextUndo
  /\ UNCHANGED <<snap, disk, outcome>>

UndoFails(out) == out.how = "error" /\ Blocked

UndoSkips(next) ==
  Goto(next, pc.p) /\ UNCHANGED <<memory, disk, outcome>> /\ Calculate

UndoTemporary ==
  /\ At("undoTemp")
  /\ \/ ~ Mine.staged /\ UndoSkips("undoWhat")
     \/ /\ Mine.staged
        /\ \E out \in RemoveArtifact(Here, "private", "new", Mine.tmp) :
             /\ Perform(out)
             /\ \/ /\ out.how = "done" /\ Goto("undoWhat", pc.p)
                   /\ SetMine([Mine EXCEPT !.staged = FALSE])
                   /\ UNCHANGED <<snap, disk, outcome>>
                \/ UndoFails(out)
                \/ Lost(out)

UndoWhat ==
  /\ At("undoWhat")
  /\ \/ NothingDone /\ UndoSkips("undoBox")
     \/ ~ NothingDone /\ Deleted /\ Blocked /\ Calculate
     \/ ~ NothingDone /\ ~ Deleted /\ Mine.installed /\ UndoSkips("undoInstall")
     \/ ~ NothingDone /\ ~ Deleted /\ ~ Mine.installed /\ UndoSkips("undoCapture")

UndoInstall ==
  /\ At("undoInstall")
  /\ \E out \in Outcomes(Capture(Here, "private", "target", "new", "staged")) :
       /\ Perform(out)
       /\ \/ /\ out.how = "done" /\ Goto("undoCapture", pc.p)
             /\ SetMine([Mine EXCEPT !.staged = TRUE])
             /\ UNCHANGED <<snap, disk, outcome>>
          \/ UndoFails(out)
          \/ Lost(out)

\* The old file by its own inode, or its bytes in a new one.
UndoCapture ==
  /\ At("undoCapture")
  /\ \/ /\ Mine.backed
        /\ \E out \in Install(Here, "old", "target", Mine.bak) :
             /\ Perform(out)
             /\ \/ /\ out.how = "done" /\ Goto("undoBackup", pc.p)
                   /\ UNCHANGED <<memory, disk, outcome>>
                \/ UndoFails(out)
                \/ Lost(out)
     \/ /\ ~ Mine.backed /\ OldOf(pc.p)
        /\ \E out \in Outcomes(Write(Here, "target", "again")) :
             /\ Perform(out)
             /\ \/ /\ out.how = "done" /\ Goto("undoStaged", pc.p)
                   /\ UNCHANGED <<memory, disk, outcome>>
                \/ UndoFails(out)
                \/ Lost(out)
     \/ ~ Mine.backed /\ ~ OldOf(pc.p) /\ UndoSkips("undoStaged")

UndoBackup ==
  /\ At("undoBackup")
  /\ \E out \in RemoveArtifact(Here, "private", "old", Mine.bak) :
       /\ Perform(out)
       /\ \/ /\ out.how = "done" /\ Goto("undoStaged", pc.p)
             /\ SetMine([Mine EXCEPT !.backed = FALSE])
             /\ UNCHANGED <<snap, disk, outcome>>
          \/ UndoFails(out)
          \/ Lost(out)

UndoStaged ==
  /\ At("undoStaged")
  /\ \/ ~ Mine.staged /\ UndoSkips("undoBox")
     \/ /\ Mine.staged
        /\ \E out \in RemoveArtifact(Here, "private", "new", Mine.tmp) :
             /\ Perform(out)
             /\ \/ /\ out.how = "done" /\ Goto("undoBox", pc.p)
                   /\ SetMine([Mine EXCEPT !.staged = FALSE])
                   /\ UNCHANGED <<snap, disk, outcome>>
                \/ UndoFails(out)
                \/ Lost(out)

UndoBox ==
  /\ At("undoBox")
  /\ \/ /\ ~ Mine.opened /\ NextUndo
        /\ UNCHANGED <<memory, disk, outcome>> /\ Calculate
     \/ /\ Mine.opened
        /\ \E out \in Outcomes(RemoveQuarantine(Here, "private")) :
             /\ Perform(out)
             /\ \/ /\ out.how = "done" /\ NextUndo
                   /\ SetMine([Mine EXCEPT !.opened = FALSE])
                   /\ UNCHANGED <<snap, disk, outcome>>
                \/ UndoFails(out)
                \/ Lost(out)

\* The errors are thrown together after the last change.
Undone ==
  /\ At("undone")
  /\ End(IF \E p \in Path : plan[p].blocked THEN "recovery" ELSE "failed")
  /\ UNCHANGED disk /\ Calculate

Patch ==
  \/ PlanChanges \/ CreateCheckpoint \/ RecordArtifacts
  \/ MakeBox \/ Stage
  \/ BindProbe \/ Probe \/ CheckBase \/ CaptureTarget \/ CheckCapture
  \/ IntendInstall \/ InstallTarget \/ Unstage \/ DropBackup \/ VerifyPath
  \/ Seal \/ RemoveBox
  \/ UndoTemporary \/ UndoWhat \/ UndoInstall \/ UndoCapture \/ UndoBackup
  \/ UndoStaged \/ UndoBox \/ Undone
=============================================================================
