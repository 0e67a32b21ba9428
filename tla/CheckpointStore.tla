--------------------------- MODULE CheckpointStore ---------------------------
(* The rollback of a checkpoint (src/repository/checkpoint.ts), and the     *)
(* system of patch, rollback commands and other programs.  Every manifest   *)
(* write of persistRollbackState is a step of its own ("save"): the process *)
(* may be lost before and after it.                                         *)
EXTENDS PatchEngine

MySnap == snap[pc.p]
SetSnap(r) == snap' = [snap EXCEPT ![pc.p] = r]

-----------------------------------------------------------------------------
(* preflightRollback *)

\* rollback [--force]; the decision of the first attempt is kept.
StartRollback(force) ==
  /\ At("idle") /\ outcome # "none" /\ disk.made
  /\ count.rollbacks < MaxRollbacks
  /\ count' = [count EXCEPT !.rollbacks = @ + 1]
  /\ LET forced == IF disk.phase = "none" THEN force ELSE disk.forced
     IN  \/ ~ Loadable /\ End("recovery")
         \/ Loadable /\ ~ disk.sealed /\ ~ forced /\ End("refused")
         \/ /\ Loadable
            /\ disk.sealed \/ forced
            /\ IF disk.phase # "none" THEN Goto("resume", 1)
               ELSE Save("preflight", 1, IF forced THEN "forced" ELSE "plain")
            /\ outcome' = "none" /\ UNCHANGED memory
  /\ UNCHANGED <<fam, disk, world>>

ReconcileNext(r, b, n, o) ==
  IF ~ r.ok \/ o \in {Absent, "planned"} THEN r
  ELSE LET s == Reconcile(r.last, b, n, o)
       IN  [s EXCEPT !.through = @ \cup r.through]

\* Mutant: a target parked by a capture is forgotten.
ReconcileArtifacts(f, ev) ==
  IF ~ ev.box THEN Steps("private" \notin f.open, f, {f})
  ELSE IF "private" \notin f.open THEN Made(f, f)
  ELSE ReconcileNext(
         ReconcileNext(
           ReconcileNext(Made(f, f), "private", "new", ev.tmp),
           "private", "old", ev.bak),
         "private", "probe", ev.probe)

\* reconcileMutationQuarantineState.
ReconcileMutation(f, ev) ==
  IF ~ ev.box THEN Steps("private" \notin f.open, f, {f})
  ELSE IF "private" \notin f.open THEN Made(f, f)
  ELSE ReconcileNext(
         ReconcileNext(
           ReconcileNext(
             ReconcileNext(Made(f, f), "private", "target", ev.bak),
             "private", "new", ev.tmp),
           "private", "old", ev.bak),
         "private", "probe", ev.probe)

\* An artifact is absent or what the manifest announced.
Announced(p, f, n, o) ==
  \/ f.at[n] = Absent
  \/ o # Absent /\ f.at[n] = o
  \/ o = "planned" /\ Contents(f.at[n]) =
       IF NewOf(p) THEN "staged" ELSE "old bytes"

CleanStart(p, f) ==
  /\ Announced(p, f, "new", disk.ev[p].tmp)
  /\ Announced(p, f, "old", disk.ev[p].bak)
  /\ Announced(p, f, "probe", disk.ev[p].probe)
  /\ \A n \in {"newR", "oldR", "probeR"} : f.at[n] = Absent
  /\ "privateR" \notin f.open

PostStateHolds(p, f) == f.at["target"] = IF NewOf(p) THEN "staged" ELSE Absent

\* With force the file at the target is given up, whoever has written it.
Preflight ==
  /\ At("preflight")
  /\ LET r == ReconcileMutation(Here, disk.ev[pc.p])
         f == r.last
         cur == f.at["target"]
         expected == disk.sealed /\ pc.then = "plain" => PostStateHolds(pc.p, f)
     IN  /\ fam' = [fam EXCEPT ![pc.p] = f]
         /\ \/ /\ r.ok => expected /\ ~ CleanStart(pc.p, f)
               /\ End("recovery") /\ UNCHANGED world
            \/ r.ok /\ ~ expected /\ End("refused") /\ UNCHANGED world
            \/ /\ r.ok /\ expected /\ CleanStart(pc.p, f)
               /\ SetSnap([NoSnapshot EXCEPT !.cur = cur])
               /\ pre' = [pre EXCEPT ![pc.p] = cur]
               /\ owed' = [owed EXCEPT ![pc.p] = @ \ {cur}]
               /\ touched' = touched \ {pc.p}
               /\ IF pc.p < Files THEN Save("preflight", pc.p + 1, pc.then)
                  ELSE Save("begin", 1, pc.then)
               /\ UNCHANGED <<plan, outcome, kind>>
  /\ UNCHANGED <<disk, count>>

BeginRollback ==
  /\ At("begin")
  /\ \/ /\ Loadable
        /\ disk' = [disk EXCEPT !.phase = "applying", !.re = snap,
                                !.forced = pc.then = "forced"]
        /\ Goto("boxR", 1) /\ UNCHANGED <<memory, outcome, count>>
     \/ ~ Loadable /\ End("recovery") /\ UNCHANGED <<disk, count>>
     \/ /\ count.faults < MaxFaults
        /\ count' = [count EXCEPT !.faults = @ + 1]
        /\ End("recovery") /\ UNCHANGED disk
  /\ UNCHANGED <<fam, world>>

-----------------------------------------------------------------------------
(* Errors and manifest writes *)

\* While the targets are being restored an error turns the rollback round;
\* later errors leave the rest to the next command.
ThrowR ==
  IF disk.phase = "applying"
  THEN Goto("turn", Files) /\ UNCHANGED <<memory, disk, outcome>>
  ELSE End("recovery") /\ UNCHANGED disk

\* UNSUPPORTED_FILE before any target has moved: the rollback is taken back.
Unsupported ==
  IF disk.phase = "applying" /\ \A p \in Path : ~ snap[p].mutated
  THEN Save("cleanR", 1, "unsupported") /\ UNCHANGED <<memory, disk, outcome>>
  ELSE ThrowR

Stop == End("recovery") /\ UNCHANGED disk
FailedR(out) == out.how = "error" /\ ThrowR
Stopped(out) == out.how = "error" /\ Stop
SkipR(next, p) ==
  Goto(next, p) /\ UNCHANGED <<memory, disk, outcome>> /\ Calculate

\* persistRollbackState; it reads the manifest first.
SaveSnapshots ==
  /\ At("save")
  /\ \/ /\ Loadable
        /\ disk' = [disk EXCEPT !.re = snap]
        /\ Goto(pc.then, pc.p) /\ UNCHANGED <<memory, outcome, count>>
     \/ ~ Loadable /\ Unsupported /\ UNCHANGED count
     \/ /\ count.faults < MaxFaults
        /\ count' = [count EXCEPT !.faults = @ + 1] /\ ThrowR
  /\ UNCHANGED <<fam, world>>

-----------------------------------------------------------------------------
(* restoreManifest *)

MakeBoxR ==
  /\ At("boxR")
  /\ \/ MySnap.box /\ "privateR" \in Here.open /\ SkipR("stageR", pc.p)
     \/ MySnap.box /\ "privateR" \notin Here.open /\ ThrowR /\ Calculate
     \/ /\ ~ MySnap.box
        /\ \E out \in Outcomes(CreateQuarantine(Here, "privateR")) :
             /\ Perform(out)
             /\ \/ /\ out.how = "done"
                   /\ SetSnap([MySnap EXCEPT !.box = TRUE])
                   /\ Save("save", pc.p, "stageR")
                   /\ UNCHANGED <<plan, disk, outcome>>
                \/ FailedR(out)
                \/ Lost(out)

\* The before-image in a new file; a failed write may have succeeded.
Staged(f) ==
  {IF out.how # "error" THEN out ELSE Excused(out, out.f.at["newR"] = "before")
   : out \in Outcomes(Write(f, "newR", "before"))}

AfterStageR(l) ==
  IF pc.p < Files THEN Save(l, pc.p + 1, "boxR") ELSE Save(l, 1, "probeR")

StageR ==
  /\ At("stageR")
  /\ \/ /\ ~ OldOf(pc.p) \/ MySnap.tmp # Absent
        /\ IF pc.p < Files THEN SkipR("boxR", pc.p + 1) ELSE SkipR("probeR", 1)
     \/ /\ OldOf(pc.p) /\ MySnap.tmp = Absent
        /\ \E out \in Staged(Here) :
             /\ Perform(out)
             /\ \/ /\ out.how = "done"
                   /\ SetSnap([MySnap EXCEPT !.tmp = "before"])
                   /\ AfterStageR("save") /\ UNCHANGED <<plan, disk, outcome>>
                \/ FailedR(out)
                \/ Lost(out)

\* Without hard links, and before any target has moved, the rollback is taken
\* back and the error is an ordinary one.
Source == IF MySnap.tmp # Absent THEN MySnap.tmp ELSE MySnap.cur
SourceLeaf == IF MySnap.tmp # Absent THEN "newR" ELSE "target"

ProbeR ==
  /\ At("probeR")
  /\ \/ /\ Source = Absent
        /\ IF pc.p < Files THEN SkipR("probeR", pc.p + 1) ELSE SkipR("bindR", 1)
     \/ /\ Source # Absent
        /\ \E out \in ProbeOrTidy(Here, "privateR", SourceLeaf, "probeR", Source) :
             /\ Perform(out)
             /\ \/ /\ out.how = "done" /\ Onward("probeR", "bindR")
                   /\ UNCHANGED <<memory, disk, outcome>>
                \/ /\ out.how = "error"
                   /\ IF out.f.at[SourceLeaf] = Source THEN Unsupported ELSE ThrowR
                \/ Lost(out)

BindBackupR ==
  /\ At("bindR")
  /\ \/ /\ MySnap.cur # Absent /\ MySnap.bak = Absent
        /\ SetSnap([MySnap EXCEPT !.bak = MySnap.cur])
        /\ Save("save", pc.p, "captureR")
        /\ UNCHANGED <<plan, disk, outcome>> /\ Calculate
     \/ /\ MySnap.cur = Absent \/ MySnap.bak # Absent
        /\ SkipR("intendR", pc.p)

CaptureR ==
  /\ At("captureR")
  /\ \E out \in CaptureOrReconcile(Here, "privateR", "target", "oldR", MySnap.cur) :
       /\ Perform(out)
       /\ \/ /\ out.how = "done"
             /\ SetSnap([MySnap EXCEPT !.mutated = TRUE])
             /\ Save("save", pc.p, "intendR") /\ UNCHANGED <<plan, disk, outcome>>
          \/ FailedR(out)
          \/ Lost(out)

NextR(l) ==
  IF pc.p < Files THEN Save(l, pc.p + 1, "bindR") ELSE Save(l, 1, "verifyR")

\* An installation that was tried and is gone is not repeated.
IntendR ==
  /\ At("intendR")
  /\ \/ /\ MySnap.tmp = Absent \/ MySnap.ins # Absent
        /\ IF pc.p < Files THEN SkipR("bindR", pc.p + 1) ELSE SkipR("verifyR", 1)
     \/ /\ MySnap.tmp # Absent /\ MySnap.ins = Absent /\ MySnap.attempted
        /\ ThrowR /\ Calculate
     \/ /\ MySnap.tmp # Absent /\ MySnap.ins = Absent /\ ~ MySnap.attempted
        /\ SetSnap([MySnap EXCEPT !.attempted = TRUE])
        /\ Save("save", pc.p, "installR")
        /\ UNCHANGED <<plan, disk, outcome>> /\ Calculate

InstallR ==
  /\ At("installR")
  /\ \E out \in Install(Here, "newR", "target", MySnap.tmp) :
       /\ Perform(out)
       /\ \/ /\ out.how = "done"
             /\ SetSnap([MySnap EXCEPT !.ins = MySnap.tmp, !.attempted = FALSE,
                                       !.mutated = TRUE])
             /\ NextR("save") /\ UNCHANGED <<plan, disk, outcome>>
          \/ FailedR(out)
          \/ Lost(out)

\* verifyRollbackTargets.
RestoredPath(p) ==
  IF OldOf(p) THEN snap[p].ins # Absent /\ fam[p].at["target"] = snap[p].ins
  ELSE fam[p].at["target"] = Absent

\* Mutant: the backups are removed before the marker is written.
VerifyRUnmarked ==
  /\ At("verifyR") /\ \A p \in Path : RestoredPath(p)
  /\ Save("cleanR", 1, "restored") /\ UNCHANGED <<memory, disk, outcome>>
  /\ Calculate

VerifyR ==
  /\ At("verifyR")
  /\ \/ /\ \A p \in Path : RestoredPath(p)
        /\ IF disk.phase = "restored" THEN Save("cleanR", 1, "restored")
           ELSE Goto("verified", 1)
        /\ UNCHANGED <<memory, disk, outcome>>
     \/ (\E p \in Path : ~ RestoredPath(p)) /\ ThrowR
  /\ Calculate

MarkRestored ==
  /\ At("verified")
  /\ \/ /\ Loadable
        /\ disk' = [disk EXCEPT !.re = snap, !.phase = "restored"]
        /\ Save("cleanR", 1, "restored") /\ UNCHANGED <<memory, outcome, count>>
     \/ ~ Loadable /\ Unsupported /\ UNCHANGED count
     \/ /\ count.faults < MaxFaults
        /\ count' = [count EXCEPT !.faults = @ + 1] /\ ThrowR
  /\ UNCHANGED <<fam, world>>

-----------------------------------------------------------------------------
(* restoreSnapshots: back to the targets before the rollback, in reverse *)

\* The failed rollback, and then the completed return, are made durable.
SavePhase(from, phase, step) ==
  /\ At(from)
  /\ \/ /\ Loadable
        /\ disk' = [disk EXCEPT !.re = snap, !.phase = phase]
        /\ pc' = step /\ UNCHANGED <<memory, outcome, count>>
     \/ ~ Loadable /\ Stop /\ UNCHANGED count
     \/ /\ count.faults < MaxFaults
        /\ count' = [count EXCEPT !.faults = @ + 1] /\ Stop
  /\ UNCHANGED <<fam, world>>

TurnBack ==
  SavePhase("turn", "reverting", [at |-> "revert", p |-> Files, then |-> "none"])

RevertNext(l) ==
  IF pc.p > 1 THEN Save(l, pc.p - 1, "revert") ELSE Save(l, 1, "verifyPre")

Revert ==
  /\ At("revert") /\ Calculate /\ UNCHANGED plan
  /\ LET absent == Here.at["target"] = Absent
         given == MySnap.attempted /\ MySnap.cur # Absent
         step(l) == Goto(l, pc.p) /\ UNCHANGED <<snap, disk, outcome>>
     IN \/ /\ ~ MySnap.mutated /\ UNCHANGED <<snap, disk, outcome>>
           /\ IF pc.p > 1 THEN Goto("revert", pc.p - 1) ELSE Goto("verifyPre", 1)
        \/ MySnap.mutated /\ MySnap.ins = Absent /\ (absent => given) /\ Stop
        \/ /\ MySnap.mutated /\ MySnap.ins = Absent /\ absent /\ ~ given
           /\ step("reinstall")
        \/ /\ MySnap.mutated /\ MySnap.ins # Absent
           /\ step(IF MySnap.tmp = Absent THEN "bindTmp" ELSE "dropTmp")

\* The staged name is freed, then announced again for what is captured there.
DropTmp ==
  /\ At("dropTmp")
  /\ \E out \in RemoveArtifact(Here, "privateR", "newR", MySnap.tmp) :
       /\ Perform(out)
       /\ \/ /\ out.how = "done"
             /\ SetSnap([MySnap EXCEPT !.tmp = Absent])
             /\ Save("save", pc.p, "bindTmp") /\ UNCHANGED <<plan, disk, outcome>>
          \/ Stopped(out)
          \/ Lost(out)

BindTmp ==
  /\ At("bindTmp")
  /\ SetSnap([MySnap EXCEPT !.tmp = MySnap.ins])
  /\ Save("save", pc.p, "recapture")
  /\ UNCHANGED <<plan, disk, outcome>> /\ Calculate

Recapture ==
  /\ At("recapture")
  /\ \E out \in CaptureOrReconcile(Here, "privateR", "target", "newR", MySnap.ins) :
       /\ Perform(out)
       /\ \/ /\ out.how = "done"
             /\ SetSnap([MySnap EXCEPT !.ins = Absent])
             /\ Save("save", pc.p, "reinstall") /\ UNCHANGED <<plan, disk, outcome>>
          \/ Stopped(out)
          \/ Lost(out)

Reinstall ==
  /\ At("reinstall") /\ Calculate
  /\ \/ /\ MySnap.cur = Absent
        /\ SetSnap([MySnap EXCEPT !.mutated = FALSE])
        /\ RevertNext("save") /\ UNCHANGED <<plan, disk, outcome>>
     \/ /\ MySnap.cur # Absent
        /\ MySnap.bak = Absent \/ MySnap.retried
        /\ Stop
     \/ /\ MySnap.cur # Absent /\ MySnap.bak # Absent /\ ~ MySnap.retried
        /\ SetSnap([MySnap EXCEPT !.retried = TRUE])
        /\ Save("save", pc.p, "relink") /\ UNCHANGED <<plan, disk, outcome>>

Relink ==
  /\ At("relink")
  /\ \E out \in Install(Here, "oldR", "target", MySnap.bak) :
       /\ Perform(out)
       /\ \/ /\ out.how = "done"
             /\ SetSnap([MySnap EXCEPT !.retried = FALSE, !.mutated = FALSE])
             /\ RevertNext("save") /\ UNCHANGED <<plan, disk, outcome>>
          \/ Stopped(out)
          \/ Lost(out)

\* verifyPreRollbackTargets.
VerifyPre ==
  /\ At("verifyPre") /\ Calculate
  /\ \/ /\ \A p \in Path : fam[p].at["target"] = snap[p].cur
        /\ IF disk.phase = "reverted" THEN Save("cleanR", 1, "reverted")
           ELSE Goto("returned", 1)
        /\ UNCHANGED <<memory, disk, outcome>>
     \/ (\E p \in Path : fam[p].at["target"] # snap[p].cur) /\ Stop

MarkReverted ==
  SavePhase("returned", "reverted", [at |-> "cleanR", p |-> 1, then |-> "reverted"])

-----------------------------------------------------------------------------
(* cleanupRollbackArtifacts, then cleanupMutationArtifacts *)

Clean(next, p) == Save(next, p, pc.then) /\ UNCHANGED <<memory, disk, outcome>>

CleanProbe ==
  /\ At("cleanR")
  /\ \/ Here.at["probeR"] = Absent /\ Clean("cleanTmp", pc.p) /\ Calculate
     \/ Here.at["probeR"] \notin {Absent, Source} /\ Stop /\ Calculate
     \/ /\ Here.at["probeR"] # Absent /\ Here.at["probeR"] = Source
        /\ \E out \in RemoveArtifact(Here, "privateR", "probeR", Source) :
             /\ Perform(out)
             /\ \/ out.how = "done" /\ Clean("cleanTmp", pc.p)
                \/ Stopped(out)
                \/ Lost(out)

CleanTmp ==
  /\ At("cleanTmp")
  /\ \/ MySnap.tmp = Absent /\ Clean("cleanBak", pc.p) /\ Calculate
     \/ /\ MySnap.tmp # Absent
        /\ \E out \in RemoveArtifact(Here, "privateR", "newR", MySnap.tmp) :
             /\ Perform(out)
             /\ \/ /\ out.how = "done"
                   /\ SetSnap([MySnap EXCEPT !.tmp = Absent])
                   /\ Save("cleanBak", pc.p, pc.then)
                   /\ UNCHANGED <<plan, disk, outcome>>
                \/ Stopped(out)
                \/ Lost(out)

CleanBak ==
  /\ At("cleanBak")
  /\ \/ MySnap.bak = Absent /\ Clean("cleanBox", pc.p) /\ Calculate
     \/ /\ MySnap.bak # Absent
        /\ \E out \in RemoveArtifact(Here, "privateR", "oldR", MySnap.bak) :
             /\ Perform(out)
             /\ \/ /\ out.how = "done"
                   /\ SetSnap([MySnap EXCEPT !.bak = Absent])
                   /\ Save("cleanBox", pc.p, pc.then)
                   /\ UNCHANGED <<plan, disk, outcome>>
                \/ Stopped(out)
                \/ Lost(out)

\* Mutant: the artifacts of the patch itself are left where they are.
AfterCleanROnly ==
  IF pc.p < Files THEN Save("cleanR", pc.p + 1, pc.then)
  ELSE Save("clear", 1, pc.then)

AfterCleanR ==
  IF pc.p < Files THEN Save("cleanR", pc.p + 1, pc.then)
  ELSE Save(IF pc.then = "restored" THEN "cleanM" ELSE "clear", 1, pc.then)

CleanBox ==
  /\ At("cleanBox")
  /\ \/ /\ ~ MySnap.box /\ "privateR" \notin Here.open
        /\ AfterCleanR /\ UNCHANGED <<memory, disk, outcome>> /\ Calculate
     \/ ~ MySnap.box /\ "privateR" \in Here.open /\ Stop /\ Calculate
     \/ /\ MySnap.box
        /\ \E out \in Outcomes(RemoveQuarantine(Here, "privateR")) :
             /\ Perform(out)
             /\ \/ /\ out.how = "done"
                   /\ SetSnap([MySnap EXCEPT !.box = FALSE])
                   /\ AfterCleanR /\ UNCHANGED <<plan, disk, outcome>>
                \/ Stopped(out)
                \/ Lost(out)

\* clearRollbackState forgets the rollback, so that another can be tried.
ClearRollback ==
  /\ At("clear")
  /\ \/ /\ Loadable
        /\ disk' = [disk EXCEPT !.phase = "none", !.forced = FALSE,
                                !.re = [p \in Path |-> NoSnapshot]]
        /\ End(pc.then) /\ UNCHANGED count
     \/ ~ Loadable /\ Stop /\ UNCHANGED count
     \/ /\ count.faults < MaxFaults
        /\ count' = [count EXCEPT !.faults = @ + 1] /\ Stop
  /\ UNCHANGED <<fam, world>>

CleanMutation ==
  /\ At("cleanM")
  /\ \E out \in Outcomes(ReconcileMutation(Here, disk.ev[pc.p])) :
       /\ Perform(out)
       /\ \/ out.how = "done" /\ Clean("cleanNew", pc.p)
          \/ Stopped(out)
          \/ Lost(out)

\* cleanupRecordedArtifact.
CleanLeaf(l, n, evidence, next) ==
  /\ At(l)
  /\ \/ Here.at[n] = Absent /\ Clean(next, pc.p) /\ Calculate
     \/ ~ Announced(pc.p, Here, n, evidence) /\ Stop /\ Calculate
     \/ /\ Here.at[n] # Absent /\ Announced(pc.p, Here, n, evidence)
        /\ \E out \in RemoveArtifact(Here, "private", n, Here.at[n]) :
             /\ Perform(out)
             /\ \/ out.how = "done" /\ Clean(next, pc.p)
                \/ Stopped(out)
                \/ Lost(out)

CleanArtifacts ==
  \/ CleanLeaf("cleanNew", "new", disk.ev[pc.p].tmp, "cleanOld")
  \/ CleanLeaf("cleanOld", "old", disk.ev[pc.p].bak, "cleanLink")
  \/ CleanLeaf("cleanLink", "probe", disk.ev[pc.p].probe, "cleanLast")

\* The checkpoint keeps its marker "restored", so that a retry changes nothing.
CleanLast ==
  /\ At("cleanLast")
  /\ LET done == IF pc.p < Files
                 THEN Save("cleanM", pc.p + 1, pc.then) /\ UNCHANGED <<memory, outcome>>
                 ELSE End("restored")
     IN \/ "private" \notin Here.open /\ done /\ UNCHANGED disk /\ Calculate
        \/ /\ "private" \in Here.open
           /\ \E out \in Outcomes(RemoveQuarantine(Here, "private")) :
                /\ Perform(out)
                /\ \/ out.how = "done" /\ done /\ UNCHANGED disk
                   \/ Stopped(out)
                   \/ Lost(out)

-----------------------------------------------------------------------------
(* resumeRollback: the snapshots are made again from the manifest and the   *)
(* worktree, path by path                                                   *)

Recorded == disk.re[pc.p]
Over == disk.phase \in {"restored", "reverted"}
Turned == disk.phase \in {"reverting", "reverted"}

\* The box may be gone only when the rollback is over; what a removal left in
\* it is put back or unlinked.
ResumeBox ==
  /\ At("resume")
  /\ LET box == Recorded.box /\ "privateR" \in Here.open
         removal == CASE disk.phase = "applying" -> Recorded.cur
                      [] Turned -> Recorded.ins
                      [] OTHER -> Absent
         probe == IF Recorded.tmp # Absent THEN Recorded.tmp ELSE Recorded.cur
         r == IF ~ box
              THEN Steps("privateR" \notin Here.open /\ (Recorded.box => Over),
                         Here, {Here})
              ELSE ReconcileNext(
                     ReconcileNext(
                       ReconcileNext(
                         ReconcileNext(Made(Here, Here), "privateR", "target", removal),
                         "privateR", "newR", Recorded.tmp),
                       "privateR", "oldR", Recorded.bak),
                     "privateR", "probeR", probe)
     IN  \E out \in Outcomes(r) :
           /\ Perform(out)
           /\ \/ /\ out.how = "done"
                 /\ SetSnap([Recorded EXCEPT !.box = box])
                 /\ Goto("resumeTwin", pc.p) /\ UNCHANGED <<plan, disk, outcome>>
              \/ Stopped(out)
              \/ Lost(out)

\* readRollbackArtifact: what is there must be what was recorded, or have the
\* bytes that were to be written; bytes # Absent says there are such.
ArtifactFits(o, recorded, bytes, mayLack) ==
  \/ o = Absent /\ (recorded = Absent \/ mayLack)
  \/ o # Absent /\ recorded # Absent /\ o = recorded
  \/ o # Absent /\ recorded = Absent /\ bytes # Absent
       /\ Contents(o) = Contents(bytes)

\* A capture cut short after its link has left the file under both names.
ResumeTwin ==
  /\ At("resumeTwin")
  /\ LET seen == Here.at["target"]
         tmp == Here.at["newR"]
         bak == Here.at["oldR"]
         fits ==
           /\ ArtifactFits(tmp, Recorded.tmp, IF OldOf(pc.p) THEN "before" ELSE Absent,
                           Over \/ (disk.phase = "reverting" /\ seen = Recorded.tmp))
           /\ ArtifactFits(bak, Recorded.bak, Recorded.cur,
                           Over \/ (disk.phase = "applying" /\ seen = Recorded.cur))
         cut == /\ seen # Absent
                /\ \/ disk.phase = "applying" /\ seen = Recorded.cur /\ seen = bak
                   \/ disk.phase = "reverting" /\ seen = Recorded.ins /\ seen = tmp
         read(o) == SetSnap([MySnap EXCEPT !.tmp = tmp, !.bak = bak, !.seen = o])
     IN \/ ~ fits /\ Stop /\ Calculate
        \/ /\ fits /\ ~ cut /\ Calculate
           /\ read(seen) /\ Goto("resumeProbe", pc.p)
           /\ UNCHANGED <<plan, disk, outcome>>
        \/ /\ fits /\ cut
           /\ \E out \in RemoveArtifact(Here, "privateR", "target", seen) :
                /\ Perform(out)
                /\ \/ /\ out.how = "done" /\ out.f.at["target"] = Absent
                      /\ read(Absent) /\ Goto("resumeProbe", pc.p)
                      /\ UNCHANGED <<plan, disk, outcome>>
                   \/ out.how = "done" /\ out.f.at["target"] # Absent /\ Stop
                   \/ Stopped(out)
                   \/ Lost(out)

\* The target before the rollback, in its backup or still in its place.
Found == IF Recorded.cur \in {MySnap.bak, MySnap.seen} THEN Recorded.cur ELSE Absent

ResumeProbe ==
  /\ At("resumeProbe")
  /\ LET source == IF MySnap.tmp # Absent THEN MySnap.tmp ELSE Found
         probe == Here.at["probeR"]
         next == /\ SetSnap([MySnap EXCEPT !.cur = Found])
                 /\ Goto("resumeEntry", pc.p) /\ UNCHANGED <<plan, disk, outcome>>
         known == Recorded.cur # Absent /\ ~ Over => Found # Absent
     IN \/ known /\ probe = Absent /\ next /\ Calculate
        \/ (known => probe \notin {Absent, source}) /\ Stop /\ Calculate
        \/ /\ known /\ probe # Absent /\ probe = source
           /\ \E out \in RemoveArtifact(Here, "privateR", "probeR", probe) :
                /\ Perform(out)
                /\ \/ out.how = "done" /\ next
                   \/ Stopped(out)
                   \/ Lost(out)

\* Which step of the rollback the target and the artifacts are the state of.
ResumeEntry ==
  /\ At("resumeEntry") /\ Calculate
  /\ LET target == MySnap.seen
         tmp == MySnap.tmp
         cur == MySnap.cur
         rec == Recorded
         gone == disk.phase = "restored" /\ ~ OldOf(pc.p) /\ target = Absent
         back == /\ ~ gone /\ Turned
                 /\ \/ cur # Absent /\ target = cur
                    \/ /\ rec.cur = Absent /\ target = Absent
                       /\ tmp # Absent /\ tmp = rec.ins
         ins == IF ~ gone /\ ~ back /\ target # Absent /\ target \in {rec.ins, tmp}
                THEN target ELSE Absent
         known == \/ gone \/ back \/ ins # Absent
                  \/ MySnap.bak # Absent /\ target = Absent
                  \/ cur # Absent /\ target = cur /\ MySnap.bak = Absent
                  \/ rec.cur = Absent /\ target = Absent /\ MySnap.bak = Absent
         proven == rec.ins # Absent =>
                     \/ ins = rec.ins
                     \/ /\ disk.phase = "reverting" /\ tmp = rec.ins
                        /\ back \/ target = Absent
     IN \/ ~ (known /\ proven) /\ Stop
        \/ /\ known /\ proven
           /\ SetSnap([MySnap EXCEPT
                !.ins = ins, !.seen = Absent,
                !.attempted = rec.attempted /\ ins = Absent,
                !.retried = rec.retried /\ ~ back,
                !.mutated = /\ ~ back
                            /\ \/ MySnap.bak # Absent \/ ins # Absent
                               \/ rec.attempted])
           /\ IF pc.p < Files THEN Goto("resume", pc.p + 1)
              ELSE CASE disk.phase = "applying"  -> Goto("boxR", 1)
                     [] disk.phase = "restored"  -> Goto("verifyR", 1)
                     [] disk.phase = "reverting" -> Goto("revert", Files)
                     [] disk.phase = "reverted"  -> Goto("verifyPre", 1)
           /\ UNCHANGED <<plan, disk, outcome>>

-----------------------------------------------------------------------------
(* Other programs and the whole system *)

\* An editor puts a new file there, writes into the one that is there under
\* all its names, or deletes it.
Rewritten(at, o, e) == [n \in Leaf |-> IF at[n] = o THEN e ELSE at[n]]

Overwrite(f, e) ==
  LET o == f.at["target"]
  IN  [f EXCEPT !.at = Rewritten(@, o, e),
                !.parked = [b \in Box |-> Rewritten(f.parked[b], o, e)]]

Edited(p, e) ==
  \/ /\ \/ fam' = [fam EXCEPT ![p] = Put(fam[p], "target", e)]
        \/ /\ fam[p].at["target"] # Absent
           /\ fam' = [fam EXCEPT ![p] = Overwrite(fam[p], e)]
     /\ Replaced(p, e)
  \/ /\ fam[p].at["target"] # Absent
     /\ fam' = [fam EXCEPT ![p] = Put(fam[p], "target", Absent)]
     /\ owed' = [owed EXCEPT ![p] = @ \ {fam[p].at["target"]}]
     /\ touched' = touched \cup {p}

Disturb(p) ==
  /\ \E e \in Edits \ count.edits :
       Edited(p, e) /\ count' = [count EXCEPT !.edits = @ \cup {e}]
  /\ UNCHANGED <<disk, memory, pc, outcome, kind, pre>>

Rollback ==
  \/ \E force \in BOOLEAN : StartRollback(force)
  \/ Preflight \/ BeginRollback \/ SaveSnapshots
  \/ MakeBoxR \/ StageR \/ ProbeR \/ BindBackupR \/ CaptureR
  \/ IntendR \/ InstallR \/ VerifyR \/ MarkRestored
  \/ TurnBack \/ Revert \/ DropTmp \/ BindTmp \/ Recapture \/ Reinstall
  \/ Relink \/ VerifyPre \/ MarkReverted
  \/ CleanProbe \/ CleanTmp \/ CleanBak \/ CleanBox \/ ClearRollback
  \/ CleanMutation \/ CleanArtifacts \/ CleanLast
  \/ ResumeBox \/ ResumeTwin \/ ResumeProbe \/ ResumeEntry

Next == Patch \/ Rollback \/ \E p \in Path : Disturb(p)

Spec == Init /\ [][Next]_vars

-----------------------------------------------------------------------------
(* Properties *)

\* No file of another program is ever lost: it stays under some name, of the
\* target, of an artifact or inside a private directory, until a rollback
\* with --force gives it up.
OthersKept == \A p \in Path : \A e \in owed[p] : Held(fam[p], e)

Calm == At("idle")
Bare(p, names) == \A n \in names : fam[p].at[n] = Absent
Original(p) == Contents(fam[p].at["target"]) = IF OldOf(p) THEN "old bytes" ELSE Absent

\* A patch that reports success has changed every file, one that reports a
\* plain failure none.  Success leaves nothing else behind, nor does failure
\* unless a call failed after its work was done.
PatchAllOrNothing ==
  /\ Calm /\ outcome = "applied" =>
       \A p \in Path \ touched :
         ResultHolds(p) /\ Bare(p, Leaf \ {"target"}) /\ fam[p].open = {}
  /\ Calm /\ outcome = "failed" =>
       \A p \in Path \ touched :
         /\ Original(p)
         /\ count.faults = 0 => Bare(p, Leaf \ {"target"}) /\ fam[p].open = {}

\* A rollback that reports success has restored every file and left nothing;
\* one that reports its own reversal has put back what it found, and left
\* nothing of its own unless a call failed after its work was begun.
RollbackTold ==
  /\ Calm /\ outcome = "restored" =>
       \A p \in Path \ touched :
         Original(p) /\ Bare(p, Leaf \ {"target"}) /\ fam[p].open = {}
  /\ Calm /\ outcome \in {"reverted", "unsupported"} =>
       \A p \in Path \ touched :
         /\ fam[p].at["target"] = pre[p]
         /\ count.faults = 0 =>
              Bare(p, {"newR", "oldR", "probeR"}) /\ "privateR" \notin fam[p].open

\* The file a rollback replaces exists until the manifest says "restored".
ReplacedKept ==
  disk.phase \in {"applying", "reverting", "reverted"} =>
    \A p \in Path \ touched : pre[p] = Absent \/ Held(fam[p], pre[p])

\* A rollback stops for good only in these windows of a loss.
Window(p) ==
  \/ "private" \in fam[p].open /\ ~ disk.ev[p].box
  \/ "privateR" \in fam[p].open /\ ~ disk.re[p].box
  \/ \E n \in Leaf : fam[p].at[n] = "torn"
  \/ ~ Resolves(p)
  \/ /\ disk.re[p].attempted \/ disk.re[p].retried
     /\ fam[p].at["target"] = Absent
  \/ fam[p].parked["private"]["new"] \notin {Absent, disk.ev[p].tmp}
  \/ fam[p].at["probeR"] # Absent

NotStuck ==
  Calm /\ outcome = "recovery" /\ count.edits = {} /\ count.faults = 0 =>
    \E p \in Path : Window(p)
=============================================================================
