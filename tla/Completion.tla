---- MODULE Completion ----
(***************************************************************************)
(* How a session comes to its end (src/orchestrator/completion.ts, the     *)
(* complete_task of agent-runtime.ts, completion-handoff-store.ts and the  *)
(* final report of src/cli/commands.ts).  The model claims that the task   *)
(* is done; the claim is held against the repository, the mutations and    *)
(* the validations of the session.  One that stands is written to a file   *)
(* of its own before the session is completed with a reference to it, and  *)
(* the report reads the repository once more.  The user writes files and   *)
(* commits at any time, and the process may die between any two steps,     *)
(* with or without the machine.                                            *)
(*                                                                         *)
(* The work itself is coarse: PatchEngine, TerminalCommand and             *)
(* ToolExecution have its steps.  Unmerged files, the text of a claim and  *)
(* its redaction, and hosts that keep the claim in the session record are  *)
(* left out.                                                               *)
(***************************************************************************)
EXTENDS SessionEvidence

CONSTANTS Command,   \* the commands of the catalog
          Required,  \* those that must have passed
          AfterLast, \* whether they must follow the last mutation
          Scope,     \* the paths the grant covers
          Claims,    \* what the model may claim
          Effects,   \* what a command may do to the repository
          Authority, \* the kinds of session: "frozen", "observed"
          MaxSteps,  \* bound: operations, edits and claims together
          MaxCrashes \* bound: how often the process dies

None == "none"
NoClaim == [kind |-> None]

ASSUME CompletionAssumption ==
  /\ Required \subseteq Command /\ Scope \subseteq Path /\ AfterLast \in BOOLEAN
  /\ NoClaim \notin Claims
  /\ None \notin Content
  /\ \A w \in Worktree, p \in Path : w.text[p] \in Text
  /\ \A e \in Effects : \A p \in DOMAIN e.text : e.text[p] \in Text

VARIABLES pc,          \* where the process is
          op,          \* the mutation under way, and how far it is
          authority,   \* what kind of session this is
          validations, \* the runs of catalog commands, in order
          sess,        \* the status of the session and its handoff, on disk
          claim,       \* the claim under way, on disk in the model's response
          ref,         \* the reference to the handoff, in memory
          verified,    \* the verification the process holds
          disk,        \* the directory of the handoff and its file
          report,      \* the report under way
          used,        \* how often each bounded thing has happened
          origin,      \* ghost: a path's text before the session changed it
          edited,      \* ghost: the paths the user wrote
          tested,      \* ghost: the repository a command last passed on
          left         \* ghost: the repository behind the last effect

session == <<mutations, validations, sess, claim>>
process == <<ref, verified, report>>
watched == <<pre, post, start, authority>>
ghosts  == <<origin, edited, tested, left>>
vars == <<repository, watched, session, process, pc, op, disk, used, ghosts>>

World == [text |-> Tree, head |-> head, hidden |-> hidden]
NoOp == [phase |-> None]
NoWorld == [head |-> NoCommit]
NoRef == [claim |-> NoClaim]
NoReport == [first |-> NoPrint, try |-> 1, exit |-> None, world |-> NoWorld]

Spend(what, bound) ==
  /\ used[what] < bound
  /\ used' = [used EXCEPT ![what] = @ + 1]

------------------------------------------------------------------------
\* The session's work.

\* The texts of paths on which the session lays hands for the first time.
Touched(P) ==
  origin' = [p \in Path |-> IF p \in P /\ origin[p] = None THEN wt[p].text
                                                           ELSE origin[p]]

Working == pc = "idle" /\ op = NoOp

\* A patch replaces a file, once the checkpoint holds what it replaces.
Install(p, t) ==
  /\ Working /\ p \in Scope /\ Spend("steps", MaxSteps)
  /\ Write(p, t)
  /\ op' = [phase |-> "patched", path |-> p, before |-> wt[p].text]
  /\ Touched({p})
  /\ UNCHANGED <<watched, session, process, pc, disk, edited, tested, left>>

\* Then the repository is read for its fingerprint, which may fail.
ReadPatched(known) ==
  /\ pc = "idle" /\ op.phase = "patched"
  /\ op' = [phase |-> "result", path |-> op.path, before |-> op.before,
            print |-> IF known THEN Present ELSE NoPrint]
  /\ left' = IF known THEN World ELSE left
  /\ UNCHANGED <<repository, watched, session, process, pc, disk, used, origin,
                 edited, tested>>

\* The journal has the result, and the session takes it up.
RecordPatch ==
  LET record == PatchRecord(op.path, op.before, op.print) IN
  /\ pc = "idle" /\ op.phase = "result" /\ Storable(record)
  /\ mutations' = Append(mutations, record)
  /\ op' = NoOp
  /\ UNCHANGED <<repository, watched, validations, sess, claim, process, pc, disk,
                 used, ghosts>>

\* A write that is refused ends the process, as it will in every resume.
RefusePatch ==
  /\ pc = "idle" /\ op.phase = "result"
  /\ ~Storable(PatchRecord(op.path, op.before, op.print))
  /\ pc' = "refused"
  /\ UNCHANGED <<repository, watched, session, process, op, disk, used, ghosts>>

\* A command is launched behind an observation that keeps the user's work.
Launch ==
  /\ Working /\ authority = "observed" /\ Spend("steps", MaxSteps)
  /\ Reconstructible(Images(Collected), Needed)
  /\ pre' = ObservedBefore
  /\ post' = NoObservation
  /\ op' = [phase |-> "launched"]
  /\ UNCHANGED <<repository, start, authority, session, process, pc, disk, ghosts>>

\* What others write while it runs cannot be told from what it writes.
Run(e) ==
  LET text == [p \in Path |-> IF p \in DOMAIN e.text THEN e.text[p]
                                                     ELSE Tree[p]]
  IN  /\ pc = "idle" /\ op.phase = "launched"
      /\ wt' = [p \in Path |-> [wt[p] EXCEPT !.text = text[p]]]
      /\ head' = IF e.commit /\ text # head.tree
                   THEN [id |-> head.id + 1, tree |-> text] ELSE head
      /\ objects' = IF e.commit
                      THEN objects \cup ({text[p] : p \in Path} \ {Absent})
                      ELSE objects
      /\ hidden' = IF e.hide THEN hidden + 1 ELSE hidden
      /\ op' = [phase |-> "exited"]
      /\ Touched({p \in Path : text[p] # Tree[p]
                                 \/ head'.tree[p] # head.tree[p]})
      /\ UNCHANGED <<watched, session, process, pc, disk, used, edited,
                     tested, left>>

\* The observation behind the command, with the result that holds both.  A
\* command that leaves what it found has had no effect.
Observe(o) ==
  /\ pc = "idle" /\ op.phase = "exited"
  /\ post' = o
  /\ op' = [phase |-> "observed"]
  /\ left' = IF o # Unknown /\ Present = Fingerprint(pre.at) THEN left ELSE World
  /\ UNCHANGED <<repository, pre, start, authority, session, process, pc, disk,
                 used, origin, edited, tested>>

\* The effect enters the session, unless there was none.
Apply ==
  /\ pc = "idle" /\ op.phase = "observed"
  /\ \/ /\ Compare.outcome = "none"
        /\ UNCHANGED mutations
     \/ /\ Compare.outcome # "none"
        /\ \E paths \in Listings(Compare.paths) :
             LET record == TerminalRecord(Compare, paths) IN
             /\ Storable(record)
             /\ mutations' = Append(mutations, record)
  /\ op' = NoOp
  /\ UNCHANGED <<repository, watched, validations, sess, claim, process, pc, disk,
                 used, ghosts>>

\* A catalog command leaves the repository as it was, and is recorded with
\* the repository it has seen.
Validate(c, passed) ==
  /\ Working /\ Spend("steps", MaxSteps)
  /\ validations' = Append(validations,
       [command |-> c, passed |-> passed, seq |-> Len(mutations),
        print |-> Present])
  /\ tested' = [tested EXCEPT ![c] = IF passed THEN World ELSE NoWorld]
  /\ left' = World
  /\ UNCHANGED <<repository, watched, mutations, sess, claim, process, pc, op, disk,
                 origin, edited>>

\* One during which the repository changed is of unknown outcome; the session
\* pauses with it, for the operator.
Disturbed(c, p, t) ==
  /\ Working /\ Spend("steps", MaxSteps)
  /\ Write(p, t)
  /\ validations' = Append(validations,
       [command |-> c, passed |-> FALSE, seq |-> Len(mutations),
        print |-> NoPrint])
  /\ tested' = [tested EXCEPT ![c] = NoWorld]
  /\ sess' = [sess EXCEPT !.status = "paused"]
  /\ edited' = edited \cup {p}
  /\ pc' = "held"
  /\ UNCHANGED <<watched, mutations, claim, process, op, disk, origin, left>>

------------------------------------------------------------------------
\* The rules a claim is held against.

Commands == {i \in DOMAIN mutations : mutations[i].kind = "terminal"}
Seen == {i \in Commands : mutations[i].outcome = "observed"}

\* The last of some records, given by their places.
Last(I) == CHOOSE i \in I : \A j \in I : j <= i

\* Every command's effect on the project is known.
EffectsKnown == Commands \subseteq Seen

\* HEAD and what is hidden are as the session began with them, or as the last
\* command of an observed session left them.
Anchor ==
  IF authority = "observed" /\ Seen # {}
    THEN mutations[Last(Seen)].control
    ELSE [head |-> start.base, hidden |-> start.hidden]

Anchored(b) == Anchor = [head |-> b.base, hidden |-> b.hidden]

\* Outside the grant there is only what was there, as it was.
WithinScope(b) ==
  \A p \in Dirty(b) \ Scope : p \in PreExisting /\ b.status[p] = start.status[p]

\* An answer names what it rests on, in a session that changed nothing.
Grounded(c) == c.kind = "answer" => mutations = <<>> /\ c.basis

\* The repository the session knows of.
Expected ==
  LET m == Len(mutations)
      v == Len(validations)
  IN  IF v > 0 /\ validations[v].seq = m THEN validations[v].print
      ELSE IF m > 0                       THEN mutations[m].print
      ELSE                                     Fingerprint(start)

Undisturbed(b) == Expected = Fingerprint(b)

Runs(c) == {i \in DOMAIN validations : validations[i].command = c}
Latest(c) == validations[Last(Runs(c))]

\* The claim has the latest outcome of what ran, and of nothing else.
TrulyReported(c) ==
  /\ \A x \in c.passed : Runs(x) # {} /\ Latest(x).passed
  /\ \A x \in c.failed : Runs(x) # {} /\ ~Latest(x).passed
  /\ \A x \in Command : Runs(x) # {} => x \in c.passed \cup c.failed

\* Mutant of Passed: that no mutation followed is held to be enough.
PassedSince(x, b, c) ==
  /\ Runs(x) # {}
  /\ Latest(x).passed
  /\ authority = "observed" \/ AfterLast => Latest(x).seq = Len(mutations)
  /\ x \in c.passed

\* A required command has passed on the repository as it is.
Passed(x, b, c) ==
  /\ Runs(x) # {}
  /\ Latest(x).passed
  /\ authority = "observed" \/ AfterLast => Latest(x).seq = Len(mutations)
  /\ Latest(x).print = Fingerprint(b)
  /\ x \in c.passed

Verify(b, c) ==
  /\ EffectsKnown /\ Anchored(b) /\ WithinScope(b)
  /\ Grounded(c) /\ Undisturbed(b) /\ TrulyReported(c)
  /\ \A x \in Required : Passed(x, b, c)
  /\ c.criteria

------------------------------------------------------------------------
\* The claim.

MakeClaim(c) ==
  /\ Working /\ Spend("steps", MaxSteps)
  /\ claim' = c
  /\ sess' = [sess EXCEPT !.status = "validating"]
  /\ pc' = "inspect"
  /\ UNCHANGED <<repository, watched, mutations, validations, process, op, disk,
                 ghosts>>

\* It is refused, also when the repository cannot be read; the model is told.
Reject(known) ==
  /\ pc = "inspect"
  /\ known => ~Verify(Collected, claim)
  /\ claim' = NoClaim
  /\ ref' = NoRef
  /\ sess' = [status |-> "awaiting", ref |-> NoRef]
  /\ pc' = "idle"
  /\ UNCHANGED <<repository, watched, mutations, validations, verified, report, op,
                 disk, used, ghosts>>

Handoff == [claim |-> claim, print |-> verified.print]

\* It stands.  A handoff that the session already refers to is used again if
\* it is the same one.
Accept ==
  /\ pc = "inspect"
  /\ Verify(Collected, claim)
  /\ verified' = [print |-> Present, world |-> World]
  /\ pc' = IF ref = NoRef THEN "makedir" ELSE "reuse"
  /\ UNCHANGED <<repository, watched, session, ref, report, op, disk, used, ghosts>>

------------------------------------------------------------------------
\* The handoff is written before the session refers to it.

At(here, next) == pc = here /\ pc' = next

Storing == UNCHANGED <<repository, watched, session, verified, report, op, used,
                       ghosts>>

MakeDirectory ==
  /\ At("makedir", "syncparent")
  /\ disk' = IF disk.dir = None THEN [disk EXCEPT !.dir = "new"] ELSE disk
  /\ UNCHANGED ref /\ Storing

\* Mutant of SyncParent: the entry of the directory is left to the kernel.
SkipParent ==
  /\ At("syncparent", "rename")
  /\ UNCHANGED <<disk, ref>> /\ Storing

SyncParent ==
  /\ At("syncparent", "rename")
  /\ disk' = [disk EXCEPT !.dir = "kept"]
  /\ UNCHANGED ref /\ Storing

RenameHandoff ==
  /\ At("rename", "syncfile")
  /\ disk' = [disk EXCEPT !.file = Handoff]
  /\ UNCHANGED ref /\ Storing

SyncHandoff ==
  /\ At("syncfile", "commit")
  /\ disk' = [disk EXCEPT !.kept = disk.file]
  /\ ref' = Handoff
  /\ Storing

AssertReusable ==
  /\ At("reuse", "commit")
  /\ disk.file = ref /\ ref = Handoff
  /\ UNCHANGED <<disk, ref>> /\ Storing

\* The session is completed in the write that names the handoff.
Commit ==
  /\ At("commit", "report")
  /\ sess' = [status |-> "completed", ref |-> ref]
  /\ UNCHANGED <<repository, watched, mutations, validations, claim, process, op,
                 disk, used, ghosts>>

\* A session that ends otherwise drops the reference in the write that ends
\* it, and removes the file behind it.
End(status) ==
  /\ sess' = [status |-> status, ref |-> NoRef]
  /\ pc' = "unlink"
  /\ UNCHANGED <<repository, watched, mutations, validations, claim, process, op,
                 disk, used, ghosts>>

Fail == pc \in {"makedir", "syncparent", "rename", "syncfile", "commit"}
        /\ End("failed")

\* Between these steps the process sees that it is to stop.
Interruptible == pc \in {"inspect", "commit"}

\* No process has the session.  (One that is held is left as it is.)
Unowned ==
  /\ pc \in {"down", "refused"}
  /\ sess.status \in {"awaiting", "validating", "paused"}

\* The operator may end one that no process has as well.
Abort == (Interruptible \/ Unowned) /\ End("aborted")

\* A pause keeps the reference, for the claim is looked at again.
Pause ==
  /\ Interruptible
  /\ sess' = [status |-> "paused", ref |-> ref]
  /\ pc' = "down"
  /\ UNCHANGED <<repository, watched, mutations, validations, claim, process, op,
                 disk, used, ghosts>>

Unlink ==
  /\ At("unlink", "syncremoval")
  /\ disk' = [disk EXCEPT !.file = NoRef]
  /\ UNCHANGED ref /\ Storing

SyncRemoval ==
  /\ At("syncremoval", "done")
  /\ disk' = [disk EXCEPT !.kept = disk.file]
  /\ UNCHANGED ref /\ Storing

------------------------------------------------------------------------
\* The report: two looks at the repository that agree, and that agree with
\* what was verified.

Reporting == UNCHANGED <<repository, watched, session, ref, verified, op, disk, used,
                         ghosts>>

LookBefore ==
  /\ At("report", "reread")
  /\ report' = [report EXCEPT !.first = Present]
  /\ Reporting

LookAfter ==
  /\ pc = "reread"
  /\ \/ /\ Present # report.first /\ report.try < 2
        /\ report' = [report EXCEPT !.try = 2]
        /\ pc' = "report"
     \/ /\ Present = report.first \/ report.try = 2
        /\ report' = [report EXCEPT
             !.exit = IF Present = report.first /\ Present = verified.print
                        THEN "matches" ELSE "differs",
             !.world = World]
        /\ pc' = "done"
  /\ Reporting

------------------------------------------------------------------------
\* The user, who also writes while the process is down.
Edit ==
  /\ op.phase \notin {"launched", "exited"} /\ pc # "done"
  /\ Spend("steps", MaxSteps)
  /\ \/ \E p \in Path, t \in Text :
          Write(p, t) /\ edited' = edited \cup {p}
     \/ CommitAll /\ UNCHANGED edited
  /\ UNCHANGED <<watched, session, process, pc, op, disk, origin, tested, left>>

\* The process dies.  With the machine, what was not synced may be lost.  A
\* death between two operations changes nothing that is modelled here.
Crash ==
  /\ ~Working /\ pc \notin {"down", "held", "refused", "done"}
  /\ Spend("crashes", MaxCrashes)
  /\ pc' = "down"
  /\ \/ UNCHANGED disk
     \/ disk.dir = "new" /\ disk' = [dir |-> None, file |-> NoRef, kept |-> NoRef]
     \/ disk.dir # None
        /\ disk' = [dir |-> "kept", file |-> disk.kept, kept |-> disk.kept]
  /\ UNCHANGED <<repository, watched, session, process, op, ghosts>>

\* The session is loaded.  A mutation of which nobody knows whether it was
\* made holds it; a claim under way is looked at again.
Load ==
  /\ pc = "down"
  /\ ref' = sess.ref
  /\ \/ /\ sess.status = "completed"
        /\ pc' = "done" /\ UNCHANGED sess
     \/ /\ sess.status \in {"aborted", "failed"}
        /\ pc' = "unlink" /\ UNCHANGED sess
     \/ /\ sess.status \in {"awaiting", "validating", "paused"}
        /\ op.phase \in {"patched", "launched", "exited"}
        /\ pc' = "held" /\ sess' = [sess EXCEPT !.status = "paused"]
     \/ /\ sess.status \in {"awaiting", "validating", "paused"}
        /\ op.phase \in {None, "result", "observed"}
        /\ pc' = IF claim = NoClaim THEN "idle" ELSE "inspect"
        /\ sess' = [sess EXCEPT !.status = IF claim = NoClaim THEN "awaiting"
                                                              ELSE "validating"]
  /\ UNCHANGED <<repository, watched, mutations, validations, claim, verified, report,
                 op, disk, used, ghosts>>

------------------------------------------------------------------------
Init ==
  /\ authority \in Authority
  /\ \E w \in Worktree :
       /\ wt = [p \in Path |-> [text |-> w.text[p], stamp |-> 0]]
       /\ head = [id |-> 1, tree |-> w.tree]
       /\ objects = {w.tree[p] : p \in Path} \ {Absent}
  /\ hidden = 0
  /\ start = Collected
  /\ pre = NoObservation /\ post = NoObservation
  /\ mutations = <<>> /\ validations = <<>>
  /\ sess = [status |-> "awaiting", ref |-> NoRef]
  /\ claim = NoClaim /\ ref = NoRef
  /\ verified = [print |-> NoPrint, world |-> NoWorld]
  /\ disk = [dir |-> None, file |-> NoRef, kept |-> NoRef]
  /\ report = NoReport
  /\ pc = "idle" /\ op = NoOp
  /\ used = [what \in {"steps", "crashes"} |-> 0]
  /\ origin = [p \in Path |-> None]
  /\ edited = {}
  /\ tested = [c \in Command |-> NoWorld]
  /\ left = World

Work ==
  \/ \E p \in Path, t \in Text : Install(p, t)
  \/ \E known \in BOOLEAN : ReadPatched(known)
  \/ RecordPatch \/ RefusePatch
  \/ Launch
  \/ \E e \in Effects : Run(e)
  \/ \E o \in {ObservedAfter, Unknown} : Observe(o)
  \/ Apply
  \/ \E c \in Command, passed \in BOOLEAN : Validate(c, passed)
  \/ \E c \in Command, p \in Path, t \in Text : Disturbed(c, p, t)

Claiming ==
  \/ \E c \in Claims : MakeClaim(c)
  \/ \E known \in BOOLEAN : Reject(known)
  \/ Accept \/ MakeDirectory \/ SyncParent \/ RenameHandoff \/ SyncHandoff
  \/ AssertReusable \/ Commit \/ LookBefore \/ LookAfter

Stopping ==
  Fail \/ Abort \/ Pause \/ Unlink \/ SyncRemoval

Next == Work \/ Claiming \/ Stopping \/ Edit \/ Crash \/ Load

Spec == Init /\ [][Next]_vars

------------------------------------------------------------------------
\* A path the session changed is in its diff, with the text it had before, or
\* with no text; or the diff says that it may lack paths.
\* (snapshot-diff.ts, the baselines of diffSession)
DiffTruth ==
  op = NoOp =>
    \A p \in Path : origin[p] # None =>
      \/ p \in Listed /\ DiffBaseline(p) \in {origin[p], Unavailable}
      \/ p \notin Listed /\ Limited

\* What the session holds of a path, by which it can be put back.
Held(p) ==
  LET kept(images) == {images[p].text : k \in {images[p].kind} \cap
                                             {"retained", "blob"}}
      of(m) == IF m.kind = "terminal" THEN kept(m.images)
               ELSE IF p \in m.paths THEN {m.before[p]} ELSE {}
      now == CASE op.phase \in {"patched", "result"} /\ op.path = p
                                                      -> {op.before}
               [] op.phase \in {"launched", "exited", "observed"}
                                                      -> kept(pre.images)
               [] OTHER                                        -> {}
  IN  now \cup UNION {of(mutations[i]) : i \in DOMAIN mutations}

\* The user's work from before the session, once the session has changed it,
\* is held somewhere, also when the process dies on the way.
\* (workspace-observer.ts, the images; runtime-composition.ts, the baselines)
UserWorkHeld ==
  \A p \in PreExisting \ edited : origin[p] # None => origin[p] \in Held(p)

\* A session is completed on a repository that every required command last
\* passed on and that nobody but the session has written since; the command
\* ends well only if that is also what it reported.
\* (completion.ts, verifyCompletion; commands.ts, finalRepositoryHandoff)
AcceptedFresh ==
  sess.status = "completed" =>
    /\ \A c \in Required : tested[c] = verified.world
    /\ verified.world = left
    /\ \A i \in DOMAIN mutations : mutations[i].outcome = "observed"
    /\ authority = "frozen" => verified.world.head = start.base
    /\ report.exit = "matches" => report.world = verified.world

\* A patch that is in the files can enter the session, which then waits for
\* the repository to be read again before it is completed.
\* (tool-host.ts, mutationOutcome: "until repository state can be reconciled")
PatchReconcilable == pc # "refused"

\* The handoff a session refers to can be read, also after a power loss, and
\* of a session that ended without completion none is left.
\* (completion-handoff-store.ts, save and removeAt; store.ts, read)
HandoffKept ==
  /\ sess.ref # NoRef =>
       disk.dir = "kept" /\ disk.file = sess.ref /\ disk.kept = sess.ref
  /\ sess.status = "completed" => sess.ref # NoRef
  /\ pc = "reuse" => disk.file = ref /\ ref = Handoff
  /\ pc = "done" /\ sess.status \in {"aborted", "failed"} =>
       disk.file = NoRef /\ disk.kept = NoRef
====
