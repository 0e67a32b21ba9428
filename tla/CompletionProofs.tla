---------------------------- MODULE CompletionProofs ----------------------------
(***************************************************************************)
(* Proofs about Completion: the handoff a session refers to is on the disk *)
(* whatever is lost with the machine, and a session is completed only on   *)
(* the repository that was tested and that the session left behind.        *)
(***************************************************************************)
EXTENDS Completion, SequenceTheorems, TLAPS

------------------------------------------------------------------------------
(* Repositories and their fingerprints. *)

IsWorld(w) ==
  w = [text |-> [p \in Path |-> w.text[p]], head |-> w.head, hidden |-> w.hidden]

\* How Git's status has a path of a repository.
StatusIn(w, p) ==
  LET t == w.text[p]
      kind == IF t = w.head.tree[p]           THEN "clean"
              ELSE IF w.head.tree[p] = Absent THEN "untracked"
              ELSE IF t = Absent              THEN "deleted"
              ELSE                                 "modified"
  IN  [kind |-> kind, text |-> IF kind = "clean" THEN Absent ELSE t]

PrintOf(w) ==
  <<w.head, [p \in Path |-> StatusIn(w, p)], w.hidden, w.head.id>>

------------------------------------------------------------------------------
(* The inductive invariant. *)

IsSeq(s) ==
  /\ Len(s) \in Nat
  /\ s = [i \in 1..Len(s) |-> s[i]]

Making == {"makedir", "syncparent", "rename", "syncfile"}
Deciding == Making \cup {"reuse", "commit"}
Reports == {"report", "reread"}

Shape ==
  /\ sess = [status |-> sess.status, ref |-> sess.ref]
  /\ disk = [dir |-> disk.dir, file |-> disk.file, kept |-> disk.kept]
  /\ report = [first |-> report.first, try |-> report.try, exit |-> report.exit,
               world |-> report.world]
  /\ tested = [c \in Command |-> tested[c]]

\* What the session records.
Records ==
  /\ IsSeq(mutations) /\ IsSeq(validations)
  /\ \A i \in 1..Len(mutations) :
       /\ mutations[i].kind \in {"patch", "terminal"}
       /\ mutations[i].kind = "patch" => mutations[i].outcome = "observed"
  /\ \A i \in 1..Len(validations) : validations[i].seq \in 0..Len(mutations)

\* The fingerprint the session goes by is of the repository behind the last
\* effect, if it has one.
Near == {NoPrint, PrintOf(left)}

Knowledge ==
  /\ IsWorld(left)
  /\ op.phase \notin {"result", "observed"} => Expected \in Near
  /\ op.phase = "result" => op.print \in Near
  /\ op.phase = "observed" /\ post.state # "unknown" =>
       IF Fingerprint(pre.at) = Fingerprint(post.at) THEN Expected \in Near
                                                     ELSE Fingerprint(post.at) \in Near

\* The latest run of a command is the one its repository is remembered of.
Tested(c, i) ==
  /\ \A j \in Runs(c) : j <= i
  /\ validations[i].passed =>
       IsWorld(tested[c]) /\ validations[i].print = PrintOf(tested[c])

Tests == \A c \in Command : Runs(c) # {} => \E i \in Runs(c) : Tested(c, i)

\* Where the process is, and what the session says of it.
Course ==
  /\ pc = "idle" => claim = NoClaim /\ ref = NoRef
  /\ claim # NoClaim => op = NoOp
  /\ pc \in {"inspect"} \cup Deciding => claim # NoClaim
  /\ pc \in Reports => sess.status = "completed"
  /\ sess.status = "completed" => pc \in Reports \cup {"done", "down"}
  /\ sess.status \in {"aborted", "failed"} =>
       pc \in {"unlink", "syncremoval", "done", "down"}
  /\ pc \in {"unlink", "syncremoval"} => sess.status \in {"aborted", "failed"}
  /\ report.exit = "matches" => pc = "done" /\ report.world = verified.world

\* The handoff that belongs to the claim and the repository.
Referred == [claim |-> claim, print |-> Expected]

OnDisk(r) == disk.dir = "kept" /\ disk.file = r /\ disk.kept = r

Handed ==
  /\ sess.ref # NoRef => sess.ref = Referred /\ OnDisk(sess.ref) /\ claim # NoClaim
  /\ sess.status = "completed" => sess.ref # NoRef
  /\ sess.status \in {"aborted", "failed"} => sess.ref = NoRef
  /\ pc \in {"inspect", "reuse"} => ref = sess.ref
  /\ pc \in Making => ref = NoRef /\ sess.ref = NoRef
  /\ pc \in {"reuse", "commit"} => ref = Referred /\ OnDisk(ref)
  /\ pc \in {"rename", "syncfile"} => disk.dir = "kept"
  /\ pc = "syncfile" => disk.file = Referred
  /\ pc = "syncremoval" => disk.file = NoRef
  /\ pc = "done" /\ sess.status \in {"aborted", "failed"} =>
       disk.file = NoRef /\ disk.kept = NoRef

\* What was verified is what the session left and what was tested.
Fresh ==
  /\ verified.print = Expected /\ Expected = PrintOf(left)
  /\ verified.world = left
  /\ \A c \in Required : tested[c] = left
  /\ \A i \in 1..Len(mutations) : mutations[i].outcome = "observed"
  /\ authority = "frozen" => left.head = start.base

Accepted == pc \in Deciding \/ sess.status = "completed" => Fresh

IInv == Shape /\ Records /\ Knowledge /\ Tests /\ Course /\ Handed /\ Accepted

------------------------------------------------------------------------------
(* Facts about repositories and records. *)

LEMMA PresentIsWorld == Present = PrintOf(World) /\ IsWorld(World)
  <1>1. Tree = [p \in Path |-> Tree[p]] /\ \A p \in Path : Tree[p] = wt[p].text
    BY DEF Tree
  <1>2. IsWorld(World)
    BY <1>1 DEF IsWorld, World
  <1>3. ASSUME NEW p \in Path
        PROVE  StatusIn(World, p) = [kind |-> Kind(p, head.tree),
                                     text |-> ContentState(p, Kind(p, head.tree))]
    BY <1>1 DEF StatusIn, World, Kind, ContentState
  <1>4. Collected.status = [p \in Path |-> StatusIn(World, p)]
    BY <1>3 DEF Collected
  <1> QED
    BY <1>2, <1>4 DEF Present, PrintOf, Fingerprint, Collected, World, ProtectedState,
       ReferenceState

\* A fingerprint belongs to one repository.
LEMMA PrintDetermines ==
  ASSUME NEW u, NEW v, IsWorld(u), IsWorld(v), PrintOf(u) = PrintOf(v)
  PROVE  u = v
  <1>1. u.head = v.head /\ u.hidden = v.hidden
    BY DEF PrintOf
  <1>2. ASSUME NEW p \in Path
        PROVE  u.text[p] = v.text[p]
    <2>1. StatusIn(u, p) = StatusIn(v, p)
      BY DEF PrintOf
    <2> QED
      BY <1>1, <2>1 DEF StatusIn
  <1> QED
    BY <1>1, <1>2 DEF IsWorld

LEMMA PrintKnown == ASSUME NEW w PROVE PrintOf(w) # NoPrint
  BY DEF PrintOf, NoPrint

LEMMA Appended ==
  ASSUME NEW s, NEW e, IsSeq(s)
  PROVE  /\ IsSeq(Append(s, e)) /\ Len(Append(s, e)) = Len(s) + 1
         /\ Append(s, e)[Len(s) + 1] = e
         /\ \A i \in 1..Len(s) : Append(s, e)[i] = s[i]
  <1> DEFINE S == {s[i] : i \in 1..Len(s)} \cup {e}
             n == Len(s)
  <1>1. n \in Nat /\ s = [i \in 1..n |-> s[i]]
    BY DEF IsSeq
  <1>2. s \in [1..n -> S]
    <2>1. \A i \in 1..n : s[i] \in S
      OBVIOUS
    <2> HIDE DEF S, n
    <2> QED
      BY <1>1, <2>1
  <1>3. s \in Seq(S) /\ e \in S
    BY <1>1, <1>2, IsASeq
  <1>4. Append(s, e) \in Seq(S)
    BY <1>3, AppendProperties
  <1>5. /\ Len(Append(s, e)) = n + 1
        /\ \A i \in 1..n : Append(s, e)[i] = s[i]
        /\ Append(s, e)[n + 1] = e
    BY <1>3, AppendProperties
  <1>6. Append(s, e) = [i \in 1..Len(Append(s, e)) |-> Append(s, e)[i]]
    BY <1>4, LenProperties
  <1> QED
    BY <1>1, <1>5, <1>6 DEF IsSeq

LEMMA Domain == ASSUME NEW s, IsSeq(s) PROVE DOMAIN s = 1..Len(s)
  BY DEF IsSeq

LEMMA LastIs ==
  ASSUME NEW I, I \subseteq Nat, NEW i \in I, \A j \in I : j <= i
  PROVE  Last(I) = i
  <1>1. Last(I) \in I /\ \A j \in I : j <= Last(I)
    BY Zenon DEF Last
  <1>2. Last(I) <= i /\ i <= Last(I)
    BY <1>1
  <1>3. Last(I) \in Nat /\ i \in Nat
    BY <1>1
  <1> QED
    BY <1>2, <1>3

------------------------------------------------------------------------------
(* The steps that leave the records of the session as they are. *)

Quiet == UNCHANGED <<mutations, validations, watched, op, tested, left>>

LEMMA QuietKept ==
  ASSUME IInv, Quiet
  PROVE  /\ Records' /\ Knowledge' /\ Tests'
         /\ Expected' = Expected
         /\ Fresh /\ verified' = verified => Fresh'
  <1>1. Expected' = Expected
    BY DEF Quiet, watched, Expected
  <1>2. Records'
    BY DEF IInv, Records, Quiet
  <1>3. PrintOf(left)' = PrintOf(left) /\ Near' = Near /\ IsWorld(left)'
    BY DEF Quiet, Near, IInv, Knowledge
  <1>4. Knowledge'
    BY <1>1, <1>3 DEF IInv, Knowledge, Quiet, watched
  <1>5. Tests'
    BY DEF IInv, Tests, Tested, Runs, Quiet
  <1> QED
    BY <1>1, <1>2, <1>3, <1>4, <1>5 DEF Fresh, Quiet, watched

LEMMA ReferredIs == claim # NoClaim => Referred # NoRef
  BY DEF Referred, NoRef

\* A claim is made where there was none, and none is referred to.
LEMMA MakeClaimStep ==
  ASSUME IInv, NEW c \in Claims, MakeClaim(c)
  PROVE  IInv'
  <1>1. Quiet
    BY DEF MakeClaim, Working, ghosts, Quiet
  <1>2. Records' /\ Knowledge' /\ Tests'
    BY <1>1, QuietKept
  <1>3. pc = "idle" /\ op = NoOp /\ claim = NoClaim /\ ref = NoRef /\ sess.ref = NoRef
    BY DEF MakeClaim, Working, IInv, Course, Handed
  <1>4. sess' = [status |-> "validating", ref |-> NoRef] /\ c # NoClaim
    BY <1>3, CompletionAssumption DEF MakeClaim, IInv, Shape
  <1>5. Shape' /\ Course' /\ Handed' /\ Accepted'
    BY <1>1, <1>3, <1>4 DEF MakeClaim, IInv, Shape, Course, Handed, Accepted, Deciding, Making,
       Reports, process, Quiet
  <1> QED
    BY <1>2, <1>5 DEF IInv

LEMMA RejectStep ==
  ASSUME IInv, NEW known \in BOOLEAN, Reject(known)
  PROVE  IInv'
  <1>1. Quiet
    BY DEF Reject, ghosts, Quiet
  <1>2. Records' /\ Knowledge' /\ Tests'
    BY <1>1, QuietKept
  <1>3. Shape' /\ Course' /\ Handed' /\ Accepted'
    BY DEF Reject, ghosts, IInv, Shape, Course, Handed, Accepted, Deciding, Making, Reports
  <1> QED
    BY <1>2, <1>3 DEF IInv

\* The steps that store the handoff change nothing but the file and the reference to it.
LEMMA StoringQuiet ==
  ASSUME IInv, Storing
  PROVE  /\ Records' /\ Knowledge' /\ Tests'
         /\ Referred' = Referred
         /\ Fresh => Fresh'
         /\ claim' = claim /\ op' = op /\ sess' = sess /\ report' = report
         /\ verified' = verified /\ tested' = tested
  <1>1. Quiet
    BY DEF Storing, session, ghosts, Quiet
  <1>2. claim' = claim /\ op' = op /\ sess' = sess /\ report' = report /\ verified' = verified
    BY DEF Storing, session
  <1> QED
    BY <1>1, <1>2, QuietKept DEF Referred, Quiet

LEMMA HandoffIs == ASSUME Fresh PROVE Handoff = Referred
  BY DEF Fresh, Handoff, Referred

LEMMA MakeDirectoryStep ==
  ASSUME IInv, MakeDirectory
  PROVE  IInv'
  <1>1. Storing /\ ref' = ref /\ pc = "makedir" /\ pc' = "syncparent"
    BY DEF MakeDirectory, At
  <1>2. disk' = [dir |-> disk'.dir, file |-> disk'.file, kept |-> disk'.kept]
    BY DEF MakeDirectory, IInv, Shape
  <1>3. Shape' /\ Course' /\ Handed' /\ Accepted'
    BY <1>1, <1>2, StoringQuiet DEF IInv, Shape, Course, Handed, Accepted, Deciding, Making, Reports
  <1> QED
    BY <1>1, <1>3, StoringQuiet DEF IInv

LEMMA SyncParentStep ==
  ASSUME IInv, SyncParent
  PROVE  IInv'
  <1>1. Storing /\ ref' = ref /\ pc = "syncparent" /\ pc' = "rename"
    BY DEF SyncParent, At
  <1>2. disk' = [dir |-> "kept", file |-> disk.file, kept |-> disk.kept]
    BY DEF SyncParent, IInv, Shape
  <1>3. Shape' /\ Course' /\ Handed' /\ Accepted'
    BY <1>1, <1>2, StoringQuiet DEF IInv, Shape, Course, Handed, Accepted, Deciding, Making, Reports
  <1> QED
    BY <1>1, <1>3, StoringQuiet DEF IInv

LEMMA RenameHandoffStep ==
  ASSUME IInv, RenameHandoff
  PROVE  IInv'
  <1>1. Storing /\ ref' = ref /\ pc = "rename" /\ pc' = "syncfile"
    BY DEF RenameHandoff, At
  <1>2. disk' = [dir |-> disk.dir, file |-> Referred, kept |-> disk.kept]
    BY <1>1, HandoffIs DEF RenameHandoff, IInv, Shape, Accepted, Deciding, Making
  <1>3. Shape' /\ Course' /\ Handed' /\ Accepted'
    BY <1>1, <1>2, StoringQuiet DEF IInv, Shape, Course, Handed, Accepted, Deciding, Making, Reports
  <1> QED
    BY <1>1, <1>3, StoringQuiet DEF IInv

LEMMA SyncHandoffStep ==
  ASSUME IInv, SyncHandoff
  PROVE  IInv'
  <1>1. Storing /\ pc = "syncfile" /\ pc' = "commit"
    BY DEF SyncHandoff, At
  <1>2. disk' = [dir |-> "kept", file |-> Referred, kept |-> Referred] /\ ref' = Referred
    BY <1>1, HandoffIs DEF SyncHandoff, IInv, Shape, Handed, Accepted, Deciding, Making
  <1>3. Shape' /\ Course' /\ Handed' /\ Accepted'
    BY <1>1, <1>2, StoringQuiet DEF IInv, Shape, Course, Handed, OnDisk, Accepted, Deciding, Making, Reports
  <1> QED
    BY <1>1, <1>3, StoringQuiet DEF IInv

LEMMA AssertReusableStep ==
  ASSUME IInv, AssertReusable
  PROVE  IInv'
  <1>1. Storing /\ pc = "reuse" /\ pc' = "commit" /\ disk' = disk /\ ref' = ref
    BY DEF AssertReusable, At
  <1>2. Shape' /\ Course' /\ Handed' /\ Accepted'
    BY <1>1, StoringQuiet DEF IInv, Shape, Course, Handed, OnDisk, Accepted, Deciding, Making, Reports
  <1> QED
    BY <1>1, <1>2, StoringQuiet DEF IInv

LEMMA UnlinkStep ==
  ASSUME IInv, Unlink
  PROVE  IInv'
  <1>1. Storing /\ pc = "unlink" /\ pc' = "syncremoval" /\ ref' = ref
    BY DEF Unlink, At
  <1>2. disk' = [dir |-> disk.dir, file |-> NoRef, kept |-> disk.kept]
    BY DEF Unlink, IInv, Shape
  <1>3. sess.ref = NoRef
    BY <1>1 DEF IInv, Course, Handed
  <1>4. Shape' /\ Course' /\ Handed' /\ Accepted'
    BY <1>1, <1>2, <1>3, StoringQuiet DEF IInv, Shape, Course, Handed, OnDisk, Accepted, Deciding, Making, Reports
  <1> QED
    BY <1>1, <1>4, StoringQuiet DEF IInv

LEMMA SyncRemovalStep ==
  ASSUME IInv, SyncRemoval
  PROVE  IInv'
  <1>1. Storing /\ pc = "syncremoval" /\ pc' = "done" /\ ref' = ref
    BY DEF SyncRemoval, At
  <1>2. disk' = [dir |-> disk.dir, file |-> NoRef, kept |-> NoRef]
    BY <1>1 DEF SyncRemoval, IInv, Shape, Handed
  <1>3. sess.ref = NoRef
    BY <1>1 DEF IInv, Course, Handed
  <1>4. Shape' /\ Course' /\ Handed' /\ Accepted'
    BY <1>1, <1>2, <1>3, StoringQuiet DEF IInv, Shape, Course, Handed, OnDisk, Accepted, Deciding, Making, Reports
  <1> QED
    BY <1>1, <1>4, StoringQuiet DEF IInv

\* What stands is the repository the session left, which was tested.
LEMMA VerifyFresh ==
  ASSUME IInv, claim # NoClaim, Verify(Collected, claim)
  PROVE  /\ Present = Expected /\ Expected = PrintOf(left) /\ World = left
         /\ \A c \in Required : tested[c] = left
         /\ \A i \in 1..Len(mutations) : mutations[i].outcome = "observed"
         /\ authority = "frozen" => left.head = start.base
  <1>1. Present = Expected
    BY DEF Verify, Undisturbed, Present
  <1>2. Expected \in Near
    BY DEF IInv, Course, Knowledge, NoOp, None
  <1>3. Expected = PrintOf(left) /\ World = left
    BY <1>1, <1>2, PresentIsWorld, PrintKnown, PrintDetermines DEF Near, IInv, Knowledge
  <1>4. ASSUME NEW c \in Required
        PROVE  tested[c] = left
    <2>1. Passed(c, Collected, claim) /\ c \in Command
      BY CompletionAssumption DEF Verify
    <2>2. PICK i \in Runs(c) : Tested(c, i)
      BY <2>1 DEF Passed, IInv, Tests
    <2>3. Runs(c) \subseteq Nat
      BY Domain DEF Runs, IInv, Records, IsSeq
    <2>4. Latest(c) = validations[i]
      BY <2>2, <2>3, LastIs DEF Tested, Latest
    <2>5. IsWorld(tested[c]) /\ validations[i].print = PrintOf(tested[c])
      BY <2>1, <2>2, <2>4 DEF Passed, Tested
    <2>6. PrintOf(tested[c]) = PrintOf(left)
      BY <1>1, <1>3, <2>1, <2>4, <2>5 DEF Passed, Present
    <2> QED
      BY <2>5, <2>6, PrintDetermines DEF IInv, Knowledge
  <1>5. \A i \in 1..Len(mutations) : mutations[i].outcome = "observed"
    BY Domain DEF Verify, EffectsKnown, Commands, Seen, IInv, Records
  <1>6. authority = "frozen" => left.head = start.base
    <2>1. Anchor = [head |-> Collected.base, hidden |-> Collected.hidden]
      BY DEF Verify, Anchored
    <2>2. Collected.base = head /\ World.head = head
      BY DEF Collected, World
    <2>3. authority = "frozen" => Anchor = [head |-> start.base, hidden |-> start.hidden]
      BY DEF Anchor
    <2> QED
      BY <1>3, <2>1, <2>2, <2>3
  <1> QED
    BY <1>1, <1>3, <1>4, <1>5, <1>6

LEMMA AcceptStep ==
  ASSUME IInv, Accept
  PROVE  IInv'
  <1>1. Quiet /\ Referred' = Referred
    BY QuietKept DEF Accept, session, ghosts, Quiet, Referred
  <1>2. Records' /\ Knowledge' /\ Tests' /\ Expected' = Expected
    BY <1>1, QuietKept
  <1>3. pc = "inspect" /\ claim # NoClaim /\ ref = sess.ref
    BY DEF Accept, IInv, Course, Handed
  <1>4. verified' = [print |-> Present, world |-> World]
    BY DEF Accept
  <1>5. Fresh'
    <2>1. verified'.print = Expected /\ verified'.world = left
      BY <1>3, <1>4, VerifyFresh DEF Accept
    <2>2. PrintOf(left)' = PrintOf(left) /\ left' = left
      BY <1>1 DEF Quiet
    <2> QED
      BY <1>1, <1>2, <1>3, <2>1, <2>2, VerifyFresh DEF Accept, Quiet, watched, Fresh
  <1>6. Shape' /\ Course' /\ Handed' /\ Accepted'
    BY <1>1, <1>3, <1>5 DEF Accept, session, ghosts, IInv, Shape, Course, Handed, OnDisk,
       Accepted, Deciding, Making, Reports
  <1> QED
    BY <1>2, <1>6 DEF IInv

\* The session is completed with the reference to what is on the disk.
LEMMA CommitStep ==
  ASSUME IInv, Commit
  PROVE  IInv'
  <1>1. Quiet /\ Referred' = Referred /\ verified' = verified
    BY QuietKept DEF Commit, process, ghosts, Quiet, Referred
  <1>2. Records' /\ Knowledge' /\ Tests' /\ (Fresh => Fresh')
    BY <1>1, QuietKept
  <1>3. claim # NoClaim /\ Referred # NoRef /\ pc = "commit" /\ pc' = "report"
    BY ReferredIs DEF Commit, At, IInv, Course, Deciding
  <1>4. sess' = [status |-> "completed", ref |-> ref]
    BY DEF Commit
  <1>5. Shape' /\ Course' /\ Handed' /\ Accepted'
    BY <1>1, <1>2, <1>3, <1>4 DEF Commit, process, ghosts, IInv, Shape, Course, Handed, OnDisk,
       Accepted, Deciding, Making, Reports
  <1> QED
    BY <1>2, <1>5 DEF IInv

\* Before a session is completed it may end, or stop, in other ways.
LEMMA EndStep ==
  ASSUME IInv, NEW status \in {"aborted", "failed"}, End(status),
         pc \in {"inspect"} \cup Deciding \/ sess.status \in {"awaiting", "validating", "paused"},
         pc # "done"
  PROVE  IInv'
  <1>1. Quiet
    BY DEF End, ghosts, Quiet
  <1>2. Records' /\ Knowledge' /\ Tests'
    BY <1>1, QuietKept
  <1>3. Shape' /\ Course' /\ Handed' /\ Accepted'
    BY DEF End, process, ghosts, IInv, Shape, Course, Handed, Accepted, Deciding, Making, Reports
  <1> QED
    BY <1>2, <1>3 DEF IInv

LEMMA FailStep == ASSUME IInv, Fail PROVE IInv'
  BY EndStep DEF Fail, Deciding, Making

LEMMA AbortStep == ASSUME IInv, Abort PROVE IInv'
  BY EndStep DEF Abort, Interruptible, Unowned, Deciding, Making

LEMMA PauseStep ==
  ASSUME IInv, Pause
  PROVE  IInv'
  <1>1. Quiet /\ Referred' = Referred
    BY QuietKept DEF Pause, process, ghosts, Quiet, Referred
  <1>2. Records' /\ Knowledge' /\ Tests'
    BY <1>1, QuietKept
  <1>3. sess' = [status |-> "paused", ref |-> ref] /\ pc' = "down" /\ claim # NoClaim
        /\ pc \in {"inspect", "commit"}
    BY DEF Pause, Interruptible, IInv, Course, Deciding
  <1>4. Shape' /\ Course' /\ Handed' /\ Accepted'
    BY <1>1, <1>3 DEF Pause, process, ghosts, IInv, Shape, Course, Handed, OnDisk,
       Accepted, Deciding, Making, Reports
  <1> QED
    BY <1>2, <1>4 DEF IInv

------------------------------------------------------------------------------
(* The report, the user and the crashes. *)

LEMMA ReportingQuiet ==
  ASSUME IInv, Reporting
  PROVE  /\ Records' /\ Knowledge' /\ Tests'
         /\ Referred' = Referred
         /\ Fresh => Fresh'
         /\ claim' = claim /\ op' = op /\ sess' = sess /\ ref' = ref /\ disk' = disk
         /\ verified' = verified /\ tested' = tested
  <1>1. Quiet
    BY DEF Reporting, session, ghosts, Quiet
  <1>2. /\ claim' = claim /\ op' = op /\ sess' = sess /\ ref' = ref /\ disk' = disk
        /\ verified' = verified
    BY DEF Reporting, session
  <1> QED
    BY <1>1, <1>2, QuietKept DEF Referred, Quiet

LEMMA LookBeforeStep ==
  ASSUME IInv, LookBefore
  PROVE  IInv'
  <1>1. Reporting /\ pc = "report" /\ pc' = "reread"
    BY DEF LookBefore, At
  <1>2. report' = [first |-> Present, try |-> report.try, exit |-> report.exit,
                   world |-> report.world]
    BY DEF LookBefore, IInv, Shape
  <1>3. Shape' /\ Course' /\ Handed' /\ Accepted'
    BY <1>1, <1>2, ReportingQuiet DEF IInv, Shape, Course, Handed, OnDisk, Accepted, Deciding,
       Making, Reports
  <1> QED
    BY <1>1, <1>3, ReportingQuiet DEF IInv

\* The second look ends well only on the repository that was verified.
LEMMA LookAfterStep ==
  ASSUME IInv, LookAfter
  PROVE  IInv'
  <1>1. Reporting /\ pc = "reread" /\ pc' \in {"report", "done"}
    BY DEF LookAfter
  <1>2. report' = [first |-> report'.first, try |-> report'.try, exit |-> report'.exit,
                   world |-> report'.world]
    BY DEF LookAfter, IInv, Shape
  <1>3. report'.exit = "matches" => pc' = "done" /\ report'.world = verified.world
    <2>1. SUFFICES ASSUME report'.exit = "matches"
                   PROVE  pc' = "done" /\ report'.world = verified.world
      OBVIOUS
    <2>2. report.exit # "matches"
      BY <1>1 DEF IInv, Course
    <2>3. report'.exit # report.exit
      BY <2>1, <2>2
    <2>4. /\ report' = [report EXCEPT !.exit = IF Present = report.first /\ Present = verified.print
                                                 THEN "matches" ELSE "differs",
                                     !.world = World]
          /\ pc' = "done"
      BY <2>3 DEF LookAfter, IInv, Shape
    <2>5. report'.exit = (IF Present = report.first /\ Present = verified.print
                            THEN "matches" ELSE "differs")
          /\ report'.world = World
      BY <2>4 DEF IInv, Shape
    <2>6. Present = verified.print
      BY <2>1, <2>5
    <2>7. Fresh
      BY <1>1 DEF IInv, Course, Reports, Accepted
    <2>8. PrintOf(World) = PrintOf(left)
      BY <2>6, <2>7, PresentIsWorld DEF Fresh
    <2>9. World = left
      BY <2>8, PresentIsWorld, PrintDetermines DEF IInv, Knowledge
    <2> QED
      BY <2>4, <2>5, <2>7, <2>9 DEF Fresh
  <1>4. Shape' /\ Course' /\ Handed' /\ Accepted'
    BY <1>1, <1>2, <1>3, ReportingQuiet DEF IInv, Shape, Course, Handed, OnDisk, Accepted,
       Deciding, Making, Reports
  <1> QED
    BY <1>1, <1>4, ReportingQuiet DEF IInv

LEMMA EditStep ==
  ASSUME IInv, Edit
  PROVE  IInv'
  <1>1. /\ UNCHANGED <<watched, session, process, pc, op, disk, origin, tested, left>>
    BY DEF Edit
  <1>2. Quiet /\ Referred' = Referred
    BY <1>1, QuietKept DEF session, Quiet, Referred
  <1>3. Records' /\ Knowledge' /\ Tests' /\ (Fresh => Fresh')
    BY <1>1, <1>2, QuietKept DEF process
  <1>4. Shape' /\ Course' /\ Handed' /\ Accepted'
    BY <1>1, <1>2, <1>3 DEF session, process, IInv, Shape, Course, Handed, OnDisk, Accepted
  <1> QED
    BY <1>3, <1>4 DEF IInv

\* What was synced is not lost with the machine.
LEMMA CrashStep ==
  ASSUME IInv, Crash
  PROVE  IInv'
  <1>1. UNCHANGED <<repository, watched, session, process, op, ghosts>> /\ pc' = "down"
        /\ pc # "done"
    BY DEF Crash
  <1>2. Quiet /\ Referred' = Referred
    BY <1>1, QuietKept DEF session, ghosts, Quiet, Referred
  <1>3. Records' /\ Knowledge' /\ Tests' /\ (Fresh => Fresh')
    BY <1>1, <1>2, QuietKept DEF process
  <1>4. disk' = [dir |-> disk'.dir, file |-> disk'.file, kept |-> disk'.kept]
        /\ \A r : OnDisk(r) => OnDisk(r)'
    BY DEF Crash, IInv, Shape, OnDisk
  <1>5. sess.ref # NoRef => OnDisk(sess.ref)'
    BY <1>1, <1>4 DEF session, IInv, Handed, OnDisk
  <1>6. Shape' /\ Course' /\ Handed' /\ Accepted'
    BY <1>1, <1>2, <1>3, <1>4, <1>5 DEF session, process, ghosts, IInv, Shape, Course, Handed,
       OnDisk, Accepted, Deciding, Making, Reports
  <1> QED
    BY <1>3, <1>6 DEF IInv

\* Only a claim that was under way is taken up where it was.
LEMMA LoadStep ==
  ASSUME IInv, Load
  PROVE  IInv'
  <1>1. /\ UNCHANGED <<repository, watched, mutations, validations, claim, verified, report,
                        op, disk, used, ghosts>>
        /\ pc = "down" /\ ref' = sess.ref
    BY DEF Load
  <1>2. Quiet /\ Referred' = Referred
    BY <1>1, QuietKept DEF ghosts, Quiet, Referred
  <1>3. Records' /\ Knowledge' /\ Tests' /\ (Fresh => Fresh')
    BY <1>1, <1>2, QuietKept
  <1>4. sess' = [status |-> sess'.status, ref |-> sess.ref]
    BY DEF Load, IInv, Shape
  <1>5. \/ sess.status = "completed" /\ pc' = "done" /\ sess' = sess
        \/ sess.status \in {"aborted", "failed"} /\ pc' = "unlink" /\ sess' = sess
        \/ pc' = "held" /\ sess'.status = "paused"
        \/ pc' = "idle" /\ claim = NoClaim /\ sess'.status = "awaiting"
        \/ pc' = "inspect" /\ claim # NoClaim /\ sess'.status = "validating"
    BY DEF Load, IInv, Shape
  <1>6. Shape' /\ Course' /\ Handed' /\ Accepted'
    BY <1>1, <1>2, <1>3, <1>4, <1>5 DEF ghosts, IInv, Shape, Course, Handed,
       OnDisk, Accepted, Deciding, Making, Reports
  <1> QED
    BY <1>3, <1>6 DEF IInv

------------------------------------------------------------------------------
(* The session's work, which is done while there is no claim. *)

\* The parts of the invariant that are about the claim.
LEMMA WorkingKept ==
  ASSUME IInv, claim = NoClaim, pc = "idle",
         UNCHANGED <<authority, start, claim, process, disk>>,
         sess' = sess \/ sess' = [sess EXCEPT !.status = "paused"],
         pc' \in {"idle", "refused", "held"}
  PROVE  Course' /\ Handed' /\ Accepted'
  <1>1. sess.ref = NoRef /\ ref = NoRef /\ sess'.ref = NoRef /\ ref' = NoRef
    BY DEF IInv, Handed, Course, Shape, process
  <1>2. sess.status # "completed" /\ sess'.status # "completed" /\ sess'.status \notin {"aborted", "failed"}
    BY DEF IInv, Course, Shape, Reports
  <1> QED
    BY <1>1, <1>2 DEF IInv, Course, Handed, Accepted, Deciding, Making, Reports, process

LEMMA InstallStep ==
  ASSUME IInv, NEW p \in Path, NEW t \in Text, Install(p, t)
  PROVE  IInv'
  <1>1. /\ pc = "idle" /\ op = NoOp /\ op'.phase = "patched"
        /\ UNCHANGED <<watched, session, process, pc, disk, edited, tested, left>>
    BY DEF Install, Working
  <1>2. claim = NoClaim
    BY <1>1 DEF IInv, Course
  <1>3. Course' /\ Handed' /\ Accepted'
    BY <1>1, <1>2, WorkingKept DEF watched, session
  <1>4. Expected' = Expected /\ Near' = Near
    BY <1>1 DEF Expected, session, watched, Near
  <1>5. Knowledge'
    BY <1>1, <1>4 DEF IInv, Knowledge, NoOp, None, IsWorld
  <1>6. Shape' /\ Records' /\ Tests'
    BY <1>1 DEF IInv, Shape, Records, Tests, Tested, Runs, session, process
  <1> QED
    BY <1>3, <1>5, <1>6 DEF IInv

LEMMA ReadPatchedStep ==
  ASSUME IInv, NEW known \in BOOLEAN, ReadPatched(known)
  PROVE  IInv'
  <1>1. /\ pc = "idle" /\ op.phase = "patched" /\ op'.phase = "result"
        /\ op'.print = IF known THEN Present ELSE NoPrint
        /\ left' = IF known THEN World ELSE left
        /\ UNCHANGED <<watched, session, process, pc, disk, edited, tested>>
    BY DEF ReadPatched
  <1>2. claim = NoClaim
    BY <1>1 DEF IInv, Course
  <1>3. Course' /\ Handed' /\ Accepted'
    BY <1>1, <1>2, WorkingKept DEF watched, session
  <1>4. IsWorld(left)' /\ op'.print \in Near'
    BY <1>1, PresentIsWorld DEF Near, IInv, Knowledge, IsWorld
  <1>5. Knowledge'
    BY <1>1, <1>4 DEF Knowledge
  <1>6. Shape' /\ Records' /\ Tests'
    BY <1>1 DEF IInv, Shape, Records, Tests, Tested, Runs, session, process
  <1> QED
    BY <1>3, <1>5, <1>6 DEF IInv

\* A record joins the others, and its fingerprint is what the session goes by.
LEMMA RecordedKept ==
  ASSUME IInv, NEW record, mutations' = Append(mutations, record), op' = NoOp,
         record.kind \in {"patch", "terminal"},
         record.kind = "patch" => record.outcome = "observed",
         record.print \in Near,
         UNCHANGED <<validations, sess, report, tested, left, disk, start>>
  PROVE  Shape' /\ Records' /\ Knowledge' /\ Tests'
  <1>1. /\ IsSeq(mutations)' /\ Len(mutations)' = Len(mutations) + 1
        /\ mutations'[Len(mutations) + 1] = record
        /\ \A i \in 1..Len(mutations) : mutations'[i] = mutations[i]
        /\ Len(mutations) \in Nat
    BY Appended DEF IInv, Records, IsSeq
  <1>2. Records'
    <2>1. \A i \in 1..Len(mutations') :
             /\ mutations'[i].kind \in {"patch", "terminal"}
             /\ mutations'[i].kind = "patch" => mutations'[i].outcome = "observed"
      BY <1>1 DEF IInv, Records
    <2>2. \A i \in 1..Len(validations') : validations'[i].seq \in 0..Len(mutations')
      BY <1>1 DEF IInv, Records
    <2> QED
      BY <1>1, <2>1, <2>2 DEF IInv, Records
  <1>3. Expected' = record.print
    <2>1. Len(validations) \in Nat
      BY DEF IInv, Records, IsSeq
    <2>2. ~ (Len(validations') > 0 /\ validations'[Len(validations')].seq = Len(mutations'))
      BY <1>1, <2>1 DEF IInv, Records
    <2> QED
      BY <1>1, <2>2 DEF Expected
  <1>4. Near' = Near /\ IsWorld(left)'
    BY DEF Near, IInv, Knowledge
  <1>5. Knowledge'
    BY <1>3, <1>4 DEF Knowledge, NoOp, None
  <1>6. Shape' /\ Tests'
    BY DEF IInv, Shape, Tests, Tested, Runs
  <1> QED
    BY <1>2, <1>5, <1>6

LEMMA RecordPatchStep ==
  ASSUME IInv, RecordPatch
  PROVE  IInv'
  <1> DEFINE record == PatchRecord(op.path, op.before, op.print)
  <1>1. /\ pc = "idle" /\ op.phase = "result" /\ op' = NoOp
        /\ mutations' = Append(mutations, record)
        /\ UNCHANGED <<watched, validations, sess, claim, process, pc, disk, ghosts>>
    BY DEF RecordPatch
  <1>2. claim = NoClaim
    BY <1>1 DEF IInv, Course
  <1>3. Course' /\ Handed' /\ Accepted'
    BY <1>1, <1>2, WorkingKept DEF watched
  <1>4. record.kind = "patch" /\ record.outcome = "observed" /\ record.print = op.print
    BY DEF PatchRecord
  <1>5. record.print \in Near
    BY <1>1, <1>4 DEF IInv, Knowledge
  <1> HIDE DEF record
  <1>6. Shape' /\ Records' /\ Knowledge' /\ Tests'
    BY <1>1, <1>4, <1>5, RecordedKept DEF watched, process, ghosts
  <1> QED
    BY <1>3, <1>6 DEF IInv

LEMMA RefusePatchStep ==
  ASSUME IInv, RefusePatch
  PROVE  IInv'
  <1>1. /\ pc = "idle" /\ pc' = "refused"
        /\ UNCHANGED <<watched, session, process, op, disk, ghosts>>
    BY DEF RefusePatch
  <1>2. claim = NoClaim
    BY <1>1 DEF IInv, Course
  <1>3. Course' /\ Handed' /\ Accepted'
    BY <1>1, <1>2, WorkingKept DEF watched, session
  <1>4. Quiet
    BY <1>1 DEF Quiet, session, ghosts
  <1>5. Records' /\ Knowledge' /\ Tests'
    BY <1>4, QuietKept
  <1>6. Shape'
    BY <1>1 DEF IInv, Shape, session, process, ghosts
  <1> QED
    BY <1>3, <1>5, <1>6 DEF IInv

LEMMA LaunchStep ==
  ASSUME IInv, Launch
  PROVE  IInv'
  <1>1. /\ pc = "idle" /\ op = NoOp /\ op'.phase = "launched"
        /\ UNCHANGED <<start, authority, session, process, pc, disk, ghosts>>
    BY DEF Launch, Working
  <1>2. claim = NoClaim
    BY <1>1 DEF IInv, Course
  <1>3. Course' /\ Handed' /\ Accepted'
    BY <1>1, <1>2, WorkingKept DEF session
  <1>4. Expected' = Expected /\ Near' = Near
    BY <1>1 DEF Expected, session, Near, ghosts
  <1>5. Knowledge'
    BY <1>1, <1>4 DEF IInv, Knowledge, NoOp, None, IsWorld, ghosts
  <1>6. Shape' /\ Records' /\ Tests'
    BY <1>1 DEF IInv, Shape, Records, Tests, Tested, Runs, session, process, ghosts
  <1> QED
    BY <1>3, <1>5, <1>6 DEF IInv

LEMMA RunStep ==
  ASSUME IInv, NEW e \in Effects, Run(e)
  PROVE  IInv'
  <1>1. /\ pc = "idle" /\ op.phase = "launched" /\ op'.phase = "exited"
        /\ UNCHANGED <<watched, session, process, pc, disk, used, edited, tested, left>>
    BY DEF Run
  <1>2. claim = NoClaim
    BY <1>1 DEF IInv, Course
  <1>3. Course' /\ Handed' /\ Accepted'
    BY <1>1, <1>2, WorkingKept DEF watched, session
  <1>4. Expected' = Expected /\ Near' = Near
    BY <1>1 DEF Expected, session, watched, Near
  <1>5. Knowledge'
    BY <1>1, <1>4 DEF IInv, Knowledge, IsWorld
  <1>6. Shape' /\ Records' /\ Tests'
    BY <1>1 DEF IInv, Shape, Records, Tests, Tested, Runs, session, process
  <1> QED
    BY <1>3, <1>5, <1>6 DEF IInv

LEMMA ObserveStep ==
  ASSUME IInv, NEW o \in {ObservedAfter, Unknown}, Observe(o)
  PROVE  IInv'
  <1>1. /\ pc = "idle" /\ op.phase = "exited" /\ op'.phase = "observed" /\ post' = o
        /\ left' = IF o # Unknown /\ Present = Fingerprint(pre.at) THEN left ELSE World
        /\ UNCHANGED <<pre, start, authority, session, process, pc, disk, tested>>
    BY DEF Observe
  <1>2. claim = NoClaim
    BY <1>1 DEF IInv, Course
  <1>3. Course' /\ Handed' /\ Accepted'
    BY <1>1, <1>2, WorkingKept DEF session
  <1>4. Expected' = Expected /\ Expected \in Near
    BY <1>1 DEF Expected, session, IInv, Knowledge
  <1>5. IsWorld(left)'
    BY <1>1, PresentIsWorld DEF IInv, Knowledge, IsWorld
  <1>6. Unknown.state = "unknown"
    BY DEF Unknown, NoObservation
  <1>7. ObservedAfter.at = Collected /\ ObservedAfter.state # "unknown"
    BY DEF ObservedAfter, NoObservation
  <1>8. ASSUME o # Unknown
        PROVE  IF Fingerprint(pre.at)' = Fingerprint(post.at)' THEN Expected' \in Near'
                                                               ELSE Fingerprint(post.at)' \in Near'
    <2>1. post' = ObservedAfter /\ Fingerprint(post.at)' = Present
      BY <1>1, <1>7, <1>8 DEF Present, Fingerprint
    <2>2. Fingerprint(pre.at)' = Fingerprint(pre.at)
      BY <1>1 DEF Fingerprint
    <2>3. CASE Present = Fingerprint(pre.at)
      BY <1>1, <1>4, <1>8, <2>1, <2>2, <2>3 DEF Near
    <2>4. CASE Present # Fingerprint(pre.at)
      BY <1>1, <2>1, <2>2, <2>4, PresentIsWorld DEF Near
    <2> QED
      BY <2>3, <2>4
  <1>9. Knowledge'
    BY <1>1, <1>5, <1>6, <1>8 DEF Knowledge
  <1>10. Shape' /\ Records' /\ Tests'
    BY <1>1 DEF IInv, Shape, Records, Tests, Tested, Runs, session, process
  <1> QED
    BY <1>3, <1>9, <1>10 DEF IInv

\* Of the outcomes of a comparison only "observed" claims a fingerprint.
LEMMA CompareSays ==
  /\ Compare.outcome = "none" => post.state = "complete" /\ Fingerprint(pre.at) = Fingerprint(post.at)
  /\ Compare.outcome = "observed" => post.state = "complete" /\ Fingerprint(pre.at) # Fingerprint(post.at)
  BY DEF Compare, Effect

LEMMA ApplyStep ==
  ASSUME IInv, Apply
  PROVE  IInv'
  <1>1. /\ pc = "idle" /\ op.phase = "observed" /\ op' = NoOp
        /\ UNCHANGED <<repository, watched, validations, sess, claim, process, pc, disk, used,
                       ghosts>>
    BY DEF Apply
  <1>2. claim = NoClaim
    BY <1>1 DEF IInv, Course
  <1>3. Course' /\ Handed' /\ Accepted'
    BY <1>1, <1>2, WorkingKept DEF watched
  <1>4. CASE Compare.outcome = "none" /\ mutations' = mutations
    <2>1. Expected' = Expected /\ Near' = Near /\ Expected \in Near
      BY <1>1, <1>4, CompareSays DEF Expected, watched, Near, ghosts, IInv, Knowledge
    <2>2. Knowledge'
      BY <1>1, <2>1 DEF Knowledge, NoOp, None, IInv, IsWorld, ghosts
    <2>3. Shape' /\ Records' /\ Tests'
      BY <1>1, <1>4 DEF IInv, Shape, Records, Tests, Tested, Runs, process, ghosts
    <2> QED
      BY <1>3, <2>2, <2>3 DEF IInv
  <1>5. ASSUME NEW paths \in Listings(Compare.paths),
               mutations' = Append(mutations, TerminalRecord(Compare, paths))
        PROVE  IInv'
    <2> DEFINE record == TerminalRecord(Compare, paths)
    <2>1. record.kind = "terminal"
          /\ record.print = IF Compare.outcome = "observed" THEN Fingerprint(post.at) ELSE NoPrint
      BY DEF TerminalRecord
    <2> HIDE DEF record
    <2>2. record.print \in Near
      BY <1>1, <2>1, CompareSays DEF IInv, Knowledge, Near
    <2>3. mutations' = Append(mutations, record)
      BY <1>5 DEF record
    <2>4. Shape' /\ Records' /\ Knowledge' /\ Tests'
      BY <1>1, <2>1, <2>2, <2>3, RecordedKept DEF watched, process, ghosts
    <2> QED
      BY <1>3, <2>4 DEF IInv
  <1> QED
    BY <1>4, <1>5 DEF Apply

\* A run of a command is recorded with the repository it saw, or without one.
LEMMA ValidatedKept ==
  ASSUME IInv, NEW c \in Command, NEW record, NEW w,
         validations' = Append(validations, record),
         record.command = c, record.seq = Len(mutations),
         IsWorld(left'), record.print \in Near',
         tested' = [tested EXCEPT ![c] = w],
         record.passed => IsWorld(w) /\ record.print = PrintOf(w),
         op' = op, op = NoOp, mutations' = mutations
  PROVE  Records' /\ Knowledge' /\ Tests'
  <1> PICK v : v = Len(validations)
    OBVIOUS
  <1>1. /\ IsSeq(validations') /\ Len(validations') = v + 1
        /\ validations'[v + 1] = record
        /\ \A i \in 1..v : validations'[i] = validations[i]
        /\ v \in Nat /\ Len(mutations) \in Nat
    BY Appended DEF IInv, Records, IsSeq
  <1>2. DOMAIN validations = 1..v /\ DOMAIN validations' = 1..(v + 1)
    BY <1>1, Domain DEF IInv, Records
  <1>3. Records'
    <2>1. \A i \in 1..Len(validations') : validations'[i].seq \in 0..Len(mutations')
      BY <1>1 DEF IInv, Records
    <2> QED
      BY <1>1, <2>1 DEF IInv, Records
  <1>4. Knowledge'
    <2>1. Expected' = record.print
      BY <1>1 DEF Expected
    <2> QED
      BY <2>1 DEF Knowledge, NoOp, None
  <1>5. ASSUME NEW d \in Command, Runs(d)' # {}
        PROVE  \E i \in Runs(d)' : Tested(d, i)'
    <2>1. CASE d = c
      <3>1. v + 1 \in Runs(d)' /\ \A j \in Runs(d)' : j <= v + 1
        BY <1>1, <1>2, <2>1 DEF Runs
      <3>2. tested'[d] = w
        BY <2>1 DEF IInv, Shape
      <3>3. Tested(d, v + 1)'
        BY <1>1, <3>1, <3>2 DEF Tested, IsWorld
      <3> QED
        BY <3>1, <3>3
    <2>2. CASE d # c
      <3>1. Runs(d)' = Runs(d) /\ Runs(d) \subseteq 1..v
        BY <1>1, <1>2, <2>2 DEF Runs
      <3>2. tested'[d] = tested[d]
        BY <2>2 DEF IInv, Shape
      <3>3. PICK i \in Runs(d) : Tested(d, i)
        BY <1>5, <3>1 DEF IInv, Tests
      <3>4. validations'[i] = validations[i]
        BY <1>1, <3>1
      <3>5. Tested(d, i)'
        BY <3>1, <3>2, <3>3, <3>4 DEF Tested, IsWorld, PrintOf, StatusIn
      <3> QED
        BY <3>1, <3>5
    <2> QED
      BY <2>1, <2>2
  <1>6. Tests'
    BY <1>5 DEF Tests
  <1> QED
    BY <1>3, <1>4, <1>6

LEMMA ValidateStep ==
  ASSUME IInv, NEW c \in Command, NEW passed \in BOOLEAN, Validate(c, passed)
  PROVE  IInv'
  <1> DEFINE record == [command |-> c, passed |-> passed, seq |-> Len(mutations),
                        print |-> Present]
             w == IF passed THEN World ELSE NoWorld
  <1>1. /\ pc = "idle" /\ op = NoOp /\ validations' = Append(validations, record)
        /\ tested' = [tested EXCEPT ![c] = w] /\ left' = World
        /\ UNCHANGED <<watched, mutations, sess, claim, process, pc, op, disk>>
    BY DEF Validate, Working
  <1>2. claim = NoClaim
    BY <1>1 DEF IInv, Course
  <1>3. Course' /\ Handed' /\ Accepted'
    BY <1>1, <1>2, WorkingKept DEF watched
  <1>4. /\ record.command = c /\ record.seq = Len(mutations) /\ record.print = PrintOf(World)
        /\ record.passed = passed
    BY PresentIsWorld
  <1>5. record.passed => IsWorld(w) /\ record.print = PrintOf(w)
    BY <1>4, PresentIsWorld
  <1>6. IsWorld(left') /\ record.print \in Near'
    BY <1>1, <1>4, PresentIsWorld DEF Near
  <1>7. Shape'
    BY <1>1 DEF IInv, Shape, process
  <1> HIDE DEF record, w
  <1>8. Records' /\ Knowledge' /\ Tests'
    BY <1>1, <1>4, <1>5, <1>6, ValidatedKept
  <1> QED
    BY <1>3, <1>7, <1>8 DEF IInv

LEMMA DisturbedStep ==
  ASSUME IInv, NEW c \in Command, NEW p \in Path, NEW t \in Text, Disturbed(c, p, t)
  PROVE  IInv'
  <1> DEFINE record == [command |-> c, passed |-> FALSE, seq |-> Len(mutations),
                        print |-> NoPrint]
  <1>1. /\ pc = "idle" /\ op = NoOp /\ validations' = Append(validations, record)
        /\ tested' = [tested EXCEPT ![c] = NoWorld]
        /\ sess' = [sess EXCEPT !.status = "paused"] /\ pc' = "held"
        /\ UNCHANGED <<watched, mutations, claim, process, op, disk, origin, left>>
    BY DEF Disturbed, Working
  <1>2. claim = NoClaim
    BY <1>1 DEF IInv, Course
  <1>3. Course' /\ Handed' /\ Accepted'
    BY <1>1, <1>2, WorkingKept DEF watched
  <1>4. /\ record.command = c /\ record.seq = Len(mutations) /\ record.print = NoPrint
        /\ record.passed = FALSE
    OBVIOUS
  <1>5. IsWorld(left') /\ record.print \in Near'
    BY <1>1, <1>4 DEF Near, IInv, Knowledge
  <1>6. Shape'
    BY <1>1 DEF IInv, Shape, process
  <1> HIDE DEF record
  <1>7. Records' /\ Knowledge' /\ Tests'
    BY <1>1, <1>4, <1>5, ValidatedKept
  <1> QED
    BY <1>3, <1>6, <1>7 DEF IInv

------------------------------------------------------------------------------
(* The theorems. *)

LEMMA InitKept == ASSUME Init PROVE IInv
  <1>1. Expected = Present
    <2>1. Len(mutations) = 0 /\ Len(validations) = 0
      BY DEF Init
    <2> QED
      BY <2>1 DEF Init, Expected, Present
  <1>2. Knowledge
    BY <1>1, PresentIsWorld DEF Init, Knowledge, Near, NoOp, None
  <1>3. Records
    BY DEF Init, Records, IsSeq
  <1>4. \A c \in Command : Runs(c) = {}
    BY DEF Init, Runs
  <1>5. Shape /\ Tests
    BY <1>4 DEF Init, Shape, Tests, NoReport
  <1>6. Course /\ Handed /\ Accepted
    BY DEF Init, Course, Handed, Accepted, Deciding, Making, Reports, NoReport, None
  <1> QED
    BY <1>2, <1>3, <1>5, <1>6 DEF IInv

LEMMA StutterKept == ASSUME IInv, UNCHANGED vars PROVE IInv'
  <1>1. UNCHANGED <<mutations, validations, sess, claim, ref, verified, report, pre, post, start,
                    authority, pc, op, disk, tested, left>>
    BY DEF vars, session, process, watched, ghosts
  <1>2. Quiet /\ Referred' = Referred
    BY <1>1, QuietKept DEF Quiet, watched, Referred
  <1>3. Records' /\ Knowledge' /\ Tests' /\ (Fresh => Fresh')
    BY <1>1, <1>2, QuietKept
  <1>4. Shape' /\ Course' /\ Handed' /\ Accepted'
    BY <1>1, <1>2, <1>3 DEF IInv, Shape, Course, Handed, OnDisk, Accepted
  <1> QED
    BY <1>3, <1>4 DEF IInv

\* What the session records, what it knows of the repository, its claim and the
\* handoff on the disk stay in step through every step, crash and restart
\* (agent-runtime.ts, completion.ts, completion-handoff-store.ts).
THEOREM Invariance == Spec => []IInv
  <1>1. Init => IInv
    BY InitKept
  <1>2. IInv /\ [Next]_vars => IInv'
    <2>1. SUFFICES ASSUME IInv, [Next]_vars PROVE IInv'
      OBVIOUS
    <2>2. CASE Work
      BY <2>1, <2>2, InstallStep, ReadPatchedStep, RecordPatchStep, RefusePatchStep, LaunchStep,
         RunStep, ObserveStep, ApplyStep, ValidateStep, DisturbedStep DEF Work
    <2>3. CASE Claiming
      BY <2>1, <2>3, MakeClaimStep, RejectStep, AcceptStep, MakeDirectoryStep, SyncParentStep,
         RenameHandoffStep, SyncHandoffStep, AssertReusableStep, CommitStep, LookBeforeStep,
         LookAfterStep DEF Claiming
    <2>4. CASE Stopping
      BY <2>1, <2>4, FailStep, AbortStep, PauseStep, UnlinkStep, SyncRemovalStep DEF Stopping
    <2>5. CASE Edit \/ Crash \/ Load
      BY <2>1, <2>5, EditStep, CrashStep, LoadStep
    <2>6. CASE UNCHANGED vars
      BY <2>1, <2>6, StutterKept
    <2> QED
      BY <2>1, <2>2, <2>3, <2>4, <2>5, <2>6 DEF Next
  <1> QED
    BY <1>1, <1>2, PTL DEF Spec

\* The handoff a session refers to can be read, also after a power loss, and
\* none is left of a session that ended otherwise (completion-handoff-store.ts).
THEOREM HandoffHolds == Spec => []HandoffKept
  <1>1. IInv => HandoffKept
    <2>1. SUFFICES ASSUME IInv PROVE HandoffKept
      OBVIOUS
    <2>2. sess.ref # NoRef => disk.dir = "kept" /\ disk.file = sess.ref /\ disk.kept = sess.ref
      BY <2>1 DEF IInv, Handed, OnDisk
    <2>3. ASSUME pc = "reuse"
          PROVE  disk.file = ref /\ ref = Handoff
      BY <2>1, <2>3, HandoffIs DEF IInv, Handed, OnDisk, Accepted, Deciding
    <2> QED
      BY <2>1, <2>2, <2>3 DEF HandoffKept, IInv, Handed
  <1> QED
    BY <1>1, Invariance, PTL

\* A session is completed on the repository that every required command last
\* passed on and that the session's last effect left, and its command ends well
\* only if that is what it reported (completion.ts, commands.ts).
THEOREM AcceptedFreshHolds == Spec => []AcceptedFresh
  <1>1. IInv => AcceptedFresh
    <2>1. SUFFICES ASSUME IInv, sess.status = "completed"
                   PROVE  /\ \A c \in Required : tested[c] = verified.world
                          /\ verified.world = left
                          /\ \A i \in DOMAIN mutations : mutations[i].outcome = "observed"
                          /\ authority = "frozen" => verified.world.head = start.base
                          /\ report.exit = "matches" => report.world = verified.world
      BY DEF AcceptedFresh
    <2>2. Fresh
      BY <2>1 DEF IInv, Accepted
    <2>3. DOMAIN mutations = 1..Len(mutations)
      BY <2>1, Domain DEF IInv, Records
    <2> QED
      BY <2>1, <2>2, <2>3 DEF Fresh, IInv, Course
  <1> QED
    BY <1>1, Invariance, PTL

================================================================================
