---- MODULE WorkspaceObserver ----
(***************************************************************************)
(* What the harness sees of the repository around a terminal command       *)
(* (src/repository/workspace-observer.ts and the parts of git.ts it reads  *)
(* through).  A collection of the state of the repository takes many reads *)
(* at different moments, while other programs write: Git's status, a       *)
(* second status with contents, every changed file by itself, the control  *)
(* files.  An observation is two collections that agree; it is tried       *)
(* twice.  Two observations are compared to tell what the command did.     *)
(*                                                                         *)
(* The worktree maps paths to texts; a stamp stands for the inode, size    *)
(* and times of a file, so that two writes during an observation are told  *)
(* apart.  The index follows HEAD.  The files whose contents are never     *)
(* disclosed, and Git's control files, are one version number.  Renames,   *)
(* modes, line counts, nested repositories and the bounds on entries and   *)
(* bytes are left out.                                                     *)
(***************************************************************************)
EXTENDS Naturals, Sequences

CONSTANTS Order,     \* the visible paths, in Git's order
          Content,   \* the texts of a file that exists
          Baseline,  \* paths dirty at session start that no checkpoint holds
          Large,     \* paths whose content is too large to be retained
          Worktree   \* the worktrees a command may find

Path == {Order[k] : k \in 1..Len(Order)}
Absent == "absent"
Text == Content \cup {Absent}

ASSUME ObserverAssumption == Absent \notin Content /\ Baseline \subseteq Path
                             /\ Large \subseteq Path

VARIABLES wt,       \* the worktree: a text and a stamp for every path
          head,     \* the commit HEAD names: its number and its tree
          objects,  \* the texts that are blobs of the object store
          hidden,   \* the version of protected files and control files
          look,     \* the observation under way
          pre, post \* the observations made

repo == <<wt, head, objects, hidden>>
seen == <<look, pre, post>>

------------------------------------------------------------------------
\* What programs do to the repository.

Write(p, t) ==
  /\ t # wt[p].text
  /\ wt' = [wt EXCEPT ![p] =
              [text |-> t, stamp |-> IF look.phase = "idle" THEN @.stamp
                                                            ELSE @.stamp + 1]]
  /\ UNCHANGED <<head, objects, hidden>>

Tree == [p \in Path |-> wt[p].text]

CommitAll ==
  /\ Tree # head.tree
  /\ head' = [id |-> head.id + 1, tree |-> Tree]
  /\ objects' = objects \cup ({Tree[p] : p \in Path} \ {Absent})
  /\ UNCHANGED <<wt, hidden>>

TouchHidden == hidden' = hidden + 1 /\ UNCHANGED <<wt, head, objects>>

------------------------------------------------------------------------
\* The kind of the entry that Git's status prints for a path.
Kind(p, tree) ==
  LET t == wt[p].text IN
  IF t = tree[p]           THEN "clean"
  ELSE IF tree[p] = Absent THEN "untracked"
  ELSE IF t = Absent       THEN "deleted"
  ELSE                          "modified"

NoSample == [text |-> Absent, stamp |-> 0]
NoCommit == [id |-> 0, tree |-> [p \in Path |-> Absent]]

Blank == [head    |-> NoCommit,
          kind    |-> [p \in Path |-> "clean"],
          base    |-> NoCommit,
          status  |-> [p \in Path |-> [kind |-> "clean", text |-> Absent]],
          hidden  |-> 0,
          sample  |-> [p \in Path |-> NoSample],
          guard   |-> 0,
          control |-> 0]

NoImage == [p \in Path |-> [kind |-> "none", text |-> Absent]]
NoObservation == [state |-> "none", at |-> Blank, images |-> NoImage,
                  moved |-> {}]
Unknown == [NoObservation EXCEPT !.state = "unknown"]
Idle == [phase |-> "idle", try |-> 1, round |-> 1, stage |-> "porcelain",
         i |-> 1, now |-> Blank, first |-> Blank, images |-> NoImage]

Stages == <<"porcelain", "status", "read", "controls">>
After(stage) == CHOOSE s \in {"status", "read", "controls"} :
                  \E k \in 1..3 : Stages[k] = stage /\ Stages[k + 1] = s

\* The collection goes on with b: with the next path, or with the next stage.
Onward(b) ==
  look' = IF look.i < Len(Order)
            THEN [look EXCEPT !.now = b, !.i = @ + 1]
            ELSE [look EXCEPT !.now = b, !.i = 1, !.stage = After(@)]

\* A bracket of a catalog command is one status, without the stages around it.
StartLook(phase) ==
  look' = [Idle EXCEPT !.phase = phase,
                       !.stage = IF phase \in {"before", "after"}
                                   THEN "status" ELSE "porcelain"]

\* An observation under way has come to stage s.
Stage(s) == look.phase # "idle" /\ look.stage = s

\* Git's status names the paths that differ from HEAD.
Porcelain ==
  /\ Stage("porcelain")
  /\ LET p == Order[look.i]
         h == IF look.i = 1 THEN head ELSE look.now.head
     IN  Onward([look.now EXCEPT !.head = h, !.kind[p] = Kind(p, h.tree)])
  /\ UNCHANGED <<repo, pre, post>>

\* A keyed digest of a path's content, of what is kept from the model, and of
\* the files in which Git notes where HEAD and the other references are.
ContentState(p, kind) == IF kind = "clean" THEN Absent ELSE wt[p].text
ProtectedState == hidden
ReferenceState == head.id

\* The status of GitInspector: what Git prints and the content of each entry.
\* Protected and control files are read behind the last one.
Status ==
  /\ Stage("status")
  /\ LET p == Order[look.i]
         h == IF look.i = 1 THEN head ELSE look.now.base
         k == Kind(p, h.tree)
     IN  Onward([look.now EXCEPT
           !.base = h,
           !.status[p] = [kind |-> k, text |-> ContentState(p, k)],
           !.hidden = IF look.i = Len(Order) THEN ProtectedState ELSE @])
  /\ UNCHANGED <<repo, pre, post>>

------------------------------------------------------------------------
\* An attempt that met a race is made once more; then, as when its time is
\* up, the command is not launched, or its effect stays unknown.
GiveUp ==
  /\ look' = Idle
  /\ IF look.phase \in {"pre", "before"}
       THEN pre' = Unknown /\ UNCHANGED post
       ELSE post' = Unknown /\ UNCHANGED pre

Raced ==
  IF look.try < 2
    THEN look' = [Idle EXCEPT !.phase = look.phase, !.try = 2]
         /\ UNCHANGED <<pre, post>>
    ELSE GiveUp

TimeOut == look.phase # "idle" /\ GiveUp /\ UNCHANGED repo

\* A file as it is read: its text, with the stamp that tells two reads apart.
Sample(p) == IF wt[p].text = Absent THEN NoSample ELSE wt[p]

\* Each entry of the first status is read by itself, unless the second one no
\* longer has it.  A file that is written meanwhile is a race as well.
ReadEntry ==
  /\ Stage("read") /\ look.phase \in {"pre", "post"}
  /\ LET p == Order[look.i]
         k == look.now.kind[p]
     IN  \/ /\ k = "clean"
            /\ Onward(look.now) /\ UNCHANGED <<pre, post>>
         \/ /\ k # "clean" /\ look.now.status[p].kind = k
            /\ Onward([look.now EXCEPT !.sample[p] = Sample(p)])
            /\ UNCHANGED <<pre, post>>
         \/ /\ k # "clean" /\ look.now.status[p].kind # k
            /\ Raced
  /\ UNCHANGED repo

\* What is kept of a path before the launch, so that it can be told, and put
\* back: the content, or the name of a blob that has it, or a digest only.
\* Of a clean path nothing is kept, unless it is work from before the session.
Image(p, b, baseline) ==
  LET t == IF b.kind[p] = "clean" THEN wt[p].text ELSE b.sample[p].text
  IN  [text |-> t,
       kind |-> IF b.kind[p] = "clean" /\ p \notin baseline THEN "none"
                ELSE IF t = Absent     THEN "absent"
                ELSE IF p \notin Large THEN "retained"
                ELSE IF t \in objects  THEN "blob"
                ELSE                        "identity"]

\* Mutant of Reconstructible: a digest is held to be enough.
Identified(image, needed) == \A p \in needed : image[p].kind # "absent"

\* Work from before the session that nothing else holds needs its content.
Reconstructible(image, needed) ==
  \A p \in needed : image[p].kind \in {"retained", "blob"}

\* The paths on which two commits differ.
Moved(from, to) ==
  IF from.id = to.id THEN {}
  ELSE {p \in Path : from.tree[p] # to.tree[p]}

\* The second collection: the observation is made if both have seen the same.
Settle(b) ==
  \/ /\ b # look.first
     /\ Raced
  \/ /\ b = look.first
     /\ look' = Idle
     /\ LET o == [state  |-> "complete", at |-> b, images |-> look.images,
                  moved |-> IF look.phase = "pre" THEN {}
                            ELSE Moved(pre.at.head, b.head)]
        IN  IF look.phase = "pre"
              THEN pre' = o /\ UNCHANGED post
              ELSE /\ post' = IF b.guard # pre.at.guard
                                THEN [o EXCEPT !.state = "protected"] ELSE o
                   /\ UNCHANGED pre

\* The control files come last.  Behind the first collection the images are
\* taken; one that would be missing stops the launch without another attempt.
Controls ==
  /\ Stage("controls")
  /\ LET b == [look.now EXCEPT !.control = ReferenceState,
                              !.guard = ProtectedState]
         image == IF look.phase = "post" THEN NoImage
                  ELSE [p \in Path |-> Image(p, b, Baseline)]
     IN  \/ /\ look.round = 2
            /\ Settle(b)
         \/ /\ look.round = 1
            /\ look.phase = "post" \/ Reconstructible(image, Baseline)
            /\ look' = [look EXCEPT !.round = 2, !.stage = "porcelain",
                          !.i = 1, !.now = Blank, !.first = b,
                          !.images = image]
            /\ UNCHANGED <<pre, post>>
         \/ /\ look.round = 1 /\ look.phase = "pre"
            /\ ~Reconstructible(image, Baseline)
            /\ GiveUp
  /\ UNCHANGED repo

\* The status that brackets a catalog command is taken as it is.
Bracket ==
  /\ Stage("read") /\ look.phase \in {"before", "after"}
  /\ look' = Idle
  /\ LET o == [NoObservation EXCEPT !.state = "complete", !.at = look.now]
     IN  IF look.phase = "before" THEN pre' = o /\ UNCHANGED post
                                  ELSE post' = o /\ UNCHANGED pre
  /\ UNCHANGED repo

Collect == Bracket \/ Porcelain \/ Status \/ ReadEntry \/ Controls

------------------------------------------------------------------------
\* What is known of a path: that it does not exist, or its text, read from a
\* file or a tree, or known by the name of its blob.
Known(t, how) == [text |-> t, how |-> IF t = Absent THEN "none" ELSE how]

\* The tree of the commit an observation was made at.
TreeState(p, o) == Known(o.at.head.tree[p], "file")

\* Where the two commits differ, the raw diff between them names the blobs.
CommittedState(p, o) ==
  IF p \in post.moved THEN Known(o.at.head.tree[p], "blob") ELSE TreeState(p, o)

\* What an observation says of a path: its image, the file, or the commit.
PathState(p, o) ==
  IF o.images[p].kind # "none"        THEN Known(o.images[p].text, "file")
  ELSE IF o.at.sample[p] # NoSample   THEN Known(o.at.sample[p].text, "file")
  ELSE IF o.at.kind[p] = "deleted"    THEN Known(Absent, "file")
  ELSE                                     CommittedState(p, o)

\* The paths that may have changed: those either status lists, and those on
\* which the two commits differ.
Candidates ==
  {p \in Path : pre.at.kind[p] # "clean" \/ post.at.kind[p] # "clean"}
    \cup post.moved

Changed(p) ==
  \/ PathState(p, pre) # PathState(p, post)
  \/ pre.at.status[p] # post.at.status[p]

\* The lines of a change are counted between two commits, or from the bytes of
\* both sides: those of a large file are not kept, be it read from the worktree
\* or from a tree.
Uncounted(p) ==
  /\ p \notin post.moved
  /\ \/ pre.images[p].kind \in {"blob", "identity"}
     \/ /\ p \in Large /\ pre.images[p].kind = "none"
        /\ PathState(p, pre).text # Absent
     \/ p \in Large /\ PathState(p, post).text # Absent

Effect(outcome, paths) == [outcome |-> outcome, paths |-> paths]

\* Mutant of Fingerprint: what Git lists is all that is compared.
VisibleOnly(b) == <<b.base, b.status>>

Fingerprint(b) == <<b.base, b.status, b.hidden, b.control>>

\* The comparison: "none" and "observed" are claims, the others are not.
Compare ==
  LET changed == {p \in Candidates : Changed(p)} IN
  IF pre.state = "complete" /\ post.state # "unknown"
       /\ pre.at.guard # post.at.guard                 THEN Effect("protected", {})
  ELSE IF pre.state # "complete" \/ post.state # "complete"
                                                       THEN Effect("unknown", {})
  ELSE IF Fingerprint(pre.at) = Fingerprint(post.at)   THEN Effect("none", {})
  ELSE IF \E p \in changed : Uncounted(p)              THEN Effect("unknown", changed)
  ELSE                                                      Effect("observed", changed)
====
