--------------------------- MODULE PinnedMutation ---------------------------
(* The filesystem operations of src/repository/pinned-mutation-worker.ts.   *)
(* Every change to the worktree is made by a child process that holds the   *)
(* parent directory, works on the leaves of one changed path and answers    *)
(* once.  An operation is described by the states its system calls leave    *)
(* behind: the last one when it answers, any of them when it is cut short.  *)
(* A file is named by its inode and bytes together: Orig is the file before *)
(* the patch, Staged the one written with the new bytes, Again and Before   *)
(* are old bytes in a new inode, Torn a write cut short, and Edits are the  *)
(* files of the operator and other programs.                                *)
EXTENDS Naturals, FiniteSets

CONSTANT Edits  \* the files other programs leave at a path, in order

Absent == "absent"
Obj == {Absent, "orig", "staged", "again", "before", "torn"} \cup Edits

ASSUME EditsAssumption ==
  Edits \cap {Absent, "orig", "staged", "again", "before", "torn"} = {}

\* The target and, next to it, the artifacts of the patch and of the rollback.
Leaf == {"target", "new", "old", "probe", "newR", "oldR", "probeR"}

\* The private directories through which a patch and a rollback remove files.
Box == {"private", "privateR"}

\* Some name of the family still leads to the file.
Held(f, o) ==
  \/ \E n \in Leaf : f.at[n] = o
  \/ \E b \in Box, n \in Leaf : f.parked[b][n] = o

Contents(o) == IF o \in {"orig", "again", "before"} THEN "old bytes" ELSE o

\* The number of names of the file at the target: what nlink reports.
Links(f) ==
  Cardinality({n \in Leaf : f.at[n] = f.at["target"]})
    + Cardinality({x \in Box \X Leaf : f.parked[x[1]][x[2]] = f.at["target"]})

-----------------------------------------------------------------------------
(* Operations *)

\* What an operation does: whether it answers well, the state it ends in, the
\* states it passes through, and what it does instead when another program
\* puts the file e at the target in its midst.
Steps(ok, last, through) ==
  [ok |-> ok, last |-> last, through |-> through, raced |-> {}]
Refused(f) == Steps(FALSE, f, {f})
Made(f, g) == Steps(TRUE, g, {f, g})

Put(f, n, o) == [f EXCEPT !.at[n] = o]
Unpark(f, b, n) == [f EXCEPT !.parked[b][n] = Absent]
Park(f, b, n) == [f EXCEPT !.at[n] = Absent, !.parked[b][n] = f.at[n]]

CreateQuarantine(f, b) ==
  IF b \in f.open THEN Refused(f) ELSE Made(f, [f EXCEPT !.open = @ \cup {b}])

RemoveQuarantine(f, b) ==
  IF b \in f.open /\ \A n \in Leaf : f.parked[b][n] = Absent
  THEN Made(f, [f EXCEPT !.open = @ \ {b}])
  ELSE Refused(f)

\* writeExclusive creates the name, then fills the file.
Write(f, n, o) ==
  IF f.at[n] # Absent THEN Refused(f)
  ELSE Steps(TRUE, Put(f, n, o), {f, Put(f, n, "torn"), Put(f, n, o)})

\* "install" and "restore": a link that overwrites nothing.
Link(f, src, dst, o) ==
  IF f.at[dst] # Absent \/ f.at[src] # o THEN Refused(f)
  ELSE Made(f, Put(f, dst, o))

\* A parked object that is not the expected one goes back to its name when the
\* name is free, and the operation fails either way.
Reconcile(f, b, n, o) ==
  LET parked == f.parked[b][n]
      back == Put(f, n, parked)
  IN  IF b \notin f.open THEN Refused(f)
      ELSE IF parked = Absent THEN Made(f, f)
      ELSE IF parked = o THEN Made(f, Unpark(f, b, n))
      ELSE IF f.at[n] # Absent THEN Refused(f)
      ELSE Steps(FALSE, Unpark(back, b, n), {f, back, Unpark(back, b, n)})

\* Mutant: the file in the private directory is unlinked without another look.
RacesUnseen(f, b, n) ==
  IF n # "target" THEN {}
  ELSE {[e |-> e, ok |-> TRUE, last |-> Put(f, n, Absent),
         through |-> {Put(f, n, e), Put(f, n, Absent)}] : e \in Edits}

\* Between the last look at a name and the move: the move takes the new file,
\* it is recognised in the private directory and put back.
Races(f, b, n) ==
  IF n # "target" THEN {}
  ELSE LET met(e) == Put(f, n, e)
           moved(e) == Park(met(e), b, n)
       IN  {[e |-> e, ok |-> FALSE, last |-> met(e),
             through |-> {met(e), moved(e), Put(moved(e), n, e)}] : e \in Edits}

\* Move into the private directory, look again, unlink there.
RemoveExact(f, b, n, o) ==
  LET r == Reconcile(f, b, n, o)
      parked == Park(r.last, b, n)
  IN  IF ~ r.ok THEN r
      ELSE IF r.last.at[n] = o
      THEN [ok |-> TRUE, last |-> Unpark(parked, b, n),
            through |-> r.through \cup {parked, Unpark(parked, b, n)},
            raced |-> Races(r.last, b, n)]
      ELSE [r EXCEPT !.ok = f.parked[b][n] = o]

Remove(f, b, n, o) ==
  IF f.at[n] = Absent THEN Made(f, f) ELSE RemoveExact(f, b, n, o)

\* Move a file to another name: link it there, then remove the first name.
Capture(f, b, src, dst, o) ==
  IF f.at[dst] # Absent \/ f.at[src] # o THEN Refused(f)
  ELSE LET r == RemoveExact(Put(f, dst, o), b, src, o)
       IN  [r EXCEPT !.through = @ \cup {f}]

\* A link made and removed to learn whether the filesystem has hard links.
ProbeLink(f, b, src, dst, o) ==
  IF f.at[dst] # Absent \/ f.at[src] # o THEN Refused(f)
  ELSE LET r == RemoveExact(Put(f, dst, o), b, dst, o)
       IN  [r EXCEPT !.through = @ \cup {f}]

-----------------------------------------------------------------------------
(* What the caller sees *)

\* An operation answers, or it fails at any of its system calls, or the whole
\* program is lost at one of them.
Ends(r, e) ==
  {[f |-> r.last, how |-> IF r.ok THEN "done" ELSE "error", cost |-> "none", e |-> e]}
    \cup {[f |-> s, how |-> "error", cost |-> "fault", e |-> e] : s \in r.through}
    \cup {[f |-> s, how |-> "killed", cost |-> "crash", e |-> e] : s \in r.through}

Outcomes(r) == Ends(r, Absent) \cup UNION {Ends(x, x.e) : x \in r.raced}

\* A caller that catches the error may find the work done after all.
Excused(out, excuse) == [out EXCEPT !.how = IF excuse THEN "done" ELSE "error"]

\* removeArtifactOrConfirmAbsent, removePinnedArtifactOrConfirmAbsent.
RemoveArtifact(f, b, n, o) ==
  {IF out.how # "error" THEN out
   ELSE LET r == Reconcile(out.f, b, n, o)
        IN  Excused([out EXCEPT !.f = r.last], r.ok /\ r.last.at[n] = Absent)
   : out \in Outcomes(Remove(f, b, n, o))}

\* installOrReconcile: the name is read again before the failure is believed.
Install(f, src, dst, o) ==
  {IF out.how # "error" THEN out ELSE Excused(out, out.f.at[dst] = o)
   : out \in Outcomes(Link(f, src, dst, o))}

\* captureOrReconcile: the copy is enough.
CaptureOrReconcile(f, b, src, dst, o) ==
  {IF out.how # "error" THEN out
   ELSE LET r == Reconcile(out.f, b, src, o)
        IN  Excused([out EXCEPT !.f = r.last], r.ok /\ r.last.at[dst] = o)
   : out \in Outcomes(Capture(f, b, src, dst, o))}

\* A failed probe is removed as far as it is the expected file.
ProbeOrTidy(f, b, src, dst, o) ==
  {IF out.how # "error" THEN out
   ELSE LET r == Reconcile(out.f, b, dst, o)
            s == Remove(r.last, b, dst, o)
        IN  [out EXCEPT !.f = IF r.ok /\ r.last.at[dst] = o THEN s.last
                              ELSE r.last]
   : out \in Outcomes(ProbeLink(f, b, src, dst, o))}
=============================================================================
