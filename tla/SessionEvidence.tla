---- MODULE SessionEvidence ----
(***************************************************************************)
(* What a session keeps of the work it changes, and what its diff says     *)
(* later (src/repository/snapshot-diff.ts, the before-images of            *)
(* src/session/terminal-artifacts.ts and their composition in              *)
(* src/cli/runtime-composition.ts).  A patch keeps the file it replaces in *)
(* a checkpoint.  A command keeps images of some files before it is        *)
(* launched and, afterwards, the list of the paths it changed, which may   *)
(* be cut.  The diff of the session takes the text a path had before the   *)
(* first mutation that names it, or says that it is not available.         *)
(*                                                                         *)
(* An observation is one step here; WorkspaceObserver has its reads and    *)
(* what other programs do between them.  Renames that change the case of   *)
(* a name only, the bounds on bytes, legacy records and files that Git     *)
(* ignores are left out.                                                   *)
(***************************************************************************)
EXTENDS Naturals, Sequences, FiniteSets

CONSTANTS Order, Content, Large, Worktree,
          MaxImages, \* how many images an observation keeps
          MaxListed  \* how many paths the session keeps of a mutation

VARIABLES wt, head, objects, hidden, \* the repository
          pre, post,                 \* the observations around a command
          start,                     \* the observation the session began with
          mutations                  \* what the session has changed, in order

INSTANCE WorkspaceObserver WITH Baseline <- {}, look <- [phase |-> "idle"]

ASSUME EvidenceAssumption ==
  MaxImages \in Nat /\ MaxListed \in Nat /\ Len(Order) \in Nat

repository == <<wt, head, objects, hidden>>

Unavailable == "unavailable"
NoPrint == <<>>

------------------------------------------------------------------------
\* All that an observation reads, at one moment.
Collected ==
  LET kind == [p \in Path |-> Kind(p, head.tree)] IN
  [head    |-> head,
   kind    |-> kind,
   base    |-> head,
   status  |-> [p \in Path |-> [kind |-> kind[p],
                                text |-> ContentState(p, kind[p])]],
   hidden  |-> ProtectedState,
   sample  |-> [p \in Path |-> IF kind[p] = "clean" THEN NoSample
                                                    ELSE Sample(p)],
   guard   |-> ProtectedState,
   control |-> ReferenceState]

Present == Fingerprint(Collected)

Dirty(b) == {p \in Path : b.kind[p] # "clean"}

\* The paths that were dirty when the session began: the user's own work.
PreExisting == Dirty(start)

------------------------------------------------------------------------
\* The records of the session.

PatchRecord(p, before, print) ==
  [kind |-> "patch", outcome |-> "observed", paths |-> {p}, total |-> 1,
   before |-> [q \in {p} |-> before], print |-> print]

\* What became of the paths, as the result of the command has it.
CreatedBy(paths) == {p \in paths : PathState(p, pre).text = Absent}

TerminalRecord(effect, listed) ==
  [kind    |-> "terminal", outcome |-> effect.outcome,
   paths   |-> listed,     total   |-> Cardinality(effect.paths),
   images  |-> pre.images, dirty   |-> Dirty(pre.at),
   tree    |-> pre.at.head.tree,
   created |-> CreatedBy(effect.paths),
   tracked |-> effect.paths \ CreatedBy(effect.paths),
   print   |-> IF effect.outcome = "observed" THEN Fingerprint(post.at)
                                              ELSE NoPrint,
   control |-> [head |-> post.at.base, hidden |-> post.at.hidden]]

Position(p) == CHOOSE i \in 1..Len(Order) : Order[i] = p

\* What the session keeps of the paths: the first ones, or, when its record
\* would grow too large, only their number.
Listings(paths) ==
  {{p \in paths :
      Cardinality({q \in paths : Position(q) < Position(p)}) < MaxListed},
   {}}

\* The session file takes no patch without a fingerprint, and a command's
\* effect only with the bounds on its list kept and with a fingerprint and
\* control facts exactly when it was observed.
TerminalStorable(m) ==
  /\ Cardinality(m.paths) <= MaxListed /\ Cardinality(m.paths) <= m.total
  /\ m.outcome \in {"observed", "protected", "unknown"}
  /\ (m.outcome = "observed") = (m.print # NoPrint)

Storable(m) ==
  IF m.kind = "patch" THEN m.print # NoPrint ELSE TerminalStorable(m)

\* A command that may have changed a path the session does not name.
Unlisted(m) ==
  /\ m.kind = "terminal"
  /\ \/ m.total > Cardinality(m.paths)
     \/ m.paths = {} /\ m.outcome \in {"unknown", "protected"}

------------------------------------------------------------------------
\* What is known of a path before a mutation.

\* The text an image holds; a digest holds none.
Persisted(image) ==
  IF image.kind = "identity" THEN Unavailable ELSE image.text

\* Mutant of BeforeCommand: what was dirty is taken from HEAD as well.
HeadFallback(m, p) ==
  IF m.images[p].kind # "none" THEN Persisted(m.images[p])
  ELSE IF m.outcome = "observed" /\ p \in m.created THEN Absent
  ELSE IF p \in m.tracked                           THEN m.tree[p]
  ELSE                                                   Unavailable

\* Without an image a path that was dirty has no text; one that was clean had
\* the text of HEAD, or none if the command made it.
BeforeCommand(m, p) ==
  IF m.images[p].kind # "none" THEN Persisted(m.images[p])
  ELSE IF p \in m.dirty                             THEN Unavailable
  ELSE IF m.outcome = "observed" /\ p \in m.created THEN Absent
  ELSE IF p \in m.tracked                           THEN m.tree[p]
  ELSE                                                   Unavailable

\* The text the checkpoint of a patch holds.
PatchBaseline(m, p) == m.before[p]

Before(m, p) ==
  IF m.kind = "patch" THEN PatchBaseline(m, p) ELSE BeforeCommand(m, p)

\* The earliest of some mutations, given by their places.
Earliest(I) == IF I = {} THEN 0 ELSE CHOOSE i \in I : \A j \in I : i <= j

\* What the session can restore a path to: the text before the first mutation
\* that has, or may have, changed it.
PriorBaseline(p) ==
  LET i == Earliest({k \in DOMAIN mutations :
                       p \in mutations[k].paths \/ Unlisted(mutations[k])})
  IN  IF i = 0 THEN Unavailable ELSE Before(mutations[i], p)

FirstListing(p) == Earliest({i \in DOMAIN mutations : p \in mutations[i].paths})

\* A path that an earlier command may have changed unnamed has no baseline.
Forced(p) ==
  \E i \in 1..(FirstListing(p) - 1) : Unlisted(mutations[i])

\* The text the diff of the session compares a path with.
DiffBaseline(p) ==
  IF Forced(p) THEN Unavailable ELSE Before(mutations[FirstListing(p)], p)

Listed == {p \in Path : FirstListing(p) # 0}

\* The diff says that it may lack paths.
Limited == \E i \in DOMAIN mutations : Unlisted(mutations[i])

------------------------------------------------------------------------
\* The images taken before a command.

\* Mutant of Needed: any mutation is held to be a baseline for every path.
NeededAtFirst == IF mutations = <<>> THEN PreExisting ELSE {}

\* The user's work that nothing holds yet.
Needed == {p \in PreExisting : PriorBaseline(p) = Unavailable}

\* It comes first, then the rest of the user's work, then what is dirty now.
Urgency(p) ==
  CASE p \in Needed      -> 1
    [] p \in PreExisting -> 2
    [] OTHER             -> 3

Sooner(p, q) ==
  \/ Urgency(p) < Urgency(q)
  \/ Urgency(p) = Urgency(q) /\ Position(p) < Position(q)

Images(b) ==
  LET candidates == PreExisting \cup Dirty(b)
      kept(p) == /\ p \in candidates
                 /\ Cardinality({q \in candidates : Sooner(q, p)}) < MaxImages
  IN  [p \in Path |-> IF kept(p) THEN Image(p, b, PreExisting)
                                 ELSE NoImage[p]]

ObservedBefore ==
  [NoObservation EXCEPT !.state = "complete", !.at = Collected,
                        !.images = Images(Collected)]

ObservedAfter ==
  [NoObservation EXCEPT
     !.state = IF ProtectedState = pre.at.guard THEN "complete"
                                                ELSE "protected",
     !.at = Collected,
     !.moved = Moved(pre.at.head, head)]
====
