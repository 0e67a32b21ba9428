---- MODULE WorkspaceLock ----
(***************************************************************************)
(* The lock of a repository's workspace (src/session/store.ts): a file     *)
(* created exclusively, with a record of its owner written into it         *)
(* afterwards.  Whoever finds it reads the record, judges whether the      *)
(* owner still lives, and removes the file of a dead one: three steps.     *)
(*                                                                         *)
(* A process is known by its process identifier, which is not used again,  *)
(* and runs one command.  Its place pc is shared with SessionCommands; the *)
(* places of this module are "open", "record", "judge", "unlink" and       *)
(* "release", the results "locked", "refused" and "stopped".               *)
(***************************************************************************)

CONSTANTS Proc,   \* the processes
          Gone,   \* an owner that died before they started
          None

ASSUME LockAssumption == Gone \notin Proc /\ None \notin Proc \cup {Gone}

VARIABLES pc,      \* where a process stands
          lock,    \* the lock file: None or its owner and whether it is written
          judged,  \* the dead owner a process has read and is about to remove
          stolen   \* history: a file was removed that was not the one judged

lockVars == <<pc, lock, judged, stolen>>

Free == [owner |-> None, whole |-> FALSE]

\* A process that has ended, in whatever way, no longer answers a signal.
Alive(q) == q \in Proc /\ pc[q] \notin {"idle", "exited", "dead"}

At(p, place) == pc[p] = place
Go(p, place) == pc' = [pc EXCEPT ![p] = place]

OpenLock(p) ==
  /\ At(p, "open")
  /\ IF lock = Free
       THEN Go(p, "record") /\ lock' = [owner |-> p, whole |-> FALSE]
       ELSE Go(p, "judge") /\ UNCHANGED lock
  /\ UNCHANGED <<judged, stolen>>

\* The open file is written whatever has become of its name.
RecordOwner(p) ==
  /\ At(p, "record")
  /\ lock' = IF lock.owner = p THEN [lock EXCEPT !.whole = TRUE] ELSE lock
  /\ Go(p, "locked")
  /\ UNCHANGED <<judged, stolen>>

\* Mutant of JudgeOwner: a record that is not there yet counts as a dead owner's.
JudgeUnwritten(p) ==
  /\ At(p, "judge")
  /\ IF lock.whole /\ Alive(lock.owner)
       THEN Go(p, "refused") /\ UNCHANGED judged
       ELSE Go(p, "unlink") /\ judged' = [judged EXCEPT ![p] = lock.owner]
  /\ UNCHANGED <<lock, stolen>>

\* A file that has gone meanwhile reads like a corrupt one.
JudgeOwner(p) ==
  /\ At(p, "judge")
  /\ \/ /\ ~lock.whole
        /\ Go(p, "stopped")
        /\ UNCHANGED judged
     \/ /\ lock.whole /\ Alive(lock.owner)
        /\ Go(p, "refused")
        /\ UNCHANGED judged
     \/ /\ lock.whole /\ ~Alive(lock.owner)
        /\ Go(p, "unlink")
        /\ judged' = [judged EXCEPT ![p] = lock.owner]
  /\ UNCHANGED <<lock, stolen>>

UnlinkStale(p) ==
  /\ At(p, "unlink")
  /\ Go(p, IF lock = Free THEN "stopped" ELSE "open")
  /\ stolen' = (stolen \/ lock.owner \notin {None, judged[p]})
  /\ lock' = Free
  /\ judged' = [judged EXCEPT ![p] = None]

\* The release asks for no owner.
ReleaseLock(p) ==
  /\ At(p, "release")
  /\ Go(p, "exited")
  /\ lock' = Free
  /\ UNCHANGED <<judged, stolen>>

Acquire(p) == OpenLock(p) \/ RecordOwner(p) \/ JudgeOwner(p) \/ UnlinkStale(p)

\* The places at which a process does not think it owns the workspace.
Outside == {"idle", "open", "judge", "unlink", "refused", "stopped", "ask",
            "rename", "wait", "exited", "dead"}
Owners == {p \in Proc : pc[p] \notin Outside}

====
