---- MODULE BrowserConfigLock ----
(***************************************************************************)
(* The lock that orders changes of the browser configuration:              *)
(* BrowserConfigTransactionLock of src/config/browser-config-lock.ts.      *)
(*                                                                         *)
(* The lock is a directory with an owner file in it.  Whoever makes the    *)
(* directory writes the file and is the owner; a contender that finds the  *)
(* owner's process gone puts a claim file beside the owner file, looks     *)
(* again, and takes the directory down.  Every file-system call is a step  *)
(* of its own and a process can die between any two.                       *)
(*                                                                         *)
(* A process dies for good and holds the lock at most once at a time, so   *)
(* that it stands for its process identifier and for its lock tokens.  The *)
(* reuse of an identifier is left out: it makes a dead owner look alive,   *)
(* which only turns contenders away.                                       *)
(***************************************************************************)
EXTENDS Naturals

CONSTANTS
  Proc,      \* processes that may use the lock
  None,      \* no process
  Attempts   \* LOCK_ACQUIRE_ATTEMPTS

ASSUME ProcAssumption == None \notin Proc
ASSUME AttemptsAssumption == Attempts \in Nat \ {0}

VARIABLES
  \* the file system
  dir,       \* the lock directory exists
  owner,     \* whose owner file is in it, None if there is none
  whole,     \* the owner file has been written to its end
  claim,     \* a claim file is in it
  \* the processes
  pc,        \* where each process is in acquire or release
  observed,  \* the dead owner that a contender has seen
  attempt    \* rounds of acquire begun before this one

files == <<dir, owner, whole, claim>>
lockVars == <<files, pc, observed, attempt>>

\* A process that makes, holds or gives up the lock as its owner ...
Owning == {"create", "write", "held", "check", "unlock", "vacate", "undo", "leave"}
\* ... that has put down a claim ...
Claiming == {"recheck", "unclaim", "rmowner", "rmclaim"}
\* ... or that takes a dead owner's lock down.
Removing == {"rmowner", "rmclaim", "rmdir"}
Acquiring == {"mkdir", "create", "write", "read", "claim", "undo", "leave"}
               \cup Claiming \cup Removing

LockPc == {"out", "done", "dead"} \cup Owning \cup Acquiring

Gone(p) == pc[p] \in {"done", "dead"}

Goto(p, where) == pc' = [pc EXCEPT ![p] = where]

Step(p, from, to) ==
  /\ pc[p] = from /\ Goto(p, to)
  /\ UNCHANGED <<observed, attempt>>

\* acquire returns, or its process ends: its variables are no more.
Leave(p, to) ==
  /\ Goto(p, to)
  /\ observed' = [observed EXCEPT ![p] = None]
  /\ attempt' = [attempt EXCEPT ![p] = 0]

Return(p, from) == pc[p] = from /\ Leave(p, "held")

\* An error ends the command the process runs, and with it the process.
Fail(p, from) == pc[p] = from /\ Leave(p, "done")

LockInit ==
  /\ dir = FALSE /\ owner = None /\ whole = FALSE /\ claim = FALSE
  /\ pc = [p \in Proc |-> "out"]
  /\ observed = [p \in Proc |-> None]
  /\ attempt = [p \in Proc |-> 0]

-----------------------------------------------------------------------------
(* acquire *)

BeginAcquire(p) == Step(p, "out", "mkdir") /\ UNCHANGED files

MakeDirectory(p) ==
  /\ ~ dir /\ dir' = TRUE
  /\ Step(p, "mkdir", "create")
  /\ UNCHANGED <<owner, whole, claim>>

DirectoryExists(p) == dir /\ Step(p, "mkdir", "read") /\ UNCHANGED files

CreateOwner(p) ==
  /\ dir /\ owner = None
  /\ owner' = p /\ whole' = FALSE
  /\ Step(p, "create", "write")
  /\ UNCHANGED <<dir, claim>>

WriteOwner(p) ==
  /\ whole' = TRUE
  /\ Return(p, "write")
  /\ UNCHANGED <<dir, owner, claim>>

\* The owner file cannot be created or written: it is removed again.
OwnerFails(p) ==
  /\ Step(p, "create", "undo") \/ Step(p, "write", "undo")
  /\ UNCHANGED files

RemoveUnwritten(p) ==
  /\ owner' = None /\ whole' = FALSE
  /\ Step(p, "undo", "leave")
  /\ UNCHANGED <<dir, claim>>

\* A directory with a claim in it cannot be removed.
TakeDown == dir' = (dir /\ (owner # None \/ claim))

RemoveUnowned(p) ==
  /\ TakeDown
  /\ Fail(p, "leave")
  /\ UNCHANGED <<owner, whole, claim>>

\* readMetadata: an absent or partial file tells nothing.
Metadata == IF dir /\ whole THEN owner ELSE None

NextRound(p, from) ==
  /\ pc[p] = from /\ Goto(p, "mkdir")
  /\ observed' = [observed EXCEPT ![p] = None]
  /\ attempt' = [attempt EXCEPT ![p] = @ + 1]

\* Mutant: the rounds are not counted.
RetryForever(p) ==
  /\ Metadata = None
  /\ Step(p, "read", "mkdir")
  /\ UNCHANGED files

\* Transient: the owner is about to write its file, or to remove the directory.
RetryUnreadable(p) ==
  /\ Metadata = None /\ attempt[p] < Attempts - 1
  /\ NextRound(p, "read")
  /\ UNCHANGED files

GiveUpUnreadable(p) ==
  /\ Metadata = None /\ attempt[p] >= Attempts - 1
  /\ Fail(p, "read")
  /\ UNCHANGED files

\* BROWSER_CONFIG_LOCKED
OwnerAlive(p) ==
  /\ Metadata # None /\ ~ Gone(Metadata)
  /\ Fail(p, "read")
  /\ UNCHANGED files

OwnerDead(p) ==
  /\ Metadata # None /\ Gone(Metadata)
  /\ observed' = [observed EXCEPT ![p] = Metadata]
  /\ pc[p] = "read" /\ Goto(p, "claim")
  /\ UNCHANGED <<files, attempt>>

\* claimAndRemoveDeadLock
Claim(p) ==
  /\ dir /\ ~ claim /\ claim' = TRUE
  /\ Step(p, "claim", "recheck")
  /\ UNCHANGED <<dir, owner, whole>>

ClaimLost(p) ==
  /\ ~ dir \/ claim
  /\ Fail(p, "claim")
  /\ UNCHANGED files

\* Mutant: the owner is not looked at again once the claim is down.
RecheckSkipped(p) == Step(p, "recheck", "rmowner") /\ UNCHANGED files

Recheck(p) ==
  /\ Step(p, "recheck", IF Metadata = observed[p] THEN "rmowner" ELSE "unclaim")
  /\ UNCHANGED files

RemoveOwnClaim(p) ==
  /\ claim' = FALSE
  /\ Fail(p, "unclaim")
  /\ UNCHANGED <<dir, owner, whole>>

RemoveDeadOwner(p) ==
  /\ owner' = None /\ whole' = FALSE
  /\ Step(p, "rmowner", "rmclaim")
  /\ UNCHANGED <<dir, claim>>

RemoveClaim(p) ==
  /\ claim' = FALSE
  /\ Step(p, "rmclaim", "rmdir")
  /\ UNCHANGED <<dir, owner, whole>>

\* The last round ends with BROWSER_CONFIG_LOCK_RACE.
RemoveDirectory(p) ==
  /\ owner = None /\ ~ claim /\ dir' = FALSE
  /\ IF attempt[p] < Attempts - 1 THEN NextRound(p, "rmdir") ELSE Fail(p, "rmdir")
  /\ UNCHANGED <<owner, whole, claim>>

\* Another contender's claim is in the way.
RemoveBlocked(p) ==
  /\ owner # None \/ claim
  /\ Fail(p, "rmdir")
  /\ UNCHANGED files

-----------------------------------------------------------------------------
(* release *)

BeginRelease(p) == Step(p, "held", "check") /\ UNCHANGED files

\* A lock that is somebody else's by now, or cannot be read, is left alone.
CheckOwner(p) ==
  /\ Step(p, "check", IF Metadata = p THEN "unlock" ELSE "out")
  /\ UNCHANGED files

RemoveOwner(p) ==
  /\ owner' = None /\ whole' = FALSE
  /\ Step(p, "unlock", "vacate")
  /\ UNCHANGED <<dir, claim>>

Vacate(p) ==
  /\ TakeDown
  /\ Step(p, "vacate", IF owner = None /\ ~ claim THEN "out" ELSE "done")
  /\ UNCHANGED <<owner, whole, claim>>

-----------------------------------------------------------------------------

\* What a process does once it has begun to acquire or to release.
LockStep(p) ==
  \/ MakeDirectory(p) \/ DirectoryExists(p)
  \/ CreateOwner(p) \/ WriteOwner(p)
  \/ RemoveUnwritten(p) \/ RemoveUnowned(p)
  \/ RetryUnreadable(p) \/ GiveUpUnreadable(p) \/ OwnerAlive(p) \/ OwnerDead(p)
  \/ Claim(p) \/ ClaimLost(p) \/ Recheck(p) \/ RemoveOwnClaim(p)
  \/ RemoveDeadOwner(p) \/ RemoveClaim(p) \/ RemoveDirectory(p) \/ RemoveBlocked(p)
  \/ CheckOwner(p) \/ RemoveOwner(p) \/ Vacate(p)

Die(p) == ~ Gone(p) /\ Leave(p, "dead") /\ UNCHANGED files

LockTypeOK ==
  /\ dir \in BOOLEAN /\ owner \in Proc \cup {None}
  /\ whole \in BOOLEAN /\ claim \in BOOLEAN
  /\ pc \in [Proc -> LockPc]
  /\ observed \in [Proc -> Proc \cup {None}]
  /\ attempt \in [Proc -> 0..(Attempts - 1)]

\* The transaction between acquire and release is one process's at a time,
\* although a contender may take a dead owner's lock down while a third one is
\* about to make its own.
MutualExclusion == \A p, q \in Proc : pc[p] = "held" /\ pc[q] = "held" => p = q
====
