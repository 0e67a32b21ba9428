---- MODULE BrowserSetupProofs ----
(***************************************************************************)
(* Proofs about BrowserSetup and the lock below it, for any number of      *)
(* processes, crashes and failing writes.                                  *)
(*                                                                         *)
(* That one process at a time holds the lock is not inductive by itself:   *)
(* contenders meet in the directory while it is made and taken down.  The  *)
(* invariant says that at most one process is busy with the directory as   *)
(* its owner or as its remover (OneBusy), that the claim file singles out  *)
(* one claimer (OneClaim), and what each of them knows of the owner file   *)
(* (OwnerFits, ClaimFits).  What a command has checked under the lock then *)
(* stays true until it releases it (SetupWindow, RunWindow).               *)
(***************************************************************************)
EXTENDS BrowserSetup, TLAPS

Busy(p) == pc[p] \in Owning \cup Removing

FilesAgree == (owner # None \/ claim => dir) /\ (whole => owner # None)

OneBusy == \A p, q \in Proc : Busy(p) /\ Busy(q) => p = q

OneClaim == \A p, q \in Proc : pc[p] \in Claiming /\ pc[q] \in Claiming => p = q

BusyHasDirectory == \A p \in Proc : Busy(p) => dir

\* What the process that is busy with the directory knows of the owner file.
OwnerFits ==
  \A p \in Proc :
    /\ pc[p] \in {"create", "vacate", "leave", "rmclaim", "rmdir"} => owner = None
    /\ pc[p] = "write" => owner = p /\ ~ whole
    /\ pc[p] \in {"held", "check", "unlock"} => owner = p /\ whole
    /\ pc[p] = "undo" => owner \in {None, p}
    /\ pc[p] = "rmowner" => owner = observed[p]

\* A claimer has its claim in place and has seen an owner that is gone.
ClaimFits ==
  \A p \in Proc :
    /\ pc[p] \in Claiming => claim
    /\ pc[p] \in {"claim"} \cup Claiming =>
         observed[p] \in Proc /\ pc[observed[p]] \in {"done", "dead"}

LockInv ==
  /\ LockTypeOK
  /\ FilesAgree /\ OneBusy /\ OneClaim /\ BusyHasDirectory /\ OwnerFits /\ ClaimFits

SetupSteps == {"begin", "scan", "work", "verify", "reverify", "policy", "newpolicy",
               "config", "exit"}
RunSteps == {"begin", "pin", "directory", "state", "grant", "manifest", "exit"}

StepsFit ==
  /\ \A p \in Setup : step[p] \in SetupSteps
  /\ \A p \in Run : /\ step[p] \in RunSteps
                    /\ step[p] = "begin" => session[p] = "none"

\* Setup has verified its baseline and that no session is unfinished.
SetupWindow ==
  \A p \in Proc :
    /\ step[p] \in {"reverify", "policy", "newpolicy", "config"} =>
         pc[p] = "held" /\ config = baseline[p] /\ Unfinished = {}
    /\ step[p] = "newpolicy" => policy = None

\* A session is published under the configuration it was checked with.
RunWindow ==
  \A p \in Proc :
    step[p] \in {"directory", "state", "grant", "manifest"} =>
      pc[p] = "held" /\ config = baseline[p]

CommandInv == StepsFit /\ SetupWindow /\ RunWindow /\ NoStrandedSession

IInv == TypeOK /\ LockInv /\ CommandInv

\* What a process does with the lock and to the directory; EndCommand is Exit's
\* share of it.
EndCommand(p) == Step(p, "out", "done") /\ UNCHANGED files

LockMove(p) ==
  \/ LockStep(p) \/ OwnerFails(p) \/ Die(p)
  \/ BeginAcquire(p) \/ BeginRelease(p) \/ EndCommand(p)

-----------------------------------------------------------------------------
(* The lock *)

\* Every step of the protocol keeps the variables of the lock within their types.
LEMMA LockTypes ==
  ASSUME LockTypeOK, NEW p \in Proc, LockMove(p)
  PROVE  LockTypeOK'
<1> USE AttemptsAssumption DEF LockTypeOK, LockPc, Owning, Claiming, Removing, Acquiring
<1> USE DEF Goto, Step, Leave, Return, Fail, NextRound, files
<1>1. CASE MakeDirectory(p)
  BY <1>1 DEF MakeDirectory
<1>2. CASE DirectoryExists(p)
  BY <1>2 DEF DirectoryExists
<1>3. CASE CreateOwner(p)
  BY <1>3 DEF CreateOwner
<1>4. CASE WriteOwner(p)
  BY <1>4 DEF WriteOwner
<1>5. CASE RemoveUnwritten(p)
  BY <1>5 DEF RemoveUnwritten
<1>6. CASE RemoveUnowned(p)
  BY <1>6 DEF RemoveUnowned, TakeDown
<1>7. CASE RetryUnreadable(p)
  <2>1. attempt[p] \in 0..(Attempts - 1)
    OBVIOUS
  <2>2. attempt' \in [Proc -> 0..(Attempts - 1)]
    BY <1>7, <2>1 DEF RetryUnreadable
  <2>3. pc' \in [Proc -> LockPc] /\ observed' \in [Proc -> Proc \cup {None}]
    BY <1>7 DEF RetryUnreadable
  <2> QED
    BY <1>7, <2>2, <2>3 DEF RetryUnreadable
<1>8. CASE GiveUpUnreadable(p)
  BY <1>8 DEF GiveUpUnreadable
<1>9. CASE OwnerAlive(p)
  BY <1>9 DEF OwnerAlive
<1>10. CASE OwnerDead(p)
  BY <1>10 DEF OwnerDead, Metadata
<1>11. CASE Claim(p)
  BY <1>11 DEF Claim
<1>12. CASE ClaimLost(p)
  BY <1>12 DEF ClaimLost
<1>13. CASE Recheck(p)
  BY <1>13 DEF Recheck
<1>14. CASE RemoveOwnClaim(p)
  <2>1. attempt[p] \in 0..(Attempts - 1)
    OBVIOUS
  <2>2. attempt' \in [Proc -> 0..(Attempts - 1)]
    BY <1>14, <2>1 DEF RemoveOwnClaim
  <2>3. pc' \in [Proc -> LockPc] /\ observed' \in [Proc -> Proc \cup {None}]
    BY <1>14 DEF RemoveOwnClaim
  <2> QED
    BY <1>14, <2>2, <2>3 DEF RemoveOwnClaim
<1>15. CASE RemoveDeadOwner(p)
  BY <1>15 DEF RemoveDeadOwner
<1>16. CASE RemoveClaim(p)
  BY <1>16 DEF RemoveClaim
<1>17. CASE RemoveDirectory(p)
  <2>1. attempt[p] \in 0..(Attempts - 1)
    OBVIOUS
  <2>2. attempt' \in [Proc -> 0..(Attempts - 1)]
    BY <1>17, <2>1 DEF RemoveDirectory
  <2>3. pc' \in [Proc -> LockPc] /\ observed' \in [Proc -> Proc \cup {None}]
    BY <1>17 DEF RemoveDirectory
  <2> QED
    BY <1>17, <2>2, <2>3 DEF RemoveDirectory
<1>18. CASE RemoveBlocked(p)
  BY <1>18 DEF RemoveBlocked
<1>19. CASE CheckOwner(p)
  BY <1>19 DEF CheckOwner
<1>20. CASE RemoveOwner(p)
  BY <1>20 DEF RemoveOwner
<1>21. CASE Vacate(p)
  BY <1>21 DEF Vacate, TakeDown
<1>22. CASE OwnerFails(p)
  BY <1>22 DEF OwnerFails
<1>23. CASE Die(p)
  BY <1>23 DEF Die
<1>24. CASE BeginAcquire(p)
  BY <1>24 DEF BeginAcquire
<1>25. CASE BeginRelease(p)
  BY <1>25 DEF BeginRelease
<1>26. CASE EndCommand(p)
  BY <1>26 DEF EndCommand
<1> QED
  BY <1>1, <1>2, <1>3, <1>4, <1>5, <1>6, <1>7, <1>8, <1>9, <1>10, <1>11, <1>12, <1>13, <1>14,
       <1>15, <1>16, <1>17, <1>18, <1>19, <1>20, <1>21, <1>22, <1>23, <1>24, <1>25, <1>26
     DEF LockMove, LockStep

\* Every step of the protocol keeps what its processes know of the directory.
LEMMA LockMoveInv ==
  ASSUME LockInv, NEW p \in Proc, LockMove(p)
  PROVE  LockInv'
<1>t. LockTypeOK'
  BY LockTypes DEF LockInv
<1>b. Busy(p) => \A q \in Proc : q # p => ~ Busy(q)
  BY DEF LockInv, OneBusy
<1>c. pc[p] \in Claiming => \A q \in Proc : q # p => pc[q] \notin Claiming
  BY DEF LockInv, OneClaim
<1> USE ProcAssumption, <1>t, <1>b, <1>c
<1> USE DEF LockInv, LockTypeOK, FilesAgree, OneBusy, OneClaim, BusyHasDirectory, OwnerFits,
            ClaimFits
<1> USE DEF Busy, Owning, Claiming, Removing, Acquiring, Gone
<1> USE DEF Goto, Step, Leave, Return, Fail, NextRound, Metadata, TakeDown, files
<1>1. CASE MakeDirectory(p)
  BY <1>1 DEF MakeDirectory
<1>2. CASE DirectoryExists(p)
  BY <1>2 DEF DirectoryExists
<1>3. CASE CreateOwner(p)
  <2>1. FilesAgree' /\ BusyHasDirectory'
    BY <1>3 DEF CreateOwner
  <2>2. OneBusy' /\ OneClaim'
    BY <1>3 DEF CreateOwner
  <2>3. OwnerFits'
    BY <1>3 DEF CreateOwner
  <2>4. ClaimFits'
    BY <1>3 DEF CreateOwner
  <2> QED
    BY <2>1, <2>2, <2>3, <2>4
<1>4. CASE WriteOwner(p)
  BY <1>4 DEF WriteOwner
<1>5. CASE RemoveUnwritten(p)
  <2>1. FilesAgree' /\ BusyHasDirectory'
    BY <1>5 DEF RemoveUnwritten
  <2>2. OneBusy' /\ OneClaim'
    BY <1>5 DEF RemoveUnwritten
  <2>3. OwnerFits'
    BY <1>5 DEF RemoveUnwritten
  <2>4. ClaimFits'
    BY <1>5 DEF RemoveUnwritten
  <2> QED
    BY <2>1, <2>2, <2>3, <2>4
<1>6. CASE RemoveUnowned(p)
  BY <1>6 DEF RemoveUnowned
<1>7. CASE RetryUnreadable(p)
  BY <1>7 DEF RetryUnreadable
<1>8. CASE GiveUpUnreadable(p)
  BY <1>8 DEF GiveUpUnreadable
<1>9. CASE OwnerAlive(p)
  BY <1>9 DEF OwnerAlive
<1>10. CASE OwnerDead(p)
  BY <1>10 DEF OwnerDead
<1>11. CASE Claim(p)
  BY <1>11 DEF Claim
<1>12. CASE ClaimLost(p)
  BY <1>12 DEF ClaimLost
<1>13. CASE Recheck(p)
  BY <1>13 DEF Recheck
<1>14. CASE RemoveOwnClaim(p)
  <2>1. FilesAgree' /\ BusyHasDirectory'
    BY <1>14 DEF RemoveOwnClaim
  <2>2. OneBusy' /\ OneClaim'
    BY <1>14 DEF RemoveOwnClaim
  <2>3. OwnerFits'
    BY <1>14 DEF RemoveOwnClaim
  <2>4. ClaimFits'
    BY <1>14 DEF RemoveOwnClaim
  <2> QED
    BY <2>1, <2>2, <2>3, <2>4
<1>15. CASE RemoveDeadOwner(p)
  <2>1. FilesAgree' /\ BusyHasDirectory'
    BY <1>15 DEF RemoveDeadOwner
  <2>2. OneBusy' /\ OneClaim'
    BY <1>15 DEF RemoveDeadOwner
  <2>3. OwnerFits'
    BY <1>15 DEF RemoveDeadOwner
  <2>4. ClaimFits'
    BY <1>15 DEF RemoveDeadOwner
  <2> QED
    BY <2>1, <2>2, <2>3, <2>4
<1>16. CASE RemoveClaim(p)
  <2>1. FilesAgree' /\ BusyHasDirectory'
    BY <1>16 DEF RemoveClaim
  <2>2. OneBusy' /\ OneClaim'
    BY <1>16 DEF RemoveClaim
  <2>3. OwnerFits'
    BY <1>16 DEF RemoveClaim
  <2>4. ClaimFits'
    BY <1>16 DEF RemoveClaim
  <2> QED
    BY <2>1, <2>2, <2>3, <2>4
<1>17. CASE RemoveDirectory(p)
  <2>1. FilesAgree' /\ BusyHasDirectory'
    BY <1>17 DEF RemoveDirectory
  <2>2. OneBusy' /\ OneClaim'
    BY <1>17 DEF RemoveDirectory
  <2>3. OwnerFits'
    BY <1>17 DEF RemoveDirectory
  <2>4. ClaimFits'
    BY <1>17 DEF RemoveDirectory
  <2> QED
    BY <2>1, <2>2, <2>3, <2>4
<1>18. CASE RemoveBlocked(p)
  BY <1>18 DEF RemoveBlocked
<1>19. CASE CheckOwner(p)
  BY <1>19 DEF CheckOwner
<1>20. CASE RemoveOwner(p)
  <2>1. FilesAgree' /\ BusyHasDirectory'
    BY <1>20 DEF RemoveOwner
  <2>2. OneBusy' /\ OneClaim'
    BY <1>20 DEF RemoveOwner
  <2>3. OwnerFits'
    BY <1>20 DEF RemoveOwner
  <2>4. ClaimFits'
    BY <1>20 DEF RemoveOwner
  <2> QED
    BY <2>1, <2>2, <2>3, <2>4
<1>21. CASE Vacate(p)
  BY <1>21 DEF Vacate
<1>22. CASE OwnerFails(p)
  BY <1>22 DEF OwnerFails
<1>23. CASE Die(p)
  BY <1>23 DEF Die
<1>24. CASE BeginAcquire(p)
  BY <1>24 DEF BeginAcquire
<1>25. CASE BeginRelease(p)
  BY <1>25 DEF BeginRelease
<1>26. CASE EndCommand(p)
  BY <1>26 DEF EndCommand
<1> QED
  BY <1>1, <1>2, <1>3, <1>4, <1>5, <1>6, <1>7, <1>8, <1>9, <1>10, <1>11, <1>12, <1>13, <1>14,
       <1>15, <1>16, <1>17, <1>18, <1>19, <1>20, <1>21, <1>22, <1>23, <1>24, <1>25, <1>26
     DEF LockMove, LockStep

\* Nobody else's place in the protocol changes, and the steps of acquire and
\* release are not those of a process that works under the lock.
LEMMA OthersStay ==
  ASSUME LockTypeOK, NEW p \in Proc, LockMove(p)
  PROVE  \A q \in Proc : q # p => pc'[q] = pc[q]
<1> USE DEF LockTypeOK, Goto, Step, Leave, Return, Fail, NextRound
<1> QED
  BY DEF LockMove, LockStep, MakeDirectory, DirectoryExists, CreateOwner, WriteOwner,
         RemoveUnwritten, RemoveUnowned, RetryUnreadable, GiveUpUnreadable, OwnerAlive,
         OwnerDead, Claim, ClaimLost, Recheck, RemoveOwnClaim, RemoveDeadOwner, RemoveClaim,
         RemoveDirectory, RemoveBlocked, CheckOwner, RemoveOwner, Vacate, OwnerFails, Die,
         BeginAcquire, BeginRelease, EndCommand

LEMMA NotWorking ==
  ASSUME NEW p \in Proc, LockStep(p) \/ OwnerFails(p)
  PROVE  pc[p] # "held"
<1> USE DEF Step, Return, Fail, NextRound
<1> QED
  BY DEF LockStep, MakeDirectory, DirectoryExists, CreateOwner, WriteOwner, RemoveUnwritten,
         RemoveUnowned, RetryUnreadable, GiveUpUnreadable, OwnerAlive, OwnerDead, Claim,
         ClaimLost, Recheck, RemoveOwnClaim, RemoveDeadOwner, RemoveClaim, RemoveDirectory,
         RemoveBlocked, CheckOwner, RemoveOwner, Vacate, OwnerFails

-----------------------------------------------------------------------------
(* The commands *)

\* One step of one process, or the end of its session.
CommandStep(p) ==
  \/ UseLock(p) \/ LockFails(p) \/ SetupStep(p) \/ RunStep(p) \/ Exit(p) \/ Crash(p)
  \/ p \in Run /\ EndSession(p)

CommandTypes ==
  /\ config \in Configurations /\ policy \in Configurations
  /\ session \in [Run -> SessionStatus] /\ pinned \in [Run -> Configurations]
  /\ step \in [Proc -> Steps] /\ baseline \in [Proc -> Configurations]
  /\ writes \in [Proc -> SUBSET Files] /\ faults \in 0..MaxFaults

\* Every step of a command keeps the variables of the commands within their types.
LEMMA CommandTypesStep ==
  ASSUME CommandTypes, NEW p \in Proc, CommandStep(p)
  PROVE  CommandTypes'
<1> USE SetupAssumption, FaultAssumption
<1> USE DEF CommandTypes, Configurations, SessionStatus, Steps, Files, Run, At, Then,
            stateHome, command
<1>1. CASE UseLock(p)
  BY <1>1 DEF UseLock, Forget, command, stateHome
<1>2. CASE LockFails(p)
  BY <1>2 DEF LockFails, Fault, command, stateHome
<1>3. CASE BeginSetup(p)
  BY <1>3 DEF BeginSetup
<1>4. CASE EarlyScan(p)
  BY <1>4 DEF EarlyScan, Release
<1>5. CASE BeginCommit(p)
  BY <1>5 DEF BeginCommit
<1>6. CASE Verify(p, "verify", "reverify")
  BY <1>6 DEF Verify, Proceed, Refuse, Release, BaselineUnchanged
<1>7. CASE Verify(p, "reverify", "policy")
  BY <1>7 DEF Verify, Proceed, Refuse, Release, BaselineUnchanged
<1>8. CASE CommitFails(p)
  BY <1>8 DEF CommitFails, Break, Release, Fault
<1>9. CASE CheckPolicy(p)
  BY <1>9 DEF CheckPolicy, Proceed, Refuse, Release
<1>10. CASE WritePolicy(p)
  BY <1>10 DEF WritePolicy, Held
<1>11. CASE WriteConfig(p)
  BY <1>11 DEF WriteConfig
<1>12. CASE BeginRun(p)
  BY <1>12 DEF BeginRun
<1>13. CASE PinConfiguration(p)
  BY <1>13 DEF PinConfiguration, Proceed, Refuse, Release, BaselineUnchanged
<1>14. CASE CreateDirectory(p)
  BY <1>14 DEF CreateDirectory, Publish, Held
<1>15. CASE CreateState(p)
  BY <1>15 DEF CreateState, Publish, Held
<1>16. CASE PersistGrantPending(p)
  BY <1>16 DEF PersistGrantPending, Publish, Held
<1>17. CASE WriteManifest(p)
  BY <1>17 DEF WriteManifest
<1>18. CASE PublishFails(p)
  BY <1>18 DEF PublishFails, Break, Release, Fault
<1>19. CASE Exit(p)
  BY <1>19 DEF Exit, Forget
<1>20. CASE Crash(p)
  BY <1>20 DEF Crash, Forget, Fault
<1>21. CASE p \in Run /\ EndSession(p)
  BY <1>21 DEF EndSession
<1> QED
  BY <1>1, <1>2, <1>3, <1>4, <1>5, <1>6, <1>7, <1>8, <1>9, <1>10, <1>11, <1>12, <1>13, <1>14,
       <1>15, <1>16, <1>17, <1>18, <1>19, <1>20, <1>21
     DEF CommandStep, SetupStep, RunStep

\* A command does to the lock what the protocol allows.
LEMMA CommandLock ==
  ASSUME LockInv, NEW p \in Proc, CommandStep(p)
  PROVE  LockInv'
<1>1. LockMove(p) \/ UNCHANGED lockVars
  BY DEF CommandStep, SetupStep, RunStep, LockMove, Held, EndCommand, BeginCommit, BeginRun,
         BeginSetup, Break, CheckPolicy, CommitFails, Crash, CreateDirectory, CreateState,
         EarlyScan, EndSession, Exit, LockFails, PersistGrantPending, PinConfiguration,
         Proceed, Publish, PublishFails, Refuse, Release, UseLock, Verify, WriteConfig,
         WriteManifest, WritePolicy
<1>2. CASE UNCHANGED lockVars
  BY <1>2 DEF lockVars, files, LockInv, LockTypeOK, FilesAgree, OneBusy, OneClaim,
              BusyHasDirectory, OwnerFits, ClaimFits, Busy
<1> QED
  BY <1>1, <1>2, LockMoveInv

\* What a command has checked under the lock stays true while it holds it.
LEMMA CommandInvStep ==
  ASSUME LockInv, CommandTypes, CommandInv, NEW p \in Proc, CommandStep(p)
  PROVE  CommandInv'
<1>a. p \in Run <=> p \notin Setup
  BY DEF Run
<1>b. ASSUME NEW q \in Proc, q # p, pc[p] = "held" PROVE pc[q] # "held"
  BY <1>b DEF LockInv, OneBusy, Busy, Owning
<1>c. ASSUME NEW q \in Proc, q # p, LockMove(p) \/ UNCHANGED lockVars PROVE pc'[q] = pc[q]
  BY <1>c, OthersStay DEF LockInv, lockVars
<1>e. BeginAcquire(p) => pc[p] = "out"
  BY DEF BeginAcquire, Step
<1>f. BeginRelease(p) => pc[p] = "held"
  BY DEF BeginRelease, Step
<1> USE SetupAssumption, <1>a
<1> USE DEF CommandInv, StepsFit, SetupSteps, RunSteps, SetupWindow, RunWindow,
            NoStrandedSession, Unfinished
<1> USE DEF CommandTypes, Run, At, Then, stateHome, command
<1>1. CASE UseLock(p)
  <2>1. \A q \in Proc : q # p => pc'[q] = pc[q]
    <3>1. LockMove(p)
      BY <1>1 DEF LockMove, UseLock
    <3> QED
      BY <3>1, <1>c
  <2>2. pc[p] # "held"
    BY <1>1, NotWorking, <1>e DEF Step, UseLock, Forget, command, stateHome
  <2> QED
    BY <1>1, <2>1, <2>2 DEF UseLock, Forget, command, stateHome
<1>2. CASE LockFails(p)
  <2>1. \A q \in Proc : q # p => pc'[q] = pc[q]
    <3>1. LockMove(p)
      BY <1>2 DEF LockMove, LockFails
    <3> QED
      BY <3>1, <1>c
  <2>2. pc[p] # "held"
    BY <1>2, NotWorking, <1>e DEF Step, LockFails, Fault, command, stateHome
  <2> QED
    BY <1>2, <2>1, <2>2 DEF LockFails, Fault, command, stateHome
<1>3. CASE BeginSetup(p)
  <2>1. \A q \in Proc : q # p => pc'[q] = pc[q]
    <3>1. LockMove(p) \/ UNCHANGED lockVars
      BY <1>3 DEF LockMove, Held, BeginSetup
    <3> QED
      BY <3>1, <1>c
  <2>2. pc[p] # "held"
    BY <1>3, <1>e DEF Step, BeginSetup
  <2> QED
    BY <1>3, <2>1, <2>2 DEF BeginSetup
<1>4. CASE EarlyScan(p)
  <2>1. \A q \in Proc : q # p => pc'[q] = pc[q]
    <3>1. LockMove(p) \/ UNCHANGED lockVars
      BY <1>4 DEF LockMove, Held, EarlyScan, Release
    <3> QED
      BY <3>1, <1>c
  <2>2. pc[p] = "held"
    BY <1>4, <1>f DEF Held, EarlyScan, Release
  <2>3. \A q \in Proc : q # p => pc[q] # "held"
    BY <2>2, <1>b
  <2> QED
    BY <1>4, <2>1, <2>2, <2>3 DEF EarlyScan, Release
<1>5. CASE BeginCommit(p)
  <2>1. \A q \in Proc : q # p => pc'[q] = pc[q]
    <3>1. LockMove(p) \/ UNCHANGED lockVars
      BY <1>5 DEF LockMove, Held, BeginCommit
    <3> QED
      BY <3>1, <1>c
  <2>2. pc[p] # "held"
    BY <1>5, <1>e DEF Step, BeginCommit
  <2> QED
    BY <1>5, <2>1, <2>2 DEF BeginCommit
<1>6. CASE Verify(p, "verify", "reverify")
  <2>1. \A q \in Proc : q # p => pc'[q] = pc[q]
    <3>1. LockMove(p) \/ UNCHANGED lockVars
      BY <1>6 DEF LockMove, Held, Verify, Proceed, Refuse, Release, BaselineUnchanged
    <3> QED
      BY <3>1, <1>c
  <2>2. pc[p] = "held"
    BY <1>6, <1>f DEF Held, Verify, Proceed, Refuse, Release, BaselineUnchanged
  <2>3. \A q \in Proc : q # p => pc[q] # "held"
    BY <2>2, <1>b
  <2> QED
    BY <1>6, <2>1, <2>2, <2>3 DEF Verify, Proceed, Refuse, Release, BaselineUnchanged, Held,
         lockVars
<1>7. CASE Verify(p, "reverify", "policy")
  <2>1. \A q \in Proc : q # p => pc'[q] = pc[q]
    <3>1. LockMove(p) \/ UNCHANGED lockVars
      BY <1>7 DEF LockMove, Held, Verify, Proceed, Refuse, Release, BaselineUnchanged
    <3> QED
      BY <3>1, <1>c
  <2>2. pc[p] = "held"
    BY <1>7, <1>f DEF Held, Verify, Proceed, Refuse, Release, BaselineUnchanged
  <2>3. \A q \in Proc : q # p => pc[q] # "held"
    BY <2>2, <1>b
  <2> QED
    BY <1>7, <2>1, <2>2, <2>3 DEF Verify, Proceed, Refuse, Release, BaselineUnchanged, Held,
         lockVars
<1>8. CASE CommitFails(p)
  <2>1. \A q \in Proc : q # p => pc'[q] = pc[q]
    <3>1. LockMove(p) \/ UNCHANGED lockVars
      BY <1>8 DEF LockMove, Held, CommitFails, Break, Release, Fault
    <3> QED
      BY <3>1, <1>c
  <2>2. pc[p] = "held"
    BY <1>8, <1>f DEF Held, CommitFails, Break, Release, Fault
  <2>3. \A q \in Proc : q # p => pc[q] # "held"
    BY <2>2, <1>b
  <2> QED
    BY <1>8, <2>1, <2>2, <2>3 DEF CommitFails, Break, Release, Fault
<1>9. CASE CheckPolicy(p)
  <2>1. \A q \in Proc : q # p => pc'[q] = pc[q]
    <3>1. LockMove(p) \/ UNCHANGED lockVars
      BY <1>9 DEF LockMove, Held, CheckPolicy, Proceed, Refuse, Release
    <3> QED
      BY <3>1, <1>c
  <2>2. pc[p] = "held"
    BY <1>9, <1>f DEF Held, CheckPolicy, Proceed, Refuse, Release
  <2>3. \A q \in Proc : q # p => pc[q] # "held"
    BY <2>2, <1>b
  <2> QED
    BY <1>9, <2>1, <2>2, <2>3 DEF CheckPolicy, Proceed, Refuse, Release, Held, lockVars
<1>10. CASE WritePolicy(p)
  <2>1. \A q \in Proc : q # p => pc'[q] = pc[q]
    <3>1. LockMove(p) \/ UNCHANGED lockVars
      BY <1>10 DEF LockMove, Held, WritePolicy, Held
    <3> QED
      BY <3>1, <1>c
  <2>2. pc[p] = "held"
    BY <1>10, <1>f DEF Held, WritePolicy, Held
  <2>3. \A q \in Proc : q # p => pc[q] # "held"
    BY <2>2, <1>b
  <2> QED
    BY <1>10, <2>1, <2>2, <2>3 DEF WritePolicy, Held, lockVars
<1>11. CASE WriteConfig(p)
  <2>1. \A q \in Proc : q # p => pc'[q] = pc[q]
    <3>1. LockMove(p) \/ UNCHANGED lockVars
      BY <1>11 DEF LockMove, Held, WriteConfig
    <3> QED
      BY <3>1, <1>c
  <2>2. pc[p] = "held"
    BY <1>11, <1>f DEF Held, WriteConfig
  <2>3. \A q \in Proc : q # p => pc[q] # "held"
    BY <2>2, <1>b
  <2> QED
    BY <1>11, <2>1, <2>2, <2>3 DEF WriteConfig
<1>12. CASE BeginRun(p)
  <2>1. \A q \in Proc : q # p => pc'[q] = pc[q]
    <3>1. LockMove(p) \/ UNCHANGED lockVars
      BY <1>12 DEF LockMove, Held, BeginRun
    <3> QED
      BY <3>1, <1>c
  <2>2. pc[p] # "held"
    BY <1>12, <1>e DEF Step, BeginRun
  <2> QED
    BY <1>12, <2>1, <2>2 DEF BeginRun
<1>13. CASE PinConfiguration(p)
  <2>1. \A q \in Proc : q # p => pc'[q] = pc[q]
    <3>1. LockMove(p) \/ UNCHANGED lockVars
      BY <1>13 DEF LockMove, Held, PinConfiguration, Proceed, Refuse, Release, BaselineUnchanged
    <3> QED
      BY <3>1, <1>c
  <2>2. pc[p] = "held"
    BY <1>13, <1>f DEF Held, PinConfiguration, Proceed, Refuse, Release, BaselineUnchanged
  <2>3. \A q \in Proc : q # p => pc[q] # "held"
    BY <2>2, <1>b
  <2> QED
    BY <1>13, <2>1, <2>2, <2>3 DEF PinConfiguration, Proceed, Refuse, Release,
         BaselineUnchanged, Held, lockVars
<1>14. CASE CreateDirectory(p)
  <2>1. \A q \in Proc : q # p => pc'[q] = pc[q]
    <3>1. LockMove(p) \/ UNCHANGED lockVars
      BY <1>14 DEF LockMove, Held, CreateDirectory, Publish, Held
    <3> QED
      BY <3>1, <1>c
  <2>2. pc[p] = "held"
    BY <1>14, <1>f DEF Held, CreateDirectory, Publish, Held
  <2>3. \A q \in Proc : q # p => pc[q] # "held"
    BY <2>2, <1>b
  <2> QED
    BY <1>14, <2>1, <2>2, <2>3 DEF CreateDirectory, Publish, Held, Held, lockVars
<1>15. CASE CreateState(p)
  <2>1. \A q \in Proc : q # p => pc'[q] = pc[q]
    <3>1. LockMove(p) \/ UNCHANGED lockVars
      BY <1>15 DEF LockMove, Held, CreateState, Publish, Held
    <3> QED
      BY <3>1, <1>c
  <2>2. pc[p] = "held"
    BY <1>15, <1>f DEF Held, CreateState, Publish, Held
  <2>3. \A q \in Proc : q # p => pc[q] # "held"
    BY <2>2, <1>b
  <2> QED
    BY <1>15, <2>1, <2>2, <2>3 DEF CreateState, Publish, Held, Held, lockVars
<1>16. CASE PersistGrantPending(p)
  <2>1. \A q \in Proc : q # p => pc'[q] = pc[q]
    <3>1. LockMove(p) \/ UNCHANGED lockVars
      BY <1>16 DEF LockMove, Held, PersistGrantPending, Publish, Held
    <3> QED
      BY <3>1, <1>c
  <2>2. pc[p] = "held"
    BY <1>16, <1>f DEF Held, PersistGrantPending, Publish, Held
  <2>3. \A q \in Proc : q # p => pc[q] # "held"
    BY <2>2, <1>b
  <2> QED
    BY <1>16, <2>1, <2>2, <2>3 DEF PersistGrantPending, Publish, Held, Held, lockVars
<1>17. CASE WriteManifest(p)
  <2>1. \A q \in Proc : q # p => pc'[q] = pc[q]
    <3>1. LockMove(p) \/ UNCHANGED lockVars
      BY <1>17 DEF LockMove, Held, WriteManifest
    <3> QED
      BY <3>1, <1>c
  <2>2. pc[p] = "held"
    BY <1>17, <1>f DEF Held, WriteManifest
  <2>3. \A q \in Proc : q # p => pc[q] # "held"
    BY <2>2, <1>b
  <2> QED
    BY <1>17, <2>1, <2>2, <2>3 DEF WriteManifest
<1>18. CASE PublishFails(p)
  <2>1. \A q \in Proc : q # p => pc'[q] = pc[q]
    <3>1. LockMove(p) \/ UNCHANGED lockVars
      BY <1>18 DEF LockMove, Held, PublishFails, Break, Release, Fault
    <3> QED
      BY <3>1, <1>c
  <2>2. pc[p] = "held"
    BY <1>18, <1>f DEF Held, PublishFails, Break, Release, Fault
  <2>3. \A q \in Proc : q # p => pc[q] # "held"
    BY <2>2, <1>b
  <2> QED
    BY <1>18, <2>1, <2>2, <2>3 DEF PublishFails, Break, Release, Fault
<1>19. CASE Exit(p)
  <2>1. \A q \in Proc : q # p => pc'[q] = pc[q]
    <3>1. LockMove(p)
      BY <1>19 DEF LockMove, EndCommand, Exit
    <3> QED
      BY <3>1, <1>c
  <2>2. pc[p] # "held"
    BY <1>19, <1>e DEF Step, Exit, Forget
  <2> QED
    BY <1>19, <2>1, <2>2 DEF Exit, Forget
<1>20. CASE Crash(p)
  <2>1. \A q \in Proc : q # p => pc'[q] = pc[q]
    <3>1. LockMove(p)
      BY <1>20 DEF LockMove, EndCommand, Crash
    <3> QED
      BY <3>1, <1>c
  <2> QED
    BY <1>20, <2>1 DEF Crash, Forget, Fault
<1>21. CASE p \in Run /\ EndSession(p)
  <2>1. \A q \in Proc : q # p => pc'[q] = pc[q]
    <3>1. UNCHANGED lockVars
      BY <1>21 DEF EndSession
    <3> QED
      BY <3>1, <1>c
  <2> QED
    BY <1>21, <2>1 DEF EndSession, lockVars
<1> QED
  BY <1>1, <1>2, <1>3, <1>4, <1>5, <1>6, <1>7, <1>8, <1>9, <1>10, <1>11, <1>12, <1>13, <1>14,
       <1>15, <1>16, <1>17, <1>18, <1>19, <1>20, <1>21
     DEF CommandStep, SetupStep, RunStep

LEMMA IInvInit == Init => IInv
<1> SUFFICES ASSUME Init PROVE IInv
  OBVIOUS
<1> USE ProcAssumption, AttemptsAssumption, SetupAssumption, FaultAssumption
<1>1. LockTypeOK
  <2>1. 0 \in 0..(Attempts - 1)
    OBVIOUS
  <2> QED
    BY <2>1 DEF Init, LockInit, LockTypeOK, LockPc
<1>2. LockInv
  BY <1>1 DEF Init, LockInit, LockInv, FilesAgree, OneBusy, OneClaim, BusyHasDirectory,
       OwnerFits,
              ClaimFits, Busy, Owning, Claiming, Removing
<1>3. CommandTypes
  BY DEF Init, CommandTypes, Configurations, SessionStatus, Steps, Files
<1>4. CommandInv
  BY DEF Init, CommandInv, StepsFit, SetupSteps, RunSteps, SetupWindow, RunWindow,
         NoStrandedSession, Run
<1> QED
  BY <1>1, <1>2, <1>3, <1>4 DEF IInv, TypeOK, CommandTypes

LEMMA IInvNext == IInv /\ [Next]_vars => IInv'
<1>1. ASSUME IInv, UNCHANGED vars PROVE IInv'
  BY <1>1 DEF IInv, TypeOK, vars, lockVars, files, stateHome, command, LockInv, LockTypeOK,
       FilesAgree,
              OneBusy, OneClaim, BusyHasDirectory, OwnerFits, ClaimFits, Busy, CommandInv,
                   StepsFit,
              SetupWindow, RunWindow, NoStrandedSession, Unfinished
<1>2. ASSUME IInv, NEW p \in Proc, CommandStep(p) PROVE IInv'
  <2>1. LockInv'
    BY <1>2, CommandLock DEF IInv
  <2>2. CommandTypes'
    BY <1>2, CommandTypesStep DEF IInv, TypeOK, CommandTypes
  <2>3. CommandInv'
    BY <1>2, CommandInvStep DEF IInv, TypeOK, CommandTypes
  <2> QED
    BY <2>1, <2>2, <2>3 DEF IInv, TypeOK, LockInv, CommandTypes
<1>3. ASSUME Next PROVE \E p \in Proc : CommandStep(p)
  BY <1>3 DEF Next, CommandStep, Run
<1> QED
  BY <1>1, <1>2, <1>3

LEMMA Invariance == Spec => []IInv
  BY IInvInit, IInvNext, PTL DEF Spec

-----------------------------------------------------------------------------
(* What the runs check, for every value of the constants *)

\* The state of the lock, of the state home and of the commands is well formed.
THEOREM WellFormed == Spec => []TypeOK
<1>1. IInv => TypeOK
  BY DEF IInv
<1> QED
  BY <1>1, Invariance, PTL

\* However many processes contend, die or fail to write, one at a time is
\* between acquire and release of the configuration lock.
THEOREM Exclusion == Spec => []MutualExclusion
<1>1. IInv => MutualExclusion
  BY DEF IInv, LockInv, OneBusy, Busy, Owning, MutualExclusion
<1> QED
  BY <1>1, Invariance, PTL

\* No setup replaces the configuration under a session that another process has
\* published, or is publishing, and has not ended.
THEOREM SessionsKeepConfiguration == Spec => []NoStrandedSession
<1>1. IInv => NoStrandedSession
  BY DEF IInv, CommandInv
<1> QED
  BY <1>1, Invariance, PTL

\* What a single command does to the two files that setup writes.
LEMMA OnlySetupWrites ==
  ASSUME IInv, NEW p \in Proc, CommandStep(p)
  PROVE  /\ config' = config \/ WriteConfig(p)
         /\ policy' = policy \/ WritePolicy(p)
<1>1. CASE UseLock(p)
  BY <1>1 DEF UseLock, stateHome
<1>2. CASE LockFails(p)
  BY <1>2 DEF LockFails, stateHome
<1>3. CASE BeginSetup(p)
  BY <1>3 DEF BeginSetup, stateHome
<1>4. CASE EarlyScan(p)
  BY <1>4 DEF EarlyScan, Release, stateHome
<1>5. CASE BeginCommit(p)
  BY <1>5 DEF BeginCommit, stateHome
<1>6. CASE Verify(p, "verify", "reverify")
  BY <1>6 DEF Verify, Proceed, Refuse, Release, stateHome
<1>7. CASE Verify(p, "reverify", "policy")
  BY <1>7 DEF Verify, Proceed, Refuse, Release, stateHome
<1>8. CASE CommitFails(p)
  BY <1>8 DEF CommitFails, Break, Release, stateHome
<1>9. CASE CheckPolicy(p)
  BY <1>9 DEF CheckPolicy, Proceed, Refuse, Release, stateHome
<1>10. CASE WritePolicy(p)
  BY <1>10 DEF WritePolicy, Held
<1>11. CASE WriteConfig(p)
  BY <1>11 DEF WriteConfig
<1>12. CASE BeginRun(p)
  BY <1>12 DEF BeginRun, stateHome
<1>13. CASE PinConfiguration(p)
  BY <1>13 DEF PinConfiguration, Proceed, Refuse, Release, stateHome
<1>14. CASE CreateDirectory(p)
  BY <1>14 DEF CreateDirectory, Publish, stateHome
<1>15. CASE CreateState(p)
  BY <1>15 DEF CreateState, Publish, stateHome
<1>16. CASE PersistGrantPending(p)
  BY <1>16 DEF PersistGrantPending, Publish, stateHome
<1>17. CASE WriteManifest(p)
  BY <1>17 DEF WriteManifest, stateHome
<1>18. CASE PublishFails(p)
  BY <1>18 DEF PublishFails, Break, Release, stateHome
<1>19. CASE Exit(p)
  BY <1>19 DEF Exit, stateHome
<1>20. CASE Crash(p)
  BY <1>20 DEF Crash, stateHome
<1>21. CASE p \in Run /\ EndSession(p)
  BY <1>21 DEF EndSession, stateHome
<1> QED
  BY <1>1, <1>2, <1>3, <1>4, <1>5, <1>6, <1>7, <1>8, <1>9, <1>10, <1>11, <1>12, <1>13, <1>14,
       <1>15, <1>16, <1>17, <1>18, <1>19, <1>20, <1>21
     DEF CommandStep, SetupStep, RunStep

\* A step of setup that writes the configuration replaces the one it began with.
THEOREM BaselineReplaced == Spec => NoLostSetup
<1>1. ASSUME IInv, [Next]_vars PROVE [config' # config => config = baseline[config']]_vars
  <2> SUFFICES ASSUME config' # config PROVE config = baseline[config']
    OBVIOUS
  <2>1. PICK p \in Proc : CommandStep(p)
    BY <1>1 DEF Next, CommandStep, Run, vars, stateHome
  <2>2. WriteConfig(p)
    BY <1>1, <2>1, OnlySetupWrites
  <2>3. config' = p
    BY <2>2 DEF WriteConfig
  <2>4. config = baseline[p]
    BY <1>1, <2>2 DEF WriteConfig, At, IInv, CommandInv, SetupWindow
  <2> QED
    BY <2>3, <2>4
<1> QED
  BY <1>1, Invariance, PTL DEF Spec, NoLostSetup

\* Setup writes a machine policy only where there is none.
THEOREM MachinePolicyKept == Spec => PolicyKept
<1>1. ASSUME IInv, [Next]_vars PROVE [policy # None => policy' = policy]_vars
  <2> SUFFICES ASSUME policy' # policy PROVE policy = None
    OBVIOUS
  <2>1. PICK p \in Proc : CommandStep(p)
    BY <1>1 DEF Next, CommandStep, Run, vars, stateHome
  <2>2. WritePolicy(p)
    BY <1>1, <2>1, OnlySetupWrites
  <2> QED
    BY <1>1, <2>2 DEF WritePolicy, At, IInv, CommandInv, SetupWindow
<1> QED
  BY <1>1, Invariance, PTL DEF Spec, PolicyKept
====
