---- MODULE ToolExecutionProofs ----
(***************************************************************************)
(* What ToolExecution guarantees for every set of operations and every     *)
(* bound: its types, that a mutation is set going at most once, and that   *)
(* an operation settled as not run did not run.                            *)
(***************************************************************************)
EXTENDS ToolExecution, TLAPS

Untouched(o) == Mutating(o) => runs[o] = 0

\* What the durable records of an operation say about its having run.
RecordsAgree(o) ==
  /\ journal[o].status \in {"absent", "torn", "accepted"} => Untouched(o)
  /\ journal[o].status = "executing" =>
       /\ journal[o].how = "none"
       /\ pending[o] # "none"
       /\ pending[o] = "accepted" => Untouched(o)
       /\ Terminal(o) /\ evidence[o].stage < LaunchReceipt /\ ~ lost => Untouched(o)
  /\ journal[o].status = "indeterminate" => pending[o] # "none"
  /\ journal[o].how \in {"denied", "prelaunch", "unspawned"} => Untouched(o)
  /\ evidence[o].verdict \in {"none", "effect", "unspawned"}
  /\ ~ Terminal(o) => evidence[o].verdict = "none"
  /\ evidence[o].verdict = "unspawned" => Untouched(o)
  /\ evidence[o].stage < ExitReceipt => evidence[o].verdict = "none"
  /\ Mutating(o) => runs[o] <= 1

\* Where the process stands in the call in hand, and what is written by then.
CallAgrees(o) ==
  At(o) =>
    /\ pc \in {"registered", "unarm"} => journal[o].status = "accepted"
    /\ pc \in {"accepted", "asking", "decided", "allowed", "refused"} =>
         journal[o].status = "accepted" /\ pending[o] = "accepted"
    /\ pc = "marked" => journal[o].status = "executing" /\ pending[o] = "accepted"
    /\ pc \in {"armed", "launching"} =>
         /\ journal[o].status = "executing" /\ pending[o] = "executing"
         /\ Untouched(o)
    /\ pc = "launching" => Terminal(o)
    /\ pc = "running" => journal[o].status = "executing" /\ pending[o] = "executing"
    /\ pc = "journaled" => journal[o].status \in {"completed", "failed"}

\* The startup scan lets no unknown outcome through, and a new one is either
\* that of the call in hand or stops the process.
OutcomeKnown(o) ==
  \/ ~ Mutating(o)
  \/ pc \in {"down", "startup", "recover", "uncertain", "halting", "leaving"}
  \/ pc = "overrun" /\ status \notin {"executing_tools", "returning_results"}
  \/ At(o) /\ pc \in {"marked", "armed", "launching", "running"}
  \/ journal[o].status \notin {"executing", "indeterminate"}

\* An operation is settled once: nothing is pending of it any more and its
\* journal record stays as it ended.
SettledOnce(o) ==
  /\ o \in completed =>
       /\ pending[o] = "none"
       /\ journal[o].status \in {"completed", "failed"}
  /\ At(o) /\ pc = "journaled" => pending[o] # "none"

\* The lifecycle status where the process stands.
StatusFits ==
  /\ status \notin {"created", "preflight"}
  /\ pc = "startup" => status \notin TerminalStatus
  /\ pc = "recover" => status \in {"initializing_model", "awaiting_model", "recovering"}
  /\ pc \in {"await", "reply", "noticed"} => status = "awaiting_model"
  /\ pc \in {"asking", "decided"} => status = "awaiting_user"
  /\ pc \in {"returning", "notice"} => status = "returning_results"
  /\ pc \in ({"next"} \cup PcInCall) \ {"asking", "decided", "uncertain"} =>
       status = "executing_tools"
  /\ pc \in {"uncertain", "overrun", "halting"} =>
       status \in {"initializing_model", "awaiting_model", "recovering", "executing_tools"}
                    \cup IF pc = "overrun" THEN {"returning_results"} ELSE {}
  /\ pc = "leaving" => status \in TerminalStatus \cup {"paused"}

LossDeclared == lost /\ pc # "down" => declared

IInv ==
  /\ TypeOK
  /\ LossDeclared
  /\ StatusFits
  /\ \A o \in Op :
       RecordsAgree(o) /\ CallAgrees(o) /\ OutcomeKnown(o) /\ SettledOnce(o)

-----------------------------------------------------------------------------
(* Types *)

USE ToolAssumption, BoundAssumption

\* Charging and refunding keep the counters counters.
LEMMA CountersTyped ==
  ASSUME NEW u \in [Counters -> Int], NEW cs
  PROVE  Consume(u, cs) \in [Counters -> Int] /\ Refund(u, cs) \in [Counters -> Int]
  BY DEF Consume, Refund

\* Every step keeps the types.
LEMMA TypeStep == TypeOK /\ [Next]_vars => TypeOK'
<1> SUFFICES ASSUME TypeOK, [Next]_vars PROVE TypeOK'
  OBVIOUS
<1> USE DEF TypeOK, Status, TerminalStatus, Pc, PcInCall, JournalStatus,
            PendingStatus, Ending, Stage, Counters, Goto, session, records,
            process, world
<1>1. CASE Recover
  <2>1. ASSUME StartupMove PROVE TypeOK'
    BY <2>1 DEF StartupMove, MoveStatus, StartupNext
  <2>2. ASSUME StartupScan PROVE TypeOK'
    BY <2>2 DEF StartupScan, GoOn, StartupNext
  <2>3. ASSUME StartupDone PROVE TypeOK'
    BY <2>3 DEF StartupDone, Recovered, Terminal
  <2>4. ASSUME NEW o \in Op, RevertUnstarted(o) PROVE TypeOK'
    BY <2>4 DEF RevertUnstarted, WriteJournal, SetJournal, Mutating
  <2>5. ASSUME NEW o \in Op, RefundUnstarted(o) PROVE TypeOK'
    BY <2>5, CountersTyped DEF RefundUnstarted, WritePending, SetPending
  <2>6. ASSUME NEW o \in Op, PromoteTerminal(o) PROVE TypeOK'
    BY <2>6 DEF PromoteTerminal, WriteJournal, SetJournal, Undecided, Terminal,
                HasResult, ResultStored
  <2>7. ASSUME NEW o \in Op, RecordPrelaunch(o) PROVE TypeOK'
    BY <2>7 DEF RecordPrelaunch, WriteJournal, SetJournal, Undecided, Terminal,
                ProvesNoLaunch, LaunchReceipt
  <2>8. ASSUME NEW o \in Op, MarkTerminalUncertain(o) PROVE TypeOK'
    BY <2>8 DEF MarkTerminalUncertain, WriteJournal, SetJournal, Undecided,
                Terminal, HasResult, ResultStored, ProvesNoLaunch,
                LaunchReceipt
  <2>9. ASSUME NEW o \in Op, RefuseTerminalConflict(o) PROVE TypeOK'
    BY <2>9 DEF RefuseTerminalConflict, GoOn, Undecided, Terminal, HasResult,
                ResultStored
  <2>10. ASSUME NEW o \in Op, HoldUncertain(o) PROVE TypeOK'
    BY <2>10 DEF HoldUncertain, WritePending, SetPending, Undecided, Terminal,
                 HasResult, ResultStored, ProvesNoLaunch, LaunchReceipt,
                 Mutating
  <2>11. ASSUME NEW o \in Op, PauseUncertain(o) PROVE TypeOK'
    BY <2>11 DEF PauseUncertain, GoOn, Terminal
  <2>12. ASSUME NEW o \in Op, ApplyRecovered(o) PROVE TypeOK'
    <3>1. used' \in [Counters -> Int]
      BY <2>12, CountersTyped DEF ApplyRecovered, UseWhenSettled
    <3>2. pending' \in [Op -> PendingStatus] /\ completed' \in SUBSET Op
          /\ unreturned' \in SUBSET Op /\ recorded' \in SUBSET Op
      BY <2>12 DEF ApplyRecovered, Settle, SetPending, RecordEffect
    <3> QED BY <2>12, <3>1, <3>2 DEF ApplyRecovered
  <2> QED BY <1>1, <2>1, <2>2, <2>3, <2>4, <2>5, <2>6, <2>7, <2>8, <2>9, <2>10,
        <2>11, <2>12
      DEF Recover
<1>2. CASE StartCall
  <2>1. ASSUME BeginTools PROVE TypeOK'
    BY <2>1 DEF BeginTools
  <2>2. ASSUME NEW o \in Op, Register(o) PROVE TypeOK'
    BY <2>2 DEF Register, WriteJournal, SetJournal, At
  <2>3. ASSUME NEW o \in Op, RefuseTorn(o) PROVE TypeOK'
    BY <2>3 DEF RefuseTorn, GoOn, At
  <2>4. ASSUME NEW o \in Op, Accept(o) PROVE TypeOK'
    BY <2>4, CountersTyped DEF Accept, WritePending, SetPending, At
  <2>5. ASSUME NEW o \in Op, Unaffordable(o) PROVE TypeOK'
    BY <2>5 DEF Unaffordable, GoOn, Settled, At
  <2>6. ASSUME NEW o \in Op, RefuseReplay(o) PROVE TypeOK'
    BY <2>6 DEF RefuseReplay, Settled, At
  <2>7. ASSUME NEW o \in Op, ReplayTerminal(o) PROVE TypeOK'
    BY <2>7 DEF ReplayTerminal, Settled, At, HasResult, ResultStored, Terminal
  <2>8. ASSUME NEW o \in Op, ReplayMissing(o) PROVE TypeOK'
    BY <2>8 DEF ReplayMissing, GoOn, Settled, At, HasResult, ResultStored,
                Terminal
  <2>9. ASSUME NEW o \in Op, ReplaySettled(o) PROVE TypeOK'
    <3>1. used' \in [Counters -> Int]
      BY <2>9, CountersTyped DEF ReplaySettled, UseWhenSettled
    <3>2. pending' \in [Op -> PendingStatus] /\ completed' \in SUBSET Op
          /\ unreturned' \in SUBSET Op /\ recorded' \in SUBSET Op
      BY <2>9 DEF ReplaySettled, Settle, SetPending, RecordEffect
    <3> QED BY <2>9, <3>1, <3>2 DEF ReplaySettled
  <2>10. ASSUME NEW o \in Op, ReplayOverrun(o) PROVE TypeOK'
    BY <2>10 DEF ReplayOverrun, RecordEffect, NewEffect, Settled, At
  <2> QED BY <1>2, <2>1, <2>2, <2>3, <2>4, <2>5, <2>6, <2>7, <2>8, <2>9, <2>10
      DEF StartCall
<1>3. CASE Decision
  <2>1. ASSUME NEW o \in Op, Authorize(o) PROVE TypeOK'
    BY <2>1 DEF Authorize, GoOn, At
  <2>2. ASSUME NEW o \in Op, Ask(o) PROVE TypeOK'
    BY <2>2 DEF Ask, MoveStatus, At
  <2>3. ASSUME NEW o \in Op, UseCachedDecision(o) PROVE TypeOK'
    BY <2>3 DEF UseCachedDecision, GoOn, At
  <2>4. ASSUME NEW o \in Op, AfterDecision(o) PROVE TypeOK'
    BY <2>4 DEF AfterDecision, MoveStatus, At
  <2>5. ASSUME NEW o \in Op, Refuse(o) PROVE TypeOK'
    BY <2>5 DEF Refuse, WriteJournal, SetJournal, At
  <2>6. ASSUME NEW o \in Op, HeadroomExhausted(o) PROVE TypeOK'
    BY <2>6 DEF HeadroomExhausted, WriteJournal, SetJournal, Terminal, At
  <2> QED BY <1>3, <2>1, <2>2, <2>3, <2>4, <2>5, <2>6
      DEF Decision
<1>4. CASE Execute
  <2>1. ASSUME NEW o \in Op, MarkExecuting(o) PROVE TypeOK'
    BY <2>1 DEF MarkExecuting, WriteJournal, SetJournal, At
  <2>2. ASSUME NEW o \in Op, PersistExecuting(o) PROVE TypeOK'
    <3>1. used' \in [Counters -> Int]
      BY <2>2, CountersTyped DEF PersistExecuting
    <3>2. pending' \in [Op -> PendingStatus]
      BY <2>2 DEF PersistExecuting, WritePending, SetPending
    <3> QED BY <2>2, <3>1, <3>2 DEF PersistExecuting, WritePending
  <2>3. ASSUME NEW o \in Op, RestoreUnstarted(o) PROVE TypeOK'
    BY <2>3 DEF RestoreUnstarted, WriteJournal, SetJournal, At
  <2>4. ASSUME NEW o \in Op, PersistUnstarted(o) PROVE TypeOK'
    <3>1. used' \in [Counters -> Int]
      BY <2>4, CountersTyped DEF PersistUnstarted
    <3>2. pending' \in [Op -> PendingStatus]
      BY <2>4 DEF PersistUnstarted, WritePending, SetPending
    <3> QED BY <2>4, <3>1, <3>2 DEF PersistUnstarted, WritePending
  <2>5. ASSUME NEW o \in Op, Dispatch(o) PROVE TypeOK'
    BY <2>5 DEF Dispatch, SetGoing, Terminal, At
  <2>6. ASSUME NEW o \in Op, DispatchTerminal(o) PROVE TypeOK'
    BY <2>6 DEF DispatchTerminal, GoOn, Terminal, At
  <2>7. ASSUME NEW o \in Op, PersistRequest(o) PROVE TypeOK'
    BY <2>7 DEF PersistRequest, WriteEvidence, SetEvidence, At, NoEvidence,
                RequestStored
  <2>8. ASSUME NEW o \in Op, PersistLaunch(o) PROVE TypeOK'
    BY <2>8 DEF PersistLaunch, WriteEvidence, SetEvidence, At, RequestStored,
                LaunchReceipt
  <2>9. ASSUME NEW o \in Op, PrelaunchFailure(o) PROVE TypeOK'
    BY <2>9 DEF PrelaunchFailure, WriteJournal, SetJournal, At, LaunchReceipt
  <2>10. ASSUME NEW o \in Op, Spawn(o) PROVE TypeOK'
    BY <2>10 DEF Spawn, SetGoing, At, LaunchReceipt
  <2>11. ASSUME NEW o \in Op, SpawnFails(o) PROVE TypeOK'
    BY <2>11 DEF SpawnFails, WriteEvidence, SetEvidence, At, LaunchReceipt,
                 ExitReceipt
  <2>12. ASSUME NEW o \in Op, PersistExit(o) PROVE TypeOK'
    BY <2>12 DEF PersistExit, WriteEvidence, SetEvidence, Terminal, At,
                 LaunchReceipt, ExitReceipt
  <2>13. ASSUME NEW o \in Op, PersistResult(o) PROVE TypeOK'
    BY <2>13 DEF PersistResult, WriteEvidence, SetEvidence, At, ExitReceipt,
                 ResultStored
  <2>14. ASSUME NEW o \in Op, PersistenceFailure(o) PROVE TypeOK'
    BY <2>14 DEF PersistenceFailure, SetJournal, Terminal, At, ResultStored
  <2> QED BY <1>4, <2>1, <2>2, <2>3, <2>4, <2>5, <2>6, <2>7, <2>8, <2>9, <2>10,
        <2>11, <2>12, <2>13, <2>14
      DEF Execute
<1>5. CASE EndCall
  <2>1. ASSUME FinishCalls PROVE TypeOK'
    BY <2>1 DEF FinishCalls, MoveStatus
  <2>2. ASSUME QueueResults PROVE TypeOK'
    BY <2>2 DEF QueueResults, InReply
  <2>3. ASSUME BudgetRaised PROVE TypeOK'
    BY <2>3 DEF BudgetRaised
  <2>4. ASSUME BudgetNotice PROVE TypeOK'
    BY <2>4 DEF BudgetNotice, MoveStatus
  <2>5. ASSUME QueueNotice PROVE TypeOK'
    BY <2>5 DEF QueueNotice
  <2>6. ASSUME BudgetPause PROVE TypeOK'
    BY <2>6 DEF BudgetPause, MoveStatus, StoppedAs
  <2>7. ASSUME Stop PROVE TypeOK'
    BY <2>7 DEF Stop, MoveStatus, StoppedAs, Interruptible
  <2>8. ASSUME Leave PROVE TypeOK'
    BY <2>8 DEF Leave, ProcessEnds
  <2>9. ASSUME NEW o \in Op, Complete(o) PROVE TypeOK'
    BY <2>9, SMTT(30) DEF Complete, WriteJournal, SetJournal, Finished, HasResult,
                ResultStored, Terminal, At, Outcome
  <2>10. ASSUME NEW o \in Op, ReturnUncertain(o) PROVE TypeOK'
    BY <2>10 DEF ReturnUncertain, WriteJournal, SetJournal, Mutating, Terminal,
                 At
  <2>11. ASSUME NEW o \in Op, CompletionUnrecorded(o) PROVE TypeOK'
    BY <2>11 DEF CompletionUnrecorded, SetJournal, Finished, HasResult,
                 ResultStored, Terminal, At
  <2>12. ASSUME NEW o \in Op, SettleCall(o) PROVE TypeOK'
    <3>1. used' \in [Counters -> Int]
      BY <2>12, CountersTyped DEF SettleCall, UseWhenSettled
    <3>2. pending' \in [Op -> PendingStatus] /\ completed' \in SUBSET Op
          /\ unreturned' \in SUBSET Op /\ recorded' \in SUBSET Op
      BY <2>12 DEF SettleCall, Settle, SetPending, RecordEffect
    <3> QED BY <2>12, <3>1, <3>2 DEF SettleCall
  <2>13. ASSUME NEW o \in Op, OverrunCall(o) PROVE TypeOK'
    <3>1. used' \in [Counters -> Int]
      BY <2>13, CountersTyped DEF OverrunCall, UseWhenSettled
    <3>2. pending' \in [Op -> PendingStatus] /\ completed' \in SUBSET Op
          /\ unreturned' \in SUBSET Op /\ recorded' \in SUBSET Op
      BY <2>13 DEF OverrunCall, Settle, SetPending, RecordEffect
    <3> QED BY <2>13, <3>1, <3>2 DEF OverrunCall
  <2>14. ASSUME NEW o \in Op, HoldIndeterminate(o) PROVE TypeOK'
    BY <2>14 DEF HoldIndeterminate, WritePending, SetPending
  <2>15. ASSUME ResultsUnaffordable PROVE TypeOK'
    BY <2>15 DEF ResultsUnaffordable, GoOn
  <2> QED BY <1>5, <2>1, <2>2, <2>3, <2>4, <2>5, <2>6, <2>7, <2>8, <2>9, <2>10,
        <2>11, <2>12, <2>13, <2>14, <2>15
      DEF EndCall
<1>6. CASE Environment
  <2>1. ASSUME \E d \in BOOLEAN : Resume(d) PROVE TypeOK'
    BY <2>1 DEF Resume
  <2>2. ASSUME \E r \in Replies : ReceiveReply(r) PROVE TypeOK'
    BY <2>2, SMTT(30) DEF ReceiveReply, Replies
  <2>3. ASSUME \E k \in {"paused", "aborted"} : Interrupt(k) PROVE TypeOK'
    BY <2>3 DEF Interrupt
  <2>4. ASSUME Crash PROVE TypeOK'
    <3> USE <2>4 DEF Crash, ProcessEnds
    <3>1. crashes' \in 0..MaxCrashes
      OBVIOUS
    <3>2. pc' \in Pc /\ at' \in Nat /\ intr' = "none" /\ declared' = FALSE
      OBVIOUS
    <3>3. UNCHANGED <<session, records>>
      OBVIOUS
    <3>4. UNCHANGED <<lost, runs, interrupts, faults, raises>>
      OBVIOUS
    <3> QED BY <3>1, <3>2, <3>3, <3>4, ZenonT(30)
  <2>5. ASSUME NEW o \in Op, RejectReuse(o) PROVE TypeOK'
    BY <2>5 DEF RejectReuse, MoveStatus, At
  <2>6. ASSUME NEW o \in Op, TearRecord(o) PROVE TypeOK'
    <3> USE <2>6 DEF TearRecord, SetJournal, ProcessEnds
    <3>1. crashes' \in 0..MaxCrashes
      OBVIOUS
    <3>2. pc' \in Pc /\ at' \in Nat /\ intr' = "none" /\ declared' = FALSE
      OBVIOUS
    <3>3. journal' \in [Op -> [status : JournalStatus, how : Ending]]
      OBVIOUS
    <3>4. UNCHANGED <<session, evidence, decision, reply>>
      OBVIOUS
    <3>5. UNCHANGED <<lost, runs, interrupts, faults, raises>>
      OBVIOUS
    <3> QED BY <3>1, <3>2, <3>3, <3>4, <3>5, ZenonT(30)
  <2>7. ASSUME NEW o \in Op, Decide(o) PROVE TypeOK'
    BY <2>7 DEF Decide, At
  <2>8. ASSUME NEW o \in Op, LoseArtifacts(o) PROVE TypeOK'
    <3> USE <2>8 DEF LoseArtifacts, SetEvidence, ProcessEnds
    <3>1. crashes' \in 0..MaxCrashes /\ lost' = TRUE
      OBVIOUS
    <3>2. pc' \in Pc /\ at' \in Nat /\ intr' = "none" /\ declared' = FALSE
      OBVIOUS
    <3>3. evidence' \in [Op -> [stage : Stage, verdict : Ending]]
      OBVIOUS
    <3>4. UNCHANGED <<session, journal, decision, reply>>
      OBVIOUS
    <3>5. UNCHANGED <<runs, interrupts, faults, raises>>
      OBVIOUS
    <3> QED BY <3>1, <3>2, <3>3, <3>4, <3>5, ZenonT(30)
  <2> QED BY <1>6, <2>1, <2>2, <2>3, <2>4, <2>5, <2>6, <2>7, <2>8
      DEF Environment
<1>7. CASE UNCHANGED vars
  BY <1>7 DEF vars
<1> QED BY <1>1, <1>2, <1>3, <1>4, <1>5, <1>6, <1>7 DEF Next, Proceed

-----------------------------------------------------------------------------
(* What the records say, and where the process stands *)

\* Every step keeps what the records of an operation p say of its having run;
\* p may be the operation the step is about or another one.
LEMMA RecordsStep ==
  ASSUME TypeOK, LossDeclared, [Next]_vars,
         NEW p \in Op, RecordsAgree(p), CallAgrees(p)
  PROVE  RecordsAgree(p)'
<1> USE DEF TypeOK, RecordsAgree, CallAgrees, LossDeclared, Untouched,
            Mutating, Terminal, At, Goto, session, records, process, world,
            NoEvidence, RequestStored, LaunchReceipt, ExitReceipt, ResultStored, Stage
<1>1. CASE Recover
  <2>1. ASSUME StartupMove PROVE RecordsAgree(p)'
    BY <2>1 DEF StartupMove, MoveStatus
  <2>2. ASSUME StartupScan PROVE RecordsAgree(p)'
    BY <2>2 DEF StartupScan, GoOn
  <2>3. ASSUME StartupDone PROVE RecordsAgree(p)'
    BY <2>3 DEF StartupDone, Recovered
  <2>4. ASSUME NEW o \in Op, RevertUnstarted(o) PROVE RecordsAgree(p)'
    BY <2>4 DEF RevertUnstarted, WriteJournal, SetJournal
  <2>5. ASSUME NEW o \in Op, RefundUnstarted(o) PROVE RecordsAgree(p)'
    BY <2>5 DEF RefundUnstarted, WritePending, SetPending
  <2>6. ASSUME NEW o \in Op, PromoteTerminal(o) PROVE RecordsAgree(p)'
    BY <2>6 DEF PromoteTerminal, WriteJournal, SetJournal, Undecided, HasResult
  <2>7. ASSUME NEW o \in Op, RecordPrelaunch(o) PROVE RecordsAgree(p)'
    BY <2>7 DEF RecordPrelaunch, WriteJournal, SetJournal, Undecided,
                ProvesNoLaunch
  <2>8. ASSUME NEW o \in Op, MarkTerminalUncertain(o) PROVE RecordsAgree(p)'
    BY <2>8 DEF MarkTerminalUncertain, WriteJournal, SetJournal, Undecided,
                HasResult, ProvesNoLaunch
  <2>9. ASSUME NEW o \in Op, RefuseTerminalConflict(o) PROVE RecordsAgree(p)'
    BY <2>9 DEF RefuseTerminalConflict, GoOn, Undecided, HasResult
  <2>10. ASSUME NEW o \in Op, HoldUncertain(o) PROVE RecordsAgree(p)'
    BY <2>10 DEF HoldUncertain, WritePending, SetPending, Undecided, HasResult,
                 ProvesNoLaunch
  <2>11. ASSUME NEW o \in Op, PauseUncertain(o) PROVE RecordsAgree(p)'
    BY <2>11 DEF PauseUncertain, GoOn
  <2>12. ASSUME NEW o \in Op, ApplyRecovered(o) PROVE RecordsAgree(p)'
    BY <2>12 DEF ApplyRecovered, Settle, SetPending, Undecided, HasResult,
                 ProvesNoLaunch
  <2> QED BY <1>1, <2>1, <2>2, <2>3, <2>4, <2>5, <2>6, <2>7, <2>8, <2>9, <2>10,
        <2>11, <2>12
      DEF Recover
<1>2. CASE StartCall
  <2>1. ASSUME BeginTools PROVE RecordsAgree(p)'
    BY <2>1 DEF BeginTools
  <2>2. ASSUME NEW o \in Op, Register(o) PROVE RecordsAgree(p)'
    BY <2>2 DEF Register, WriteJournal, SetJournal
  <2>3. ASSUME NEW o \in Op, RefuseTorn(o) PROVE RecordsAgree(p)'
    BY <2>3 DEF RefuseTorn, GoOn
  <2>4. ASSUME NEW o \in Op, Accept(o) PROVE RecordsAgree(p)'
    BY <2>4 DEF Accept, WritePending, SetPending
  <2>5. ASSUME NEW o \in Op, Unaffordable(o) PROVE RecordsAgree(p)'
    BY <2>5 DEF Unaffordable, GoOn, Settled
  <2>6. ASSUME NEW o \in Op, RefuseReplay(o) PROVE RecordsAgree(p)'
    BY <2>6 DEF RefuseReplay, Settled
  <2>7. ASSUME NEW o \in Op, ReplayTerminal(o) PROVE RecordsAgree(p)'
    BY <2>7 DEF ReplayTerminal, Settled, HasResult
  <2>8. ASSUME NEW o \in Op, ReplayMissing(o) PROVE RecordsAgree(p)'
    BY <2>8 DEF ReplayMissing, GoOn, Settled, HasResult
  <2>9. ASSUME NEW o \in Op, ReplaySettled(o) PROVE RecordsAgree(p)'
    BY <2>9 DEF ReplaySettled, Settle, SetPending, Settled
  <2>10. ASSUME NEW o \in Op, ReplayOverrun(o) PROVE RecordsAgree(p)'
    BY <2>10 DEF ReplayOverrun, Settled
  <2> QED BY <1>2, <2>1, <2>2, <2>3, <2>4, <2>5, <2>6, <2>7, <2>8, <2>9, <2>10
      DEF StartCall
<1>3. CASE Decision
  <2>1. ASSUME NEW o \in Op, Authorize(o) PROVE RecordsAgree(p)'
    BY <2>1 DEF Authorize, GoOn
  <2>2. ASSUME NEW o \in Op, Ask(o) PROVE RecordsAgree(p)'
    BY <2>2 DEF Ask, MoveStatus
  <2>3. ASSUME NEW o \in Op, UseCachedDecision(o) PROVE RecordsAgree(p)'
    BY <2>3 DEF UseCachedDecision, GoOn
  <2>4. ASSUME NEW o \in Op, AfterDecision(o) PROVE RecordsAgree(p)'
    BY <2>4 DEF AfterDecision, MoveStatus
  <2>5. ASSUME NEW o \in Op, Refuse(o) PROVE RecordsAgree(p)'
    BY <2>5 DEF Refuse, WriteJournal, SetJournal
  <2>6. ASSUME NEW o \in Op, HeadroomExhausted(o) PROVE RecordsAgree(p)'
    BY <2>6 DEF HeadroomExhausted, WriteJournal, SetJournal
  <2> QED BY <1>3, <2>1, <2>2, <2>3, <2>4, <2>5, <2>6
      DEF Decision
<1>4. CASE Execute
  <2>1. ASSUME NEW o \in Op, MarkExecuting(o) PROVE RecordsAgree(p)'
    BY <2>1 DEF MarkExecuting, WriteJournal, SetJournal
  <2>2. ASSUME NEW o \in Op, PersistExecuting(o) PROVE RecordsAgree(p)'
    BY <2>2 DEF PersistExecuting, WritePending, SetPending
  <2>3. ASSUME NEW o \in Op, RestoreUnstarted(o) PROVE RecordsAgree(p)'
    BY <2>3 DEF RestoreUnstarted, WriteJournal, SetJournal
  <2>4. ASSUME NEW o \in Op, PersistUnstarted(o) PROVE RecordsAgree(p)'
    BY <2>4 DEF PersistUnstarted, WritePending, SetPending
  <2>5. ASSUME NEW o \in Op, Dispatch(o) PROVE RecordsAgree(p)'
    <3>1. CASE p = o
      BY <2>5, <3>1 DEF Dispatch, SetGoing
    <3>2. CASE p # o
      BY <2>5, <3>2 DEF Dispatch, SetGoing
    <3> QED BY <3>1, <3>2
  <2>6. ASSUME NEW o \in Op, DispatchTerminal(o) PROVE RecordsAgree(p)'
    BY <2>6 DEF DispatchTerminal, GoOn
  <2>7. ASSUME NEW o \in Op, PersistRequest(o) PROVE RecordsAgree(p)'
    BY <2>7 DEF PersistRequest, WriteEvidence, SetEvidence
  <2>8. ASSUME NEW o \in Op, PersistLaunch(o) PROVE RecordsAgree(p)'
    BY <2>8 DEF PersistLaunch, WriteEvidence, SetEvidence
  <2>9. ASSUME NEW o \in Op, PrelaunchFailure(o) PROVE RecordsAgree(p)'
    BY <2>9 DEF PrelaunchFailure, WriteJournal, SetJournal
  <2>10. ASSUME NEW o \in Op, Spawn(o) PROVE RecordsAgree(p)'
    BY <2>10 DEF Spawn, SetGoing
  <2>11. ASSUME NEW o \in Op, SpawnFails(o) PROVE RecordsAgree(p)'
    BY <2>11 DEF SpawnFails, WriteEvidence, SetEvidence
  <2>12. ASSUME NEW o \in Op, PersistExit(o) PROVE RecordsAgree(p)'
    BY <2>12 DEF PersistExit, WriteEvidence, SetEvidence
  <2>13. ASSUME NEW o \in Op, PersistResult(o) PROVE RecordsAgree(p)'
    BY <2>13 DEF PersistResult, WriteEvidence, SetEvidence
  <2>14. ASSUME NEW o \in Op, PersistenceFailure(o) PROVE RecordsAgree(p)'
    BY <2>14 DEF PersistenceFailure, SetJournal
  <2> QED BY <1>4, <2>1, <2>2, <2>3, <2>4, <2>5, <2>6, <2>7, <2>8, <2>9, <2>10,
        <2>11, <2>12, <2>13, <2>14
      DEF Execute
<1>5. CASE EndCall
  <2>1. ASSUME FinishCalls PROVE RecordsAgree(p)'
    BY <2>1 DEF FinishCalls, MoveStatus
  <2>2. ASSUME QueueResults PROVE RecordsAgree(p)'
    BY <2>2 DEF QueueResults
  <2>3. ASSUME BudgetRaised PROVE RecordsAgree(p)'
    BY <2>3 DEF BudgetRaised
  <2>4. ASSUME BudgetNotice PROVE RecordsAgree(p)'
    BY <2>4 DEF BudgetNotice, MoveStatus
  <2>5. ASSUME QueueNotice PROVE RecordsAgree(p)'
    BY <2>5 DEF QueueNotice
  <2>6. ASSUME BudgetPause PROVE RecordsAgree(p)'
    BY <2>6 DEF BudgetPause, MoveStatus
  <2>7. ASSUME Stop PROVE RecordsAgree(p)'
    BY <2>7 DEF Stop, MoveStatus
  <2>8. ASSUME Leave PROVE RecordsAgree(p)'
    BY <2>8 DEF Leave, ProcessEnds
  <2>9. ASSUME NEW o \in Op, Complete(o) PROVE RecordsAgree(p)'
    <3>1. PICK how \in Outcome(o) : WriteJournal(o, "completed", how, "journaled")
      BY <2>9 DEF Complete
    <3>2. how \in {evidence[o].verdict, "effect", "clean"}
      BY DEF Outcome
    <3>3. \/ journal'[p] = journal[p]
          \/ p = o /\ journal'[p] = [status |-> "completed", how |-> how]
      BY <3>1 DEF WriteJournal, SetJournal
    <3>4. UNCHANGED <<pending, evidence, lost, runs>>
      BY <3>1 DEF WriteJournal
    <3>5. Terminal(o) => HasResult(o) /\ how = evidence[o].verdict
      BY <2>9, <3>2 DEF Complete, Finished, Outcome
    <3> QED
      BY <3>2, <3>3, <3>4, <3>5 DEF HasResult
  <2>10. ASSUME NEW o \in Op, ReturnUncertain(o) PROVE RecordsAgree(p)'
    BY <2>10 DEF ReturnUncertain, WriteJournal, SetJournal
  <2>11. ASSUME NEW o \in Op, CompletionUnrecorded(o) PROVE RecordsAgree(p)'
    BY <2>11 DEF CompletionUnrecorded, SetJournal, Finished, HasResult
  <2>12. ASSUME NEW o \in Op, SettleCall(o) PROVE RecordsAgree(p)'
    BY <2>12 DEF SettleCall, Settle, SetPending
  <2>13. ASSUME NEW o \in Op, OverrunCall(o) PROVE RecordsAgree(p)'
    BY <2>13 DEF OverrunCall, Settle, SetPending
  <2>14. ASSUME NEW o \in Op, HoldIndeterminate(o) PROVE RecordsAgree(p)'
    BY <2>14 DEF HoldIndeterminate, WritePending, SetPending
  <2>15. ASSUME ResultsUnaffordable PROVE RecordsAgree(p)'
    BY <2>15 DEF ResultsUnaffordable, GoOn
  <2> QED BY <1>5, <2>1, <2>2, <2>3, <2>4, <2>5, <2>6, <2>7, <2>8, <2>9, <2>10,
        <2>11, <2>12, <2>13, <2>14, <2>15
      DEF EndCall
<1>6. CASE Environment
  <2>1. ASSUME \E d \in BOOLEAN : Resume(d) PROVE RecordsAgree(p)'
    BY <2>1 DEF Resume
  <2>2. ASSUME \E r \in Replies : ReceiveReply(r) PROVE RecordsAgree(p)'
    BY <2>2 DEF ReceiveReply
  <2>3. ASSUME \E k \in {"paused", "aborted"} : Interrupt(k) PROVE RecordsAgree(p)'
    BY <2>3 DEF Interrupt
  <2>4. ASSUME Crash PROVE RecordsAgree(p)'
    BY <2>4 DEF Crash, ProcessEnds
  <2>5. ASSUME NEW o \in Op, RejectReuse(o) PROVE RecordsAgree(p)'
    BY <2>5 DEF RejectReuse, MoveStatus
  <2>6. ASSUME NEW o \in Op, TearRecord(o) PROVE RecordsAgree(p)'
    BY <2>6 DEF TearRecord, SetJournal, ProcessEnds
  <2>7. ASSUME NEW o \in Op, Decide(o) PROVE RecordsAgree(p)'
    BY <2>7 DEF Decide
  <2>8. ASSUME NEW o \in Op, LoseArtifacts(o) PROVE RecordsAgree(p)'
    BY <2>8 DEF LoseArtifacts, SetEvidence, ProcessEnds
  <2> QED BY <1>6, <2>1, <2>2, <2>3, <2>4, <2>5, <2>6, <2>7, <2>8
      DEF Environment
<1>7. CASE UNCHANGED vars
  BY <1>7 DEF vars
<1> QED BY <1>1, <1>2, <1>3, <1>4, <1>5, <1>6, <1>7 DEF Next, Proceed

\* Every step leaves the process where the records of the call in hand say.
LEMMA CallStep ==
  ASSUME TypeOK, [Next]_vars, NEW p \in Op, RecordsAgree(p), CallAgrees(p)
  PROVE  CallAgrees(p)'
<1> USE DEF TypeOK, RecordsAgree, CallAgrees, Untouched, Mutating, At, Goto,
            session, records, process, world
<1>1. CASE Recover
  <2>1. ASSUME StartupMove PROVE CallAgrees(p)'
    BY <2>1 DEF StartupMove, MoveStatus
  <2>2. ASSUME StartupScan PROVE CallAgrees(p)'
    BY <2>2 DEF StartupScan, GoOn
  <2>3. ASSUME StartupDone PROVE CallAgrees(p)'
    BY <2>3 DEF StartupDone, Recovered, Terminal
  <2>4. ASSUME NEW o \in Op, RevertUnstarted(o) PROVE CallAgrees(p)'
    BY <2>4 DEF RevertUnstarted, WriteJournal, SetJournal
  <2>5. ASSUME NEW o \in Op, RefundUnstarted(o) PROVE CallAgrees(p)'
    BY <2>5 DEF RefundUnstarted, WritePending, SetPending
  <2>6. ASSUME NEW o \in Op, PromoteTerminal(o) PROVE CallAgrees(p)'
    BY <2>6 DEF PromoteTerminal, WriteJournal, SetJournal, Undecided, Terminal,
                HasResult
  <2>7. ASSUME NEW o \in Op, RecordPrelaunch(o) PROVE CallAgrees(p)'
    BY <2>7 DEF RecordPrelaunch, WriteJournal, SetJournal, Undecided, Terminal,
                ProvesNoLaunch
  <2>8. ASSUME NEW o \in Op, MarkTerminalUncertain(o) PROVE CallAgrees(p)'
    BY <2>8 DEF MarkTerminalUncertain, WriteJournal, SetJournal, Undecided,
                Terminal, HasResult, ProvesNoLaunch
  <2>9. ASSUME NEW o \in Op, RefuseTerminalConflict(o) PROVE CallAgrees(p)'
    BY <2>9 DEF RefuseTerminalConflict, GoOn, Undecided, Terminal, HasResult
  <2>10. ASSUME NEW o \in Op, HoldUncertain(o) PROVE CallAgrees(p)'
    BY <2>10 DEF HoldUncertain, WritePending, SetPending, Undecided, Terminal,
                 HasResult, ProvesNoLaunch
  <2>11. ASSUME NEW o \in Op, PauseUncertain(o) PROVE CallAgrees(p)'
    BY <2>11 DEF PauseUncertain, GoOn, Terminal
  <2>12. ASSUME NEW o \in Op, ApplyRecovered(o) PROVE CallAgrees(p)'
    BY <2>12 DEF ApplyRecovered, Settle, SetPending, Undecided, Terminal,
                 HasResult, ProvesNoLaunch
  <2> QED BY <1>1, <2>1, <2>2, <2>3, <2>4, <2>5, <2>6, <2>7, <2>8, <2>9, <2>10,
        <2>11, <2>12
      DEF Recover
<1>2. CASE StartCall
  <2>1. ASSUME BeginTools PROVE CallAgrees(p)'
    BY <2>1 DEF BeginTools
  <2>2. ASSUME NEW o \in Op, Register(o) PROVE CallAgrees(p)'
    BY <2>2 DEF Register, WriteJournal, SetJournal
  <2>3. ASSUME NEW o \in Op, RefuseTorn(o) PROVE CallAgrees(p)'
    BY <2>3 DEF RefuseTorn, GoOn
  <2>4. ASSUME NEW o \in Op, Accept(o) PROVE CallAgrees(p)'
    BY <2>4 DEF Accept, WritePending, SetPending
  <2>5. ASSUME NEW o \in Op, Unaffordable(o) PROVE CallAgrees(p)'
    BY <2>5 DEF Unaffordable, GoOn, Settled
  <2>6. ASSUME NEW o \in Op, RefuseReplay(o) PROVE CallAgrees(p)'
    BY <2>6 DEF RefuseReplay, Settled
  <2>7. ASSUME NEW o \in Op, ReplayTerminal(o) PROVE CallAgrees(p)'
    BY <2>7 DEF ReplayTerminal, Settled, HasResult, Terminal
  <2>8. ASSUME NEW o \in Op, ReplayMissing(o) PROVE CallAgrees(p)'
    BY <2>8 DEF ReplayMissing, GoOn, Settled, HasResult, Terminal
  <2>9. ASSUME NEW o \in Op, ReplaySettled(o) PROVE CallAgrees(p)'
    BY <2>9 DEF ReplaySettled, Settle, SetPending, Settled, Terminal
  <2>10. ASSUME NEW o \in Op, ReplayOverrun(o) PROVE CallAgrees(p)'
    BY <2>10 DEF ReplayOverrun, Settled
  <2> QED BY <1>2, <2>1, <2>2, <2>3, <2>4, <2>5, <2>6, <2>7, <2>8, <2>9, <2>10
      DEF StartCall
<1>3. CASE Decision
  <2>1. ASSUME NEW o \in Op, Authorize(o) PROVE CallAgrees(p)'
    BY <2>1 DEF Authorize, GoOn
  <2>2. ASSUME NEW o \in Op, Ask(o) PROVE CallAgrees(p)'
    BY <2>2 DEF Ask, MoveStatus
  <2>3. ASSUME NEW o \in Op, UseCachedDecision(o) PROVE CallAgrees(p)'
    BY <2>3 DEF UseCachedDecision, GoOn
  <2>4. ASSUME NEW o \in Op, AfterDecision(o) PROVE CallAgrees(p)'
    BY <2>4 DEF AfterDecision, MoveStatus
  <2>5. ASSUME NEW o \in Op, Refuse(o) PROVE CallAgrees(p)'
    BY <2>5 DEF Refuse, WriteJournal, SetJournal
  <2>6. ASSUME NEW o \in Op, HeadroomExhausted(o) PROVE CallAgrees(p)'
    BY <2>6 DEF HeadroomExhausted, WriteJournal, SetJournal, Terminal
  <2> QED BY <1>3, <2>1, <2>2, <2>3, <2>4, <2>5, <2>6
      DEF Decision
<1>4. CASE Execute
  <2>1. ASSUME NEW o \in Op, MarkExecuting(o) PROVE CallAgrees(p)'
    BY <2>1 DEF MarkExecuting, WriteJournal, SetJournal
  <2>2. ASSUME NEW o \in Op, PersistExecuting(o) PROVE CallAgrees(p)'
    BY <2>2 DEF PersistExecuting, WritePending, SetPending
  <2>3. ASSUME NEW o \in Op, RestoreUnstarted(o) PROVE CallAgrees(p)'
    BY <2>3 DEF RestoreUnstarted, WriteJournal, SetJournal
  <2>4. ASSUME NEW o \in Op, PersistUnstarted(o) PROVE CallAgrees(p)'
    BY <2>4 DEF PersistUnstarted, WritePending, SetPending
  <2>5. ASSUME NEW o \in Op, Dispatch(o) PROVE CallAgrees(p)'
    BY <2>5 DEF Dispatch, SetGoing, Terminal
  <2>6. ASSUME NEW o \in Op, DispatchTerminal(o) PROVE CallAgrees(p)'
    BY <2>6 DEF DispatchTerminal, GoOn, Terminal
  <2>7. ASSUME NEW o \in Op, PersistRequest(o) PROVE CallAgrees(p)'
    BY <2>7 DEF PersistRequest, WriteEvidence, SetEvidence
  <2>8. ASSUME NEW o \in Op, PersistLaunch(o) PROVE CallAgrees(p)'
    BY <2>8 DEF PersistLaunch, WriteEvidence, SetEvidence
  <2>9. ASSUME NEW o \in Op, PrelaunchFailure(o) PROVE CallAgrees(p)'
    BY <2>9 DEF PrelaunchFailure, WriteJournal, SetJournal
  <2>10. ASSUME NEW o \in Op, Spawn(o) PROVE CallAgrees(p)'
    BY <2>10 DEF Spawn, SetGoing
  <2>11. ASSUME NEW o \in Op, SpawnFails(o) PROVE CallAgrees(p)'
    BY <2>11 DEF SpawnFails, WriteEvidence, SetEvidence
  <2>12. ASSUME NEW o \in Op, PersistExit(o) PROVE CallAgrees(p)'
    BY <2>12 DEF PersistExit, WriteEvidence, SetEvidence, Terminal
  <2>13. ASSUME NEW o \in Op, PersistResult(o) PROVE CallAgrees(p)'
    BY <2>13 DEF PersistResult, WriteEvidence, SetEvidence
  <2>14. ASSUME NEW o \in Op, PersistenceFailure(o) PROVE CallAgrees(p)'
    BY <2>14 DEF PersistenceFailure, SetJournal, Terminal
  <2> QED BY <1>4, <2>1, <2>2, <2>3, <2>4, <2>5, <2>6, <2>7, <2>8, <2>9, <2>10,
        <2>11, <2>12, <2>13, <2>14
      DEF Execute
<1>5. CASE EndCall
  <2>1. ASSUME FinishCalls PROVE CallAgrees(p)'
    BY <2>1 DEF FinishCalls, MoveStatus
  <2>2. ASSUME QueueResults PROVE CallAgrees(p)'
    BY <2>2 DEF QueueResults
  <2>3. ASSUME BudgetRaised PROVE CallAgrees(p)'
    BY <2>3 DEF BudgetRaised
  <2>4. ASSUME BudgetNotice PROVE CallAgrees(p)'
    BY <2>4 DEF BudgetNotice, MoveStatus
  <2>5. ASSUME QueueNotice PROVE CallAgrees(p)'
    BY <2>5 DEF QueueNotice
  <2>6. ASSUME BudgetPause PROVE CallAgrees(p)'
    BY <2>6 DEF BudgetPause, MoveStatus
  <2>7. ASSUME Stop PROVE CallAgrees(p)'
    BY <2>7 DEF Stop, MoveStatus
  <2>8. ASSUME Leave PROVE CallAgrees(p)'
    BY <2>8 DEF Leave, ProcessEnds
  <2>9. ASSUME NEW o \in Op, Complete(o) PROVE CallAgrees(p)'
    BY <2>9 DEF Complete, WriteJournal, SetJournal, Finished, HasResult,
                Terminal, Outcome
  <2>10. ASSUME NEW o \in Op, ReturnUncertain(o) PROVE CallAgrees(p)'
    BY <2>10 DEF ReturnUncertain, WriteJournal, SetJournal, Terminal
  <2>11. ASSUME NEW o \in Op, CompletionUnrecorded(o) PROVE CallAgrees(p)'
    BY <2>11 DEF CompletionUnrecorded, SetJournal, Finished, HasResult,
                 Terminal
  <2>12. ASSUME NEW o \in Op, SettleCall(o) PROVE CallAgrees(p)'
    BY <2>12 DEF SettleCall, Settle, SetPending
  <2>13. ASSUME NEW o \in Op, OverrunCall(o) PROVE CallAgrees(p)'
    BY <2>13 DEF OverrunCall, Settle, SetPending, Terminal
  <2>14. ASSUME NEW o \in Op, HoldIndeterminate(o) PROVE CallAgrees(p)'
    BY <2>14 DEF HoldIndeterminate, WritePending, SetPending
  <2>15. ASSUME ResultsUnaffordable PROVE CallAgrees(p)'
    BY <2>15 DEF ResultsUnaffordable, GoOn
  <2> QED BY <1>5, <2>1, <2>2, <2>3, <2>4, <2>5, <2>6, <2>7, <2>8, <2>9, <2>10,
        <2>11, <2>12, <2>13, <2>14, <2>15
      DEF EndCall
<1>6. CASE Environment
  <2>1. ASSUME \E d \in BOOLEAN : Resume(d) PROVE CallAgrees(p)'
    BY <2>1 DEF Resume
  <2>2. ASSUME \E r \in Replies : ReceiveReply(r) PROVE CallAgrees(p)'
    BY <2>2 DEF ReceiveReply
  <2>3. ASSUME \E k \in {"paused", "aborted"} : Interrupt(k) PROVE CallAgrees(p)'
    BY <2>3 DEF Interrupt
  <2>4. ASSUME Crash PROVE CallAgrees(p)'
    BY <2>4 DEF Crash, ProcessEnds
  <2>5. ASSUME NEW o \in Op, RejectReuse(o) PROVE CallAgrees(p)'
    BY <2>5 DEF RejectReuse, MoveStatus
  <2>6. ASSUME NEW o \in Op, TearRecord(o) PROVE CallAgrees(p)'
    BY <2>6 DEF TearRecord, SetJournal, ProcessEnds
  <2>7. ASSUME NEW o \in Op, Decide(o) PROVE CallAgrees(p)'
    BY <2>7 DEF Decide
  <2>8. ASSUME NEW o \in Op, LoseArtifacts(o) PROVE CallAgrees(p)'
    BY <2>8 DEF LoseArtifacts, SetEvidence, ProcessEnds, Terminal
  <2> QED BY <1>6, <2>1, <2>2, <2>3, <2>4, <2>5, <2>6, <2>7, <2>8
      DEF Environment
<1>7. CASE UNCHANGED vars
  BY <1>7 DEF vars
<1> QED BY <1>1, <1>2, <1>3, <1>4, <1>5, <1>6, <1>7 DEF Next, Proceed

\* A loss is declared by the resume that follows it and is over only when the
\* startup scan is.
LEMMA LossStep == TypeOK /\ LossDeclared /\ [Next]_vars => LossDeclared'
<1> SUFFICES ASSUME TypeOK, LossDeclared, [Next]_vars PROVE LossDeclared'
  OBVIOUS
<1> USE DEF TypeOK, LossDeclared, Goto, session, records, process, world
<1> DEFINE Kept == UNCHANGED <<lost, declared>> /\ pc # "down"
<1>1. CASE Recover
  <2>1. CASE StartupDone
    BY <2>1 DEF StartupDone
  <2>2. CASE ~ StartupDone
    <3>1. Kept
      BY <1>1, <2>2 DEF Recover, StartupMove, MoveStatus, StartupScan, GoOn,
                        RevertUnstarted, WriteJournal, RefundUnstarted,
                        WritePending, PromoteTerminal, Undecided,
                        RecordPrelaunch, MarkTerminalUncertain,
                        RefuseTerminalConflict, HoldUncertain, PauseUncertain,
                        ApplyRecovered, StartupDone
    <3> QED BY <3>1
  <2> QED BY <2>1, <2>2
<1>2. CASE StartCall
  <2>1. Kept
    BY <1>2, SMTT(60) DEF StartCall, BeginTools, Register, WriteJournal, RefuseTorn,
                GoOn, Accept, WritePending, Unaffordable, RefuseReplay,
                Settled, ReplayTerminal, ReplayMissing, ReplaySettled,
                ReplayOverrun
  <2> QED BY <2>1
<1>3. CASE Decision
  <2>1. Kept
    BY <1>3, SMTT(60) DEF Decision, Authorize, GoOn, Ask, MoveStatus, UseCachedDecision,
                AfterDecision, Refuse, WriteJournal, HeadroomExhausted
  <2> QED BY <2>1
<1>4. CASE Execute
  <2>1. Kept
    BY <1>4, SMTT(60) DEF Execute, MarkExecuting, WriteJournal, PersistExecuting,
                WritePending, RestoreUnstarted, PersistUnstarted, Dispatch,
                SetGoing, DispatchTerminal, GoOn, PersistRequest,
                WriteEvidence, PersistLaunch, PrelaunchFailure, Spawn,
                SpawnFails, PersistExit, PersistResult, PersistenceFailure
  <2> QED BY <2>1
<1>5. CASE EndCall
  <2>1. CASE Leave
    BY <2>1 DEF Leave, ProcessEnds
  <2>2. CASE ~ Leave
    <3>1. Kept
      BY <1>5, <2>2 DEF EndCall, FinishCalls, MoveStatus, QueueResults, ResultsUnaffordable, GoOn,
                        BudgetRaised, BudgetNotice, QueueNotice, BudgetPause,
                        Stop, Interruptible, Complete, WriteJournal, Finished,
                        ReturnUncertain, CompletionUnrecorded, SettleCall,
                        OverrunCall, HoldIndeterminate, WritePending, Leave,
                        ProcessEnds
    <3> QED BY <3>1
  <2> QED BY <2>1, <2>2
<1>6. CASE Environment
  <2>1. CASE \E d \in BOOLEAN : Resume(d)
    BY <2>1 DEF Resume
  <2>2. CASE \E o \in Op : TearRecord(o)
    BY <2>2 DEF TearRecord, ProcessEnds
  <2>3. CASE Crash
    BY <2>3 DEF Crash, ProcessEnds
  <2>4. CASE \E o \in Op : LoseArtifacts(o)
    BY <2>4 DEF LoseArtifacts, ProcessEnds
  <2>5. CASE \/ \E r \in Replies : ReceiveReply(r)
             \/ \E k \in {"paused", "aborted"} : Interrupt(k)
             \/ \E o \in Op : RejectReuse(o) \/ Decide(o)
    <3>1. Kept
      BY <2>5 DEF ReceiveReply, Interrupt, RejectReuse, MoveStatus, Decide
    <3> QED BY <3>1
  <2> QED BY <1>6, <2>1, <2>2, <2>3, <2>4, <2>5 DEF Environment
<1>7. CASE UNCHANGED vars
  BY <1>7 DEF vars
<1> QED BY <1>1, <1>2, <1>3, <1>4, <1>5, <1>6, <1>7 DEF Next, Proceed

\* Every move of the status goes with the move of the process.
LEMMA StatusStep == TypeOK /\ StatusFits /\ [Next]_vars => StatusFits'
<1> SUFFICES ASSUME TypeOK, StatusFits, [Next]_vars PROVE StatusFits'
  OBVIOUS
<1> USE DEF TypeOK, StatusFits, TerminalStatus, Status, PcInCall, Goto, session,
            records, process, world
<1>1. CASE Recover
  BY <1>1, SMTT(60) DEF Recover, StartupMove, MoveStatus, StartupNext, StartupScan, GoOn,
              StartupDone, RevertUnstarted, WriteJournal, RefundUnstarted,
              WritePending, PromoteTerminal, Undecided, RecordPrelaunch,
              MarkTerminalUncertain, RefuseTerminalConflict, HoldUncertain,
              PauseUncertain, ApplyRecovered
<1>2. CASE StartCall
  BY <1>2, SMTT(60) DEF StartCall, BeginTools, Register, WriteJournal, RefuseTorn, GoOn,
              Accept, WritePending, Unaffordable, RefuseReplay, Settled,
              ReplayTerminal, ReplayMissing, ReplaySettled, ReplayOverrun
<1>3. CASE Decision
  BY <1>3, SMTT(60) DEF Decision, Authorize, GoOn, Ask, MoveStatus, UseCachedDecision,
              AfterDecision, Refuse, WriteJournal, HeadroomExhausted
<1>4. CASE Execute
  BY <1>4, SMTT(60) DEF Execute, MarkExecuting, WriteJournal, PersistExecuting,
              WritePending, RestoreUnstarted, PersistUnstarted, Dispatch,
              SetGoing, DispatchTerminal, GoOn, PersistRequest, WriteEvidence,
              PersistLaunch, PrelaunchFailure, Spawn, SpawnFails, PersistExit,
              PersistResult, PersistenceFailure
<1>5. CASE EndCall
  BY <1>5, SMTT(60) DEF EndCall, FinishCalls, MoveStatus, QueueResults, ResultsUnaffordable, GoOn, BudgetRaised,
              BudgetNotice, QueueNotice, BudgetPause, StoppedAs, Stop,
              Interruptible, Leave, ProcessEnds, Complete, WriteJournal,
              Finished, ReturnUncertain, CompletionUnrecorded, SettleCall,
              OverrunCall, HoldIndeterminate, WritePending
<1>6. CASE Environment
  BY <1>6, SMTT(60) DEF Environment, Resume, ReceiveReply, Interrupt, Crash, ProcessEnds,
              RejectReuse, MoveStatus, TearRecord, Decide, LoseArtifacts
<1>7. CASE UNCHANGED vars
  BY <1>7 DEF vars
<1> QED BY <1>1, <1>2, <1>3, <1>4, <1>5, <1>6, <1>7 DEF Next, Proceed

\* No step gives a mutation other than the call in hand an unknown outcome that
\* the process would go on over.
LEMMA OutcomeStep ==
  ASSUME TypeOK, [Next]_vars,
         StatusFits,
         NEW p \in Op, RecordsAgree(p), CallAgrees(p), OutcomeKnown(p)
  PROVE  OutcomeKnown(p)'
<1> USE DEF TypeOK, RecordsAgree, CallAgrees, OutcomeKnown, StatusFits, At,
            Goto, session, records, process, world
<1>1. CASE Recover
  <2>1. ASSUME StartupDone PROVE OutcomeKnown(p)'
    BY <2>1 DEF StartupDone, Recovered
  <2>2. ASSUME \E o \in Op : ApplyRecovered(o) PROVE OutcomeKnown(p)'
    BY <2>2 DEF ApplyRecovered, Settle, SetPending, Undecided
  <2>3. ASSUME \/ StartupMove
               \/ StartupScan
               \/ \E o \in Op :
                    \/ RevertUnstarted(o) \/ RefundUnstarted(o) \/ PromoteTerminal(o)
                    \/ RecordPrelaunch(o) \/ MarkTerminalUncertain(o)
                    \/ RefuseTerminalConflict(o) \/ HoldUncertain(o) \/ PauseUncertain(o)
       PROVE  OutcomeKnown(p)'
    BY <2>3 DEF StartupMove, MoveStatus, StartupNext, StartupScan, GoOn,
                RevertUnstarted, WriteJournal, SetJournal, RefundUnstarted,
                WritePending, SetPending, PromoteTerminal, Undecided,
                RecordPrelaunch, MarkTerminalUncertain, RefuseTerminalConflict,
                HoldUncertain, PauseUncertain
  <2> QED BY <1>1, <2>1, <2>2, <2>3 DEF Recover
<1>2. CASE StartCall
  BY <1>2, SMTT(60) DEF StartCall, BeginTools, Register, WriteJournal, SetJournal,
              RefuseTorn, GoOn, Accept, WritePending, SetPending,
              Unaffordable, RefuseReplay, Settled, ReplayTerminal,
              ReplayMissing, ReplaySettled, Settle, ReplayOverrun
<1>3. CASE Decision
  BY <1>3, SMTT(60) DEF Decision, Authorize, GoOn, Ask, MoveStatus, UseCachedDecision,
              AfterDecision, Refuse, WriteJournal, SetJournal,
              HeadroomExhausted
<1>4. CASE Execute
  BY <1>4, SMTT(60) DEF Execute, MarkExecuting, WriteJournal, SetJournal,
              PersistExecuting, WritePending, SetPending, RestoreUnstarted,
              PersistUnstarted, Dispatch, SetGoing, DispatchTerminal, GoOn,
              PersistRequest, WriteEvidence, PersistLaunch, PrelaunchFailure,
              Spawn, SpawnFails, PersistExit, PersistResult, PersistenceFailure
<1>5. CASE EndCall
  BY <1>5, SMTT(60) DEF EndCall, FinishCalls, MoveStatus, QueueResults, ResultsUnaffordable, GoOn, BudgetRaised,
              BudgetNotice, QueueNotice, BudgetPause, Stop, Interruptible,
              Leave, ProcessEnds, Complete, WriteJournal, SetJournal, Finished,
              ReturnUncertain, CompletionUnrecorded, SettleCall, Settle,
              SetPending, OverrunCall, HoldIndeterminate, WritePending
<1>6. CASE Environment
  BY <1>6, SMTT(60) DEF Environment, Resume, ReceiveReply, Interrupt, Crash, ProcessEnds,
              RejectReuse, MoveStatus, TearRecord, SetJournal, Decide,
              LoseArtifacts
<1>7. CASE UNCHANGED vars
  BY <1>7 DEF vars
<1> QED BY <1>1, <1>2, <1>3, <1>4, <1>5, <1>6, <1>7 DEF Next, Proceed

\* An operation is settled only while it is pending, and never goes back.
LEMMA SettledStep ==
  ASSUME TypeOK, [Next]_vars,
         NEW p \in Op, RecordsAgree(p), CallAgrees(p), SettledOnce(p)
  PROVE  SettledOnce(p)'
<1> USE DEF TypeOK, RecordsAgree, CallAgrees, SettledOnce, At, Goto, session,
            records, process, world
<1>1. CASE Recover
  BY <1>1, SMTT(60) DEF Recover, StartupMove, MoveStatus, StartupNext, StartupScan, GoOn,
              StartupDone, Recovered, RevertUnstarted, WriteJournal,
              SetJournal, RefundUnstarted, WritePending, SetPending,
              PromoteTerminal, Undecided, RecordPrelaunch,
              MarkTerminalUncertain, RefuseTerminalConflict, HoldUncertain,
              PauseUncertain, ApplyRecovered, Settle
<1>2. CASE StartCall
  BY <1>2, SMTT(60) DEF StartCall, BeginTools, Register, WriteJournal, SetJournal,
              RefuseTorn, GoOn, Accept, WritePending, SetPending,
              Unaffordable, RefuseReplay, Settled, ReplayTerminal,
              ReplayMissing, ReplaySettled, Settle, ReplayOverrun
<1>3. CASE Decision
  BY <1>3, SMTT(60) DEF Decision, Authorize, GoOn, Ask, MoveStatus, UseCachedDecision,
              AfterDecision, Refuse, WriteJournal, SetJournal,
              HeadroomExhausted
<1>4. CASE Execute
  BY <1>4, SMTT(60) DEF Execute, MarkExecuting, WriteJournal, SetJournal,
              PersistExecuting, WritePending, SetPending, RestoreUnstarted,
              PersistUnstarted, Dispatch, SetGoing, DispatchTerminal, GoOn,
              PersistRequest, WriteEvidence, PersistLaunch, PrelaunchFailure,
              Spawn, SpawnFails, PersistExit, PersistResult, PersistenceFailure
<1>5. CASE EndCall
  BY <1>5, SMTT(60) DEF EndCall, FinishCalls, MoveStatus, QueueResults, ResultsUnaffordable, GoOn, BudgetRaised,
              BudgetNotice, QueueNotice, BudgetPause, Stop, Interruptible,
              Leave, ProcessEnds, Complete, WriteJournal, SetJournal, Finished,
              ReturnUncertain, CompletionUnrecorded, SettleCall, Settle,
              SetPending, OverrunCall, HoldIndeterminate, WritePending
<1>6. CASE Environment
  BY <1>6, SMTT(60) DEF Environment, Resume, ReceiveReply, Interrupt, Crash, ProcessEnds,
              RejectReuse, MoveStatus, TearRecord, SetJournal, Decide,
              LoseArtifacts
<1>7. CASE UNCHANGED vars
  BY <1>7 DEF vars
<1> QED BY <1>1, <1>2, <1>3, <1>4, <1>5, <1>6, <1>7 DEF Next, Proceed

-----------------------------------------------------------------------------
(* Steps that move the status, owe a result or end the process *)

\* Every move of the status follows the transition table.
LEMMA MoveLegal ==
  ASSUME TypeOK, StatusFits, [Next]_vars
  PROVE  status' = status \/ CanTransition(status, status')
<1> USE DEF TypeOK, StatusFits, CanTransition, Transitions, Stoppable,
            TerminalStatus, Status, PcInCall, Goto, session, records, process, world
<1>1. CASE Recover
  BY <1>1, SMTT(60) DEF Recover, StartupMove, MoveStatus, StartupNext, StartupScan, GoOn,
              StartupDone, RevertUnstarted, WriteJournal, RefundUnstarted,
              WritePending, PromoteTerminal, Undecided, RecordPrelaunch,
              MarkTerminalUncertain, RefuseTerminalConflict, HoldUncertain,
              PauseUncertain, ApplyRecovered
<1>2. CASE StartCall
  BY <1>2, SMTT(60) DEF StartCall, BeginTools, Register, WriteJournal, RefuseTorn, GoOn,
              Accept, WritePending, Unaffordable, RefuseReplay, Settled,
              ReplayTerminal, ReplayMissing, ReplaySettled, ReplayOverrun
<1>3. CASE Decision
  BY <1>3, SMTT(60) DEF Decision, Authorize, GoOn, Ask, MoveStatus, UseCachedDecision,
              AfterDecision, Refuse, WriteJournal, HeadroomExhausted
<1>4. CASE Execute
  BY <1>4, SMTT(60) DEF Execute, MarkExecuting, WriteJournal, PersistExecuting,
              WritePending, RestoreUnstarted, PersistUnstarted, Dispatch,
              SetGoing, DispatchTerminal, GoOn, PersistRequest, WriteEvidence,
              PersistLaunch, PrelaunchFailure, Spawn, SpawnFails, PersistExit,
              PersistResult, PersistenceFailure
<1>5. CASE EndCall
  BY <1>5, SMTT(60) DEF EndCall, FinishCalls, MoveStatus, QueueResults, ResultsUnaffordable, GoOn, BudgetRaised,
              BudgetNotice, QueueNotice, BudgetPause, StoppedAs, Stop,
              Interruptible, Leave, ProcessEnds, Complete, WriteJournal,
              Finished, ReturnUncertain, CompletionUnrecorded, SettleCall,
              OverrunCall, HoldIndeterminate, WritePending
<1>6. CASE Environment
  BY <1>6, SMTT(60) DEF Environment, Resume, ReceiveReply, Interrupt, Crash, ProcessEnds,
              RejectReuse, MoveStatus, TearRecord, Decide, LoseArtifacts
<1>7. CASE UNCHANGED vars
  BY <1>7 DEF vars
<1> QED BY <1>1, <1>2, <1>3, <1>4, <1>5, <1>6, <1>7 DEF Next, Proceed

\* Only an operation that is pending, or still owed, becomes owed.
LEMMA NotOwedAgain ==
  ASSUME TypeOK, [Next]_vars, NEW p \in Op, SettledOnce(p),
         p \in completed \ unreturned
  PROVE  p \notin unreturned'
<1> USE DEF TypeOK, SettledOnce, At, Goto, session, records, process, world
<1>1. CASE Recover
  BY <1>1, SMTT(60) DEF Recover, StartupMove, MoveStatus, StartupNext, StartupScan, GoOn,
              StartupDone, Recovered, RevertUnstarted, WriteJournal,
              RefundUnstarted, WritePending, SetPending, PromoteTerminal,
              Undecided, RecordPrelaunch, MarkTerminalUncertain,
              RefuseTerminalConflict, HoldUncertain, PauseUncertain,
              ApplyRecovered, Settle
<1>2. CASE StartCall
  BY <1>2, SMTT(60) DEF StartCall, BeginTools, Register, WriteJournal, RefuseTorn, GoOn,
              Accept, WritePending, SetPending, Unaffordable,
              RefuseReplay, Settled, ReplayTerminal, ReplayMissing,
              ReplaySettled, Settle, ReplayOverrun
<1>3. CASE Decision
  BY <1>3, SMTT(60) DEF Decision, Authorize, GoOn, Ask, MoveStatus, UseCachedDecision,
              AfterDecision, Refuse, WriteJournal, HeadroomExhausted
<1>4. CASE Execute
  BY <1>4, SMTT(60) DEF Execute, MarkExecuting, WriteJournal, PersistExecuting,
              WritePending, SetPending, RestoreUnstarted, PersistUnstarted,
              Dispatch, SetGoing, DispatchTerminal, GoOn, PersistRequest,
              WriteEvidence, PersistLaunch, PrelaunchFailure, Spawn,
              SpawnFails, PersistExit, PersistResult, PersistenceFailure
<1>5. CASE EndCall
  BY <1>5, SMTT(60) DEF EndCall, FinishCalls, MoveStatus, QueueResults, ResultsUnaffordable, GoOn, BudgetRaised,
              BudgetNotice, QueueNotice, BudgetPause, Stop, Interruptible,
              Leave, ProcessEnds, Complete, WriteJournal, Finished,
              ReturnUncertain, CompletionUnrecorded, SettleCall, Settle,
              SetPending, OverrunCall, HoldIndeterminate, WritePending
<1>6. CASE Environment
  BY <1>6, SMTT(60) DEF Environment, Resume, ReceiveReply, Interrupt, Crash, ProcessEnds,
              RejectReuse, MoveStatus, TearRecord, Decide, LoseArtifacts
<1>7. CASE UNCHANGED vars
  BY <1>7 DEF vars
<1> QED BY <1>1, <1>2, <1>3, <1>4, <1>5, <1>6, <1>7 DEF Next, Proceed

\* Only Leave ends a process that is leaving, and it looks at the interruption.
LEMMA AbortHeld ==
  ASSUME TypeOK, StatusFits, [Next]_vars,
         pc = "leaving", pc' = "down", crashes' = crashes, intr = "aborted"
  PROVE  status' \in TerminalStatus
<1> USE DEF TypeOK, StatusFits, TerminalStatus, Goto, session, records, process,
            world
<1>1. CASE Recover
  BY <1>1, SMTT(60) DEF Recover, StartupMove, MoveStatus, StartupNext, StartupScan, GoOn,
              StartupDone, RevertUnstarted, WriteJournal, RefundUnstarted,
              WritePending, PromoteTerminal, Undecided, RecordPrelaunch,
              MarkTerminalUncertain, RefuseTerminalConflict, HoldUncertain,
              PauseUncertain, ApplyRecovered
<1>2. CASE StartCall
  BY <1>2, SMTT(60) DEF StartCall, BeginTools, Register, WriteJournal, RefuseTorn, GoOn,
              Accept, WritePending, Unaffordable, RefuseReplay, Settled,
              ReplayTerminal, ReplayMissing, ReplaySettled, ReplayOverrun
<1>3. CASE Decision
  BY <1>3, SMTT(60) DEF Decision, Authorize, GoOn, Ask, MoveStatus, UseCachedDecision,
              AfterDecision, Refuse, WriteJournal, HeadroomExhausted
<1>4. CASE Execute
  BY <1>4, SMTT(60) DEF Execute, MarkExecuting, WriteJournal, PersistExecuting,
              WritePending, RestoreUnstarted, PersistUnstarted, Dispatch,
              SetGoing, DispatchTerminal, GoOn, PersistRequest, WriteEvidence,
              PersistLaunch, PrelaunchFailure, Spawn, SpawnFails, PersistExit,
              PersistResult, PersistenceFailure
<1>5. CASE EndCall
  BY <1>5, SMTT(60) DEF EndCall, FinishCalls, MoveStatus, QueueResults, ResultsUnaffordable, GoOn, BudgetRaised,
              BudgetNotice, QueueNotice, BudgetPause, Stop, Interruptible,
              Leave, ProcessEnds, Complete, WriteJournal, Finished,
              ReturnUncertain, CompletionUnrecorded, SettleCall, OverrunCall,
              HoldIndeterminate, WritePending
<1>6. CASE Environment
  BY <1>6, SMTT(60) DEF Environment, Resume, ReceiveReply, Interrupt, Crash, ProcessEnds,
              RejectReuse, MoveStatus, TearRecord, Decide, LoseArtifacts
<1>7. CASE UNCHANGED vars
  BY <1>7 DEF vars
<1> QED BY <1>1, <1>2, <1>3, <1>4, <1>5, <1>6, <1>7 DEF Next, Proceed

-----------------------------------------------------------------------------
(* The invariant and what follows from it *)

LEMMA InitInv == Init => IInv
<1> SUFFICES ASSUME Init PROVE IInv
  OBVIOUS
<1> USE DEF Init
<1>1. TypeOK
  <2>1. /\ pending \in [Op -> PendingStatus]
        /\ journal \in [Op -> [status : JournalStatus, how : Ending]]
        /\ evidence \in [Op -> [stage : Stage, verdict : Ending]]
    BY DEF JournalStatus, PendingStatus, Ending, Stage, NoEvidence
  <2>2. reply \in Seq(Op)
    OBVIOUS
  <2>3. status \in Status /\ pc \in Pc
    BY DEF Status, Pc
  <2>4. used \in [Counters -> Int] /\ runs \in [Op -> Nat]
    OBVIOUS
  <2>5. /\ crashes \in 0..MaxCrashes /\ interrupts \in 0..MaxInterrupts
        /\ faults \in 0..MaxFaults /\ raises \in 0..MaxRaises
    BY BoundAssumption
  <2>6. completed = {} /\ unreturned = {} /\ recorded = {} /\ lost = FALSE
    OBVIOUS
  <2>7. /\ decision \in [Op -> {"none", "allow", "deny"}] /\ at \in Nat
        /\ intr = "none" /\ declared = FALSE
    OBVIOUS
  <2> HIDE DEF Init
  <2> QED BY <2>1, <2>2, <2>3, <2>4, <2>5, <2>6, <2>7 DEF TypeOK
<1>2. LossDeclared /\ StatusFits
  BY DEF LossDeclared, StatusFits, TerminalStatus, PcInCall
<1>3. ASSUME NEW o \in Op
      PROVE  RecordsAgree(o) /\ CallAgrees(o) /\ OutcomeKnown(o) /\ SettledOnce(o)
  BY <1>3 DEF RecordsAgree, CallAgrees, OutcomeKnown, SettledOnce, Untouched,
              NoEvidence
<1> QED BY <1>1, <1>2, <1>3 DEF IInv

LEMMA StepInv == IInv /\ [Next]_vars => IInv'
<1> SUFFICES ASSUME IInv, [Next]_vars PROVE IInv'
  OBVIOUS
<1>1. TypeOK /\ LossDeclared /\ StatusFits
  BY DEF IInv
<1>2. TypeOK' /\ LossDeclared' /\ StatusFits'
  BY <1>1, TypeStep, LossStep, StatusStep
<1>3. ASSUME NEW p \in Op
      PROVE  (RecordsAgree(p) /\ CallAgrees(p) /\ OutcomeKnown(p) /\ SettledOnce(p))'
  <2>1. RecordsAgree(p) /\ CallAgrees(p) /\ OutcomeKnown(p) /\ SettledOnce(p)
    BY DEF IInv
  <2>2. RecordsAgree(p)'
    BY <1>1, <2>1, RecordsStep
  <2>3. CallAgrees(p)'
    BY <1>1, <2>1, CallStep
  <2>4. OutcomeKnown(p)'
    BY <1>1, <2>1, OutcomeStep
  <2>5. SettledOnce(p)'
    BY <1>1, <2>1, SettledStep
  <2> QED BY <2>2, <2>3, <2>4, <2>5
<1> QED BY <1>2, <1>3 DEF IInv

LEMMA Invariance == Spec => []IInv
  BY InitInv, StepInv, PTL DEF Spec

\* The session record, the journal, the artifacts and the process keep their
\* types, whatever the operations and the bounds.
THEOREM TypeCorrect == Spec => []TypeOK
<1>1. IInv => TypeOK
  BY DEF IInv
<1> QED BY <1>1, Invariance, PTL

\* A mutation is set going at most once: executeCall never dispatches an
\* operation again whose journal record or pending entry says it may have run.
THEOREM ExecutedAtMostOnce == Spec => []AtMostOnce
<1>1. IInv => AtMostOnce
  BY DEF IInv, RecordsAgree, AtMostOnce
<1> QED BY <1>1, Invariance, PTL

\* What outcomeFromRecord and the startup scan report as not run did not run.
THEOREM NotRunNeverRan == Spec => []NotRunMeansNotRun
<1>1. IInv => NotRunMeansNotRun
  BY DEF IInv, RecordsAgree, Untouched, NotRunMeansNotRun
<1> QED BY <1>1, Invariance, PTL

\* findUncertainMutation lets no unknown outcome through, and no later step
\* leaves one behind that the process goes on over.
THEOREM NoProgressOverUnknown == Spec => []NoBlindProgress
<1>1. IInv => NoBlindProgress
  BY DEF IInv, OutcomeKnown, NoBlindProgress, PcInCall
<1> QED BY <1>1, Invariance, PTL

\* Every persisted move of the status is one the session state machine allows.
THEOREM MovesLegal == Spec => StatusMovesLegal
<1>1. IInv /\ [Next]_vars => [CanTransition(status, status')]_status
  BY MoveLegal DEF IInv
<1> QED BY <1>1, Invariance, PTL DEF Spec, StatusMovesLegal

\* A result that was queued for the model is not owed a second time.
THEOREM ReturnedForGood == Spec => ReturnedStaysReturned
<1>1. IInv /\ [Next]_vars =>
        [\A o \in completed \ unreturned : o \notin unreturned']_unreturned
  BY NotOwedAgain DEF IInv, TypeOK
<1> QED BY <1>1, Invariance, PTL DEF Spec, ReturnedStaysReturned

\* An abort recorded in time is what the session ends with.
THEOREM AbortDecides == Spec => AbortWins
<1>1. IInv /\ [Next]_vars =>
        [pc = "leaving" /\ pc' = "down" /\ crashes' = crashes /\ intr = "aborted"
             => status' \in TerminalStatus]_vars
  BY AbortHeld DEF IInv
<1> QED BY <1>1, Invariance, PTL DEF Spec, AbortWins
====
