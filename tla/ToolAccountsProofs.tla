---- MODULE ToolAccountsProofs ----
(***************************************************************************)
(* What ToolExecution guarantees about the accounts of a session, for      *)
(* every set of operations and every bound: that a result which is owed    *)
(* can be delivered by replaying the stored reply, and that the budget     *)
(* counters agree with the journal and the records of the session.         *)
(***************************************************************************)
EXTENDS ToolExecutionProofs, FiniteSetTheorems

\* Where the calls of a reply are carried out, one after the other.
Calling == ({"next"} \cup PcInCall) \ {"uncertain"}

\* Where nothing of an interrupted or unknown outcome has been let through.
Standstill ==
  \/ pc \in {"down", "startup", "recover", "uncertain", "halting", "leaving"}
  \/ pc = "overrun" /\ status \notin {"executing_tools", "returning_results"}

\* A response is answered before the next one comes, and one with a mutation
\* holds nothing else when its calls are carried out.
ReplyFits ==
  /\ pc = "await" => reply = <<>>
  /\ pc \in Calling /\ at <= Len(reply) => Sequenced(reply)

\* A terminal command in flight is the only call of the stored reply, and the
\* runtime does not get past it.
TerminalAlone(o) ==
  Terminal(o) /\ pending[o] # "none" =>
    /\ Len(reply) = 1 /\ reply[1] = o
    /\ pc \in Calling => at = 1
    /\ pc \notin {"returning", "notice", "noticed"}
    /\ pc = "overrun" => status \notin {"executing_tools", "returning_results"}

\* What is owed has been settled by a call of the stored reply.
OwedFits(o) == o \in unreturned => InReply(o) /\ o \in completed

\* Nothing goes on over an operation held for reconciliation, and no call of
\* another tool gets a final record then.
HeldFits(o) ==
  pending[o] = "indeterminate" =>
    /\ Standstill
    /\ ~ Terminal(o) => journal[o].status \in {"executing", "indeterminate"}

\* How an operation ended tells whether it had been charged for when it did.
EndingFits(o) ==
  /\ journal[o].how \in {"prelaunch", "unspawned"} => Terminal(o)
  /\ journal[o].how = "denied" => pending[o] # "executing"
  /\ pending[o] = "accepted" /\ journal[o].status \in {"completed", "failed"} =>
       journal[o].how \in {"denied", "prelaunch"}
  /\ At(o) /\ pc = "unarm" => pending[o] \in {"accepted", "executing"}

\* A record taken back to accepted is taken back in the session too before
\* anything goes on.
UndoFits(o) ==
  /\ pending[o] # "none" => journal[o].status \notin {"absent", "torn"}
  /\ pending[o] = "executing" /\ journal[o].status = "accepted" =>
       Standstill \/ (At(o) /\ pc = "unarm")

AccountsFit ==
  /\ ReplyFits
  /\ \A o \in Op :
       TerminalAlone(o) /\ OwedFits(o) /\ HeldFits(o) /\ EndingFits(o) /\ UndoFits(o)

AccountsInv ==
  /\ IInv
  /\ AccountsFit
  /\ CountersAgree

-----------------------------------------------------------------------------
(* The reply in hand and what is in flight of it *)

USE ToolAssumption, BoundAssumption

\* A reply is carried out only if it may be, and is gone when it is answered.
LEMMA ReplyStep ==
  ASSUME TypeOK, ReplyFits, [Next]_vars
  PROVE  ReplyFits'
<1> USE DEF TypeOK, Mutating, Terminal, At, Goto, session, records, process,
            world, ReplyFits, Calling, PcInCall, Sequenced
<1>1. CASE Recover
  <2>1. ASSUME StartupMove PROVE ReplyFits'
    BY <2>1 DEF StartupMove, MoveStatus
  <2>2. ASSUME StartupScan PROVE ReplyFits'
    BY <2>2 DEF StartupScan, GoOn
  <2>3. ASSUME StartupDone PROVE ReplyFits'
    BY <2>3 DEF StartupDone, Recovered
  <2>4. ASSUME NEW o \in Op, RevertUnstarted(o) PROVE ReplyFits'
    BY <2>4 DEF RevertUnstarted, WriteJournal, SetJournal
  <2>5. ASSUME NEW o \in Op, RefundUnstarted(o) PROVE ReplyFits'
    BY <2>5 DEF RefundUnstarted, WritePending, SetPending
  <2>6. ASSUME NEW o \in Op, PromoteTerminal(o) PROVE ReplyFits'
    BY <2>6 DEF PromoteTerminal, WriteJournal, SetJournal, Undecided, HasResult
  <2>7. ASSUME NEW o \in Op, RecordPrelaunch(o) PROVE ReplyFits'
    BY <2>7 DEF RecordPrelaunch, WriteJournal, SetJournal, Undecided,
                ProvesNoLaunch
  <2>8. ASSUME NEW o \in Op, MarkTerminalUncertain(o) PROVE ReplyFits'
    BY <2>8 DEF MarkTerminalUncertain, WriteJournal, SetJournal, Undecided,
                HasResult, ProvesNoLaunch
  <2>9. ASSUME NEW o \in Op, RefuseTerminalConflict(o) PROVE ReplyFits'
    BY <2>9 DEF RefuseTerminalConflict, GoOn, Undecided, HasResult
  <2>10. ASSUME NEW o \in Op, HoldUncertain(o) PROVE ReplyFits'
    BY <2>10 DEF HoldUncertain, WritePending, SetPending, Undecided, HasResult,
                 ProvesNoLaunch
  <2>11. ASSUME NEW o \in Op, PauseUncertain(o) PROVE ReplyFits'
    BY <2>11 DEF PauseUncertain, GoOn
  <2>12. ASSUME NEW o \in Op, ApplyRecovered(o) PROVE ReplyFits'
    BY <2>12 DEF ApplyRecovered, Settle, SetPending, Undecided, HasResult,
                 ProvesNoLaunch
  <2> QED BY <1>1, <2>1, <2>2, <2>3, <2>4, <2>5, <2>6, <2>7, <2>8, <2>9, <2>10,
        <2>11, <2>12
      DEF Recover
<1>2. CASE StartCall
  <2>1. ASSUME BeginTools PROVE ReplyFits'
    BY <2>1 DEF BeginTools
  <2>2. ASSUME NEW o \in Op, Register(o) PROVE ReplyFits'
    BY <2>2 DEF Register, WriteJournal, SetJournal
  <2>3. ASSUME NEW o \in Op, RefuseTorn(o) PROVE ReplyFits'
    BY <2>3 DEF RefuseTorn, GoOn
  <2>4. ASSUME NEW o \in Op, Accept(o) PROVE ReplyFits'
    BY <2>4 DEF Accept, WritePending, SetPending
  <2>5. ASSUME NEW o \in Op, Unaffordable(o) PROVE ReplyFits'
    BY <2>5 DEF Unaffordable, GoOn, Settled
  <2>6. ASSUME NEW o \in Op, RefuseReplay(o) PROVE ReplyFits'
    BY <2>6 DEF RefuseReplay, Settled
  <2>7. ASSUME NEW o \in Op, ReplayTerminal(o) PROVE ReplyFits'
    BY <2>7 DEF ReplayTerminal, Settled, HasResult
  <2>8. ASSUME NEW o \in Op, ReplayMissing(o) PROVE ReplyFits'
    BY <2>8 DEF ReplayMissing, GoOn, Settled, HasResult
  <2>9. ASSUME NEW o \in Op, ReplaySettled(o) PROVE ReplyFits'
    BY <2>9 DEF ReplaySettled, Settle, SetPending, Settled
  <2>10. ASSUME NEW o \in Op, ReplayOverrun(o) PROVE ReplyFits'
    BY <2>10 DEF ReplayOverrun, Settled
  <2> QED BY <1>2, <2>1, <2>2, <2>3, <2>4, <2>5, <2>6, <2>7, <2>8, <2>9, <2>10
      DEF StartCall
<1>3. CASE Decision
  <2>1. ASSUME NEW o \in Op, Authorize(o) PROVE ReplyFits'
    BY <2>1 DEF Authorize, GoOn
  <2>2. ASSUME NEW o \in Op, Ask(o) PROVE ReplyFits'
    BY <2>2 DEF Ask, MoveStatus
  <2>3. ASSUME NEW o \in Op, UseCachedDecision(o) PROVE ReplyFits'
    BY <2>3 DEF UseCachedDecision, GoOn
  <2>4. ASSUME NEW o \in Op, AfterDecision(o) PROVE ReplyFits'
    BY <2>4 DEF AfterDecision, MoveStatus
  <2>5. ASSUME NEW o \in Op, Refuse(o) PROVE ReplyFits'
    BY <2>5 DEF Refuse, WriteJournal, SetJournal
  <2>6. ASSUME NEW o \in Op, HeadroomExhausted(o) PROVE ReplyFits'
    BY <2>6 DEF HeadroomExhausted, WriteJournal, SetJournal
  <2> QED BY <1>3, <2>1, <2>2, <2>3, <2>4, <2>5, <2>6
      DEF Decision
<1>4. CASE Execute
  <2>1. ASSUME NEW o \in Op, MarkExecuting(o) PROVE ReplyFits'
    BY <2>1 DEF MarkExecuting, WriteJournal, SetJournal
  <2>2. ASSUME NEW o \in Op, PersistExecuting(o) PROVE ReplyFits'
    BY <2>2 DEF PersistExecuting, WritePending, SetPending
  <2>3. ASSUME NEW o \in Op, RestoreUnstarted(o) PROVE ReplyFits'
    BY <2>3 DEF RestoreUnstarted, WriteJournal, SetJournal
  <2>4. ASSUME NEW o \in Op, PersistUnstarted(o) PROVE ReplyFits'
    BY <2>4 DEF PersistUnstarted, WritePending, SetPending
  <2>5. ASSUME NEW o \in Op, Dispatch(o) PROVE ReplyFits'
    BY <2>5 DEF Dispatch, SetGoing
  <2>6. ASSUME NEW o \in Op, DispatchTerminal(o) PROVE ReplyFits'
    BY <2>6 DEF DispatchTerminal, GoOn
  <2>7. ASSUME NEW o \in Op, PersistRequest(o) PROVE ReplyFits'
    BY <2>7 DEF PersistRequest, WriteEvidence, SetEvidence
  <2>8. ASSUME NEW o \in Op, PersistLaunch(o) PROVE ReplyFits'
    BY <2>8 DEF PersistLaunch, WriteEvidence, SetEvidence
  <2>9. ASSUME NEW o \in Op, PrelaunchFailure(o) PROVE ReplyFits'
    BY <2>9 DEF PrelaunchFailure, WriteJournal, SetJournal
  <2>10. ASSUME NEW o \in Op, Spawn(o) PROVE ReplyFits'
    BY <2>10 DEF Spawn, SetGoing
  <2>11. ASSUME NEW o \in Op, SpawnFails(o) PROVE ReplyFits'
    BY <2>11 DEF SpawnFails, WriteEvidence, SetEvidence
  <2>12. ASSUME NEW o \in Op, PersistExit(o) PROVE ReplyFits'
    BY <2>12 DEF PersistExit, WriteEvidence, SetEvidence
  <2>13. ASSUME NEW o \in Op, PersistResult(o) PROVE ReplyFits'
    BY <2>13 DEF PersistResult, WriteEvidence, SetEvidence
  <2>14. ASSUME NEW o \in Op, PersistenceFailure(o) PROVE ReplyFits'
    BY <2>14 DEF PersistenceFailure, SetJournal
  <2> QED BY <1>4, <2>1, <2>2, <2>3, <2>4, <2>5, <2>6, <2>7, <2>8, <2>9, <2>10,
        <2>11, <2>12, <2>13, <2>14
      DEF Execute
<1>5. CASE EndCall
  <2>1. ASSUME FinishCalls PROVE ReplyFits'
    BY <2>1 DEF FinishCalls, MoveStatus
  <2>2. ASSUME QueueResults PROVE ReplyFits'
    BY <2>2 DEF QueueResults
  <2>3. ASSUME BudgetRaised PROVE ReplyFits'
    BY <2>3 DEF BudgetRaised
  <2>4. ASSUME BudgetNotice PROVE ReplyFits'
    BY <2>4 DEF BudgetNotice, MoveStatus
  <2>5. ASSUME QueueNotice PROVE ReplyFits'
    BY <2>5 DEF QueueNotice
  <2>6. ASSUME BudgetPause PROVE ReplyFits'
    BY <2>6 DEF BudgetPause, MoveStatus
  <2>7. ASSUME Stop PROVE ReplyFits'
    BY <2>7 DEF Stop, MoveStatus
  <2>8. ASSUME Leave PROVE ReplyFits'
    BY <2>8 DEF Leave, ProcessEnds
  <2>9. ASSUME NEW o \in Op, Complete(o) PROVE ReplyFits'
    BY <2>9 DEF Complete, WriteJournal, SetJournal, Finished, HasResult,
                Outcome
  <2>10. ASSUME NEW o \in Op, ReturnUncertain(o) PROVE ReplyFits'
    BY <2>10 DEF ReturnUncertain, WriteJournal, SetJournal
  <2>11. ASSUME NEW o \in Op, CompletionUnrecorded(o) PROVE ReplyFits'
    BY <2>11 DEF CompletionUnrecorded, SetJournal, Finished, HasResult
  <2>12. ASSUME NEW o \in Op, SettleCall(o) PROVE ReplyFits'
    BY <2>12 DEF SettleCall, Settle, SetPending
  <2>13. ASSUME NEW o \in Op, OverrunCall(o) PROVE ReplyFits'
    BY <2>13 DEF OverrunCall, Settle, SetPending
  <2>14. ASSUME NEW o \in Op, HoldIndeterminate(o) PROVE ReplyFits'
    BY <2>14 DEF HoldIndeterminate, WritePending, SetPending
  <2>15. ASSUME ResultsUnaffordable PROVE ReplyFits'
    BY <2>15 DEF ResultsUnaffordable, GoOn
  <2> QED BY <1>5, <2>1, <2>2, <2>3, <2>4, <2>5, <2>6, <2>7, <2>8, <2>9, <2>10,
        <2>11, <2>12, <2>13, <2>14, <2>15
      DEF EndCall
<1>6. CASE Environment
  <2>1. ASSUME \E d \in BOOLEAN : Resume(d) PROVE ReplyFits'
    BY <2>1 DEF Resume
  <2>2. ASSUME \E r \in Replies : ReceiveReply(r) PROVE ReplyFits'
    BY <2>2 DEF ReceiveReply
  <2>3. ASSUME \E k \in {"paused", "aborted"} : Interrupt(k) PROVE ReplyFits'
    BY <2>3 DEF Interrupt
  <2>4. ASSUME Crash PROVE ReplyFits'
    BY <2>4 DEF Crash, ProcessEnds
  <2>5. ASSUME NEW o \in Op, RejectReuse(o) PROVE ReplyFits'
    BY <2>5 DEF RejectReuse, MoveStatus
  <2>6. ASSUME NEW o \in Op, TearRecord(o) PROVE ReplyFits'
    BY <2>6 DEF TearRecord, SetJournal, ProcessEnds
  <2>7. ASSUME NEW o \in Op, Decide(o) PROVE ReplyFits'
    BY <2>7 DEF Decide
  <2>8. ASSUME NEW o \in Op, LoseArtifacts(o) PROVE ReplyFits'
    BY <2>8 DEF LoseArtifacts, SetEvidence, ProcessEnds
  <2> QED BY <1>6, <2>1, <2>2, <2>3, <2>4, <2>5, <2>6, <2>7, <2>8
      DEF Environment
<1>7. CASE UNCHANGED vars
  BY <1>7 DEF vars
<1> QED BY <1>1, <1>2, <1>3, <1>4, <1>5, <1>6, <1>7 DEF Next, Proceed

\* A terminal command comes alone and is settled before anything else is read.
LEMMA AloneStep ==
  ASSUME TypeOK, StatusFits, ReplyFits, [Next]_vars, NEW p \in Op,
         CallAgrees(p), SettledOnce(p), TerminalAlone(p), OwedFits(p),
         EndingFits(p)
  PROVE  TerminalAlone(p)'
<1> USE DEF TypeOK, Mutating, Terminal, At, Goto, session, records, process,
            world, ReplyFits,
            TerminalAlone, OwedFits, SettledOnce, Calling, PcInCall, Sequenced, StatusFits
<1>1. CASE Recover
  <2>1. ASSUME StartupMove PROVE TerminalAlone(p)'
    BY <2>1 DEF StartupMove, MoveStatus
  <2>2. ASSUME StartupScan PROVE TerminalAlone(p)'
    BY <2>2 DEF StartupScan, GoOn
  <2>3. ASSUME StartupDone PROVE TerminalAlone(p)'
    BY <2>3 DEF StartupDone, Recovered
  <2>4. ASSUME NEW o \in Op, RevertUnstarted(o) PROVE TerminalAlone(p)'
    BY <2>4 DEF RevertUnstarted, WriteJournal, SetJournal
  <2>5. ASSUME NEW o \in Op, RefundUnstarted(o) PROVE TerminalAlone(p)'
    BY <2>5 DEF RefundUnstarted, WritePending, SetPending
  <2>6. ASSUME NEW o \in Op, PromoteTerminal(o) PROVE TerminalAlone(p)'
    BY <2>6 DEF PromoteTerminal, WriteJournal, SetJournal, Undecided, HasResult
  <2>7. ASSUME NEW o \in Op, RecordPrelaunch(o) PROVE TerminalAlone(p)'
    BY <2>7 DEF RecordPrelaunch, WriteJournal, SetJournal, Undecided,
                ProvesNoLaunch
  <2>8. ASSUME NEW o \in Op, MarkTerminalUncertain(o) PROVE TerminalAlone(p)'
    BY <2>8 DEF MarkTerminalUncertain, WriteJournal, SetJournal, Undecided,
                HasResult, ProvesNoLaunch
  <2>9. ASSUME NEW o \in Op, RefuseTerminalConflict(o) PROVE TerminalAlone(p)'
    BY <2>9 DEF RefuseTerminalConflict, GoOn, Undecided, HasResult
  <2>10. ASSUME NEW o \in Op, HoldUncertain(o) PROVE TerminalAlone(p)'
    BY <2>10 DEF HoldUncertain, WritePending, SetPending, Undecided, HasResult,
                 ProvesNoLaunch
  <2>11. ASSUME NEW o \in Op, PauseUncertain(o) PROVE TerminalAlone(p)'
    BY <2>11 DEF PauseUncertain, GoOn
  <2>12. ASSUME NEW o \in Op, ApplyRecovered(o) PROVE TerminalAlone(p)'
    BY <2>12 DEF ApplyRecovered, Settle, SetPending, Undecided, HasResult,
                 ProvesNoLaunch
  <2> QED BY <1>1, <2>1, <2>2, <2>3, <2>4, <2>5, <2>6, <2>7, <2>8, <2>9, <2>10,
        <2>11, <2>12
      DEF Recover
<1>2. CASE StartCall
  <2>1. ASSUME BeginTools PROVE TerminalAlone(p)'
    BY <2>1 DEF BeginTools
  <2>2. ASSUME NEW o \in Op, Register(o) PROVE TerminalAlone(p)'
    BY <2>2 DEF Register, WriteJournal, SetJournal
  <2>3. ASSUME NEW o \in Op, RefuseTorn(o) PROVE TerminalAlone(p)'
    BY <2>3 DEF RefuseTorn, GoOn
  <2>4. ASSUME NEW o \in Op, Accept(o) PROVE TerminalAlone(p)'
    <3>1. CASE p = o
      <4>1. Terminal(p) => ~ \A i \in DOMAIN reply : ~ Mutating(reply[i])
        BY <2>4, <3>1 DEF Accept
      <4>2. Terminal(p) => Len(reply) = 1 /\ at = 1 /\ reply[1] = p
        BY <2>4, <3>1, <4>1 DEF Accept
      <4> QED BY <2>4, <3>1, <4>2 DEF Accept, WritePending
    <3>2. CASE p # o
      BY <2>4, <3>2 DEF Accept, WritePending, SetPending
    <3> QED BY <3>1, <3>2
  <2>5. ASSUME NEW o \in Op, Unaffordable(o) PROVE TerminalAlone(p)'
    BY <2>5 DEF Unaffordable, GoOn, Settled
  <2>6. ASSUME NEW o \in Op, RefuseReplay(o) PROVE TerminalAlone(p)'
    BY <2>6 DEF RefuseReplay, Settled
  <2>7. ASSUME NEW o \in Op, ReplayTerminal(o) PROVE TerminalAlone(p)'
    BY <2>7 DEF ReplayTerminal, Settled, HasResult
  <2>8. ASSUME NEW o \in Op, ReplayMissing(o) PROVE TerminalAlone(p)'
    BY <2>8 DEF ReplayMissing, GoOn, Settled, HasResult
  <2>9. ASSUME NEW o \in Op, ReplaySettled(o) PROVE TerminalAlone(p)'
    BY <2>9 DEF ReplaySettled, Settle, SetPending, Settled
  <2>10. ASSUME NEW o \in Op, ReplayOverrun(o) PROVE TerminalAlone(p)'
    BY <2>10 DEF ReplayOverrun, Settled
  <2> QED BY <1>2, <2>1, <2>2, <2>3, <2>4, <2>5, <2>6, <2>7, <2>8, <2>9, <2>10
      DEF StartCall
<1>3. CASE Decision
  <2>1. ASSUME NEW o \in Op, Authorize(o) PROVE TerminalAlone(p)'
    BY <2>1 DEF Authorize, GoOn
  <2>2. ASSUME NEW o \in Op, Ask(o) PROVE TerminalAlone(p)'
    BY <2>2 DEF Ask, MoveStatus
  <2>3. ASSUME NEW o \in Op, UseCachedDecision(o) PROVE TerminalAlone(p)'
    BY <2>3 DEF UseCachedDecision, GoOn
  <2>4. ASSUME NEW o \in Op, AfterDecision(o) PROVE TerminalAlone(p)'
    BY <2>4 DEF AfterDecision, MoveStatus
  <2>5. ASSUME NEW o \in Op, Refuse(o) PROVE TerminalAlone(p)'
    BY <2>5 DEF Refuse, WriteJournal, SetJournal
  <2>6. ASSUME NEW o \in Op, HeadroomExhausted(o) PROVE TerminalAlone(p)'
    BY <2>6 DEF HeadroomExhausted, WriteJournal, SetJournal
  <2> QED BY <1>3, <2>1, <2>2, <2>3, <2>4, <2>5, <2>6
      DEF Decision
<1>4. CASE Execute
  <2>1. ASSUME NEW o \in Op, MarkExecuting(o) PROVE TerminalAlone(p)'
    BY <2>1 DEF MarkExecuting, WriteJournal, SetJournal
  <2>2. ASSUME NEW o \in Op, PersistExecuting(o) PROVE TerminalAlone(p)'
    BY <2>2 DEF PersistExecuting, WritePending, SetPending
  <2>3. ASSUME NEW o \in Op, RestoreUnstarted(o) PROVE TerminalAlone(p)'
    BY <2>3 DEF RestoreUnstarted, WriteJournal, SetJournal
  <2>4. ASSUME NEW o \in Op, PersistUnstarted(o) PROVE TerminalAlone(p)'
    BY <2>4 DEF EndingFits, PersistUnstarted, WritePending, SetPending
  <2>5. ASSUME NEW o \in Op, Dispatch(o) PROVE TerminalAlone(p)'
    BY <2>5 DEF Dispatch, SetGoing
  <2>6. ASSUME NEW o \in Op, DispatchTerminal(o) PROVE TerminalAlone(p)'
    BY <2>6 DEF DispatchTerminal, GoOn
  <2>7. ASSUME NEW o \in Op, PersistRequest(o) PROVE TerminalAlone(p)'
    BY <2>7 DEF PersistRequest, WriteEvidence, SetEvidence
  <2>8. ASSUME NEW o \in Op, PersistLaunch(o) PROVE TerminalAlone(p)'
    BY <2>8 DEF PersistLaunch, WriteEvidence, SetEvidence
  <2>9. ASSUME NEW o \in Op, PrelaunchFailure(o) PROVE TerminalAlone(p)'
    BY <2>9 DEF PrelaunchFailure, WriteJournal, SetJournal
  <2>10. ASSUME NEW o \in Op, Spawn(o) PROVE TerminalAlone(p)'
    BY <2>10 DEF Spawn, SetGoing
  <2>11. ASSUME NEW o \in Op, SpawnFails(o) PROVE TerminalAlone(p)'
    BY <2>11 DEF SpawnFails, WriteEvidence, SetEvidence
  <2>12. ASSUME NEW o \in Op, PersistExit(o) PROVE TerminalAlone(p)'
    BY <2>12 DEF PersistExit, WriteEvidence, SetEvidence
  <2>13. ASSUME NEW o \in Op, PersistResult(o) PROVE TerminalAlone(p)'
    BY <2>13 DEF PersistResult, WriteEvidence, SetEvidence
  <2>14. ASSUME NEW o \in Op, PersistenceFailure(o) PROVE TerminalAlone(p)'
    BY <2>14 DEF PersistenceFailure, SetJournal
  <2> QED BY <1>4, <2>1, <2>2, <2>3, <2>4, <2>5, <2>6, <2>7, <2>8, <2>9, <2>10,
        <2>11, <2>12, <2>13, <2>14
      DEF Execute
<1>5. CASE EndCall
  <2>1. ASSUME FinishCalls PROVE TerminalAlone(p)'
    <3>1. ~ (Terminal(p) /\ pending[p] # "none")
      BY <2>1 DEF FinishCalls
    <3> QED BY <2>1, <3>1 DEF FinishCalls, MoveStatus
  <2>2. ASSUME QueueResults PROVE TerminalAlone(p)'
    BY <2>2 DEF QueueResults
  <2>3. ASSUME BudgetRaised PROVE TerminalAlone(p)'
    BY <2>3 DEF BudgetRaised
  <2>4. ASSUME BudgetNotice PROVE TerminalAlone(p)'
    BY <2>4 DEF BudgetNotice, MoveStatus
  <2>5. ASSUME QueueNotice PROVE TerminalAlone(p)'
    BY <2>5 DEF QueueNotice
  <2>6. ASSUME BudgetPause PROVE TerminalAlone(p)'
    BY <2>6 DEF BudgetPause, MoveStatus
  <2>7. ASSUME Stop PROVE TerminalAlone(p)'
    BY <2>7 DEF Stop, MoveStatus
  <2>8. ASSUME Leave PROVE TerminalAlone(p)'
    BY <2>8 DEF Leave, ProcessEnds
  <2>9. ASSUME NEW o \in Op, Complete(o) PROVE TerminalAlone(p)'
    BY <2>9 DEF Complete, WriteJournal, SetJournal, Finished, HasResult,
                Outcome
  <2>10. ASSUME NEW o \in Op, ReturnUncertain(o) PROVE TerminalAlone(p)'
    BY <2>10 DEF ReturnUncertain, WriteJournal, SetJournal
  <2>11. ASSUME NEW o \in Op, CompletionUnrecorded(o) PROVE TerminalAlone(p)'
    BY <2>11 DEF CompletionUnrecorded, SetJournal, Finished, HasResult
  <2>12. ASSUME NEW o \in Op, SettleCall(o) PROVE TerminalAlone(p)'
    BY <2>12 DEF SettleCall, Settle, SetPending
  <2>13. ASSUME NEW o \in Op, OverrunCall(o) PROVE TerminalAlone(p)'
    BY <2>13 DEF OverrunCall, Settle, SetPending
  <2>14. ASSUME NEW o \in Op, HoldIndeterminate(o) PROVE TerminalAlone(p)'
    BY <2>14 DEF HoldIndeterminate, WritePending, SetPending
  <2>15. ASSUME ResultsUnaffordable PROVE TerminalAlone(p)'
    BY <2>15 DEF ResultsUnaffordable, GoOn
  <2> QED BY <1>5, <2>1, <2>2, <2>3, <2>4, <2>5, <2>6, <2>7, <2>8, <2>9, <2>10,
        <2>11, <2>12, <2>13, <2>14, <2>15
      DEF EndCall
<1>6. CASE Environment
  <2>1. ASSUME \E d \in BOOLEAN : Resume(d) PROVE TerminalAlone(p)'
    BY <2>1 DEF Resume
  <2>2. ASSUME \E r \in Replies : ReceiveReply(r) PROVE TerminalAlone(p)'
    BY <2>2 DEF ReceiveReply
  <2>3. ASSUME \E k \in {"paused", "aborted"} : Interrupt(k) PROVE TerminalAlone(p)'
    BY <2>3 DEF Interrupt
  <2>4. ASSUME Crash PROVE TerminalAlone(p)'
    BY <2>4 DEF Crash, ProcessEnds
  <2>5. ASSUME NEW o \in Op, RejectReuse(o) PROVE TerminalAlone(p)'
    BY <2>5 DEF RejectReuse, MoveStatus
  <2>6. ASSUME NEW o \in Op, TearRecord(o) PROVE TerminalAlone(p)'
    BY <2>6 DEF TearRecord, SetJournal, ProcessEnds
  <2>7. ASSUME NEW o \in Op, Decide(o) PROVE TerminalAlone(p)'
    BY <2>7 DEF Decide
  <2>8. ASSUME NEW o \in Op, LoseArtifacts(o) PROVE TerminalAlone(p)'
    BY <2>8 DEF LoseArtifacts, SetEvidence, ProcessEnds
  <2> QED BY <1>6, <2>1, <2>2, <2>3, <2>4, <2>5, <2>6, <2>7, <2>8
      DEF Environment
<1>7. CASE UNCHANGED vars
  BY <1>7 DEF vars
<1> QED BY <1>1, <1>2, <1>3, <1>4, <1>5, <1>6, <1>7 DEF Next, Proceed

\* Results come to be owed by settling a call of the stored reply.
LEMMA OwedStep ==
  ASSUME TypeOK, ReplyFits, [Next]_vars, NEW p \in Op,
         TerminalAlone(p), OwedFits(p)
  PROVE  OwedFits(p)'
<1> USE DEF TypeOK, Mutating, Terminal, At, Goto, session, records, process,
            world, ReplyFits,
            TerminalAlone, OwedFits, InReply
<1>1. CASE Recover
  <2>1. ASSUME StartupMove PROVE OwedFits(p)'
    BY <2>1 DEF StartupMove, MoveStatus
  <2>2. ASSUME StartupScan PROVE OwedFits(p)'
    BY <2>2 DEF StartupScan, GoOn
  <2>3. ASSUME StartupDone PROVE OwedFits(p)'
    BY <2>3 DEF StartupDone, Recovered
  <2>4. ASSUME NEW o \in Op, RevertUnstarted(o) PROVE OwedFits(p)'
    BY <2>4 DEF RevertUnstarted, WriteJournal, SetJournal
  <2>5. ASSUME NEW o \in Op, RefundUnstarted(o) PROVE OwedFits(p)'
    BY <2>5 DEF RefundUnstarted, WritePending, SetPending
  <2>6. ASSUME NEW o \in Op, PromoteTerminal(o) PROVE OwedFits(p)'
    BY <2>6 DEF PromoteTerminal, WriteJournal, SetJournal, Undecided, HasResult
  <2>7. ASSUME NEW o \in Op, RecordPrelaunch(o) PROVE OwedFits(p)'
    BY <2>7 DEF RecordPrelaunch, WriteJournal, SetJournal, Undecided,
                ProvesNoLaunch
  <2>8. ASSUME NEW o \in Op, MarkTerminalUncertain(o) PROVE OwedFits(p)'
    BY <2>8 DEF MarkTerminalUncertain, WriteJournal, SetJournal, Undecided,
                HasResult, ProvesNoLaunch
  <2>9. ASSUME NEW o \in Op, RefuseTerminalConflict(o) PROVE OwedFits(p)'
    BY <2>9 DEF RefuseTerminalConflict, GoOn, Undecided, HasResult
  <2>10. ASSUME NEW o \in Op, HoldUncertain(o) PROVE OwedFits(p)'
    BY <2>10 DEF HoldUncertain, WritePending, SetPending, Undecided, HasResult,
                 ProvesNoLaunch
  <2>11. ASSUME NEW o \in Op, PauseUncertain(o) PROVE OwedFits(p)'
    BY <2>11 DEF PauseUncertain, GoOn
  <2>12. ASSUME NEW o \in Op, ApplyRecovered(o) PROVE OwedFits(p)'
    BY <2>12 DEF ApplyRecovered, Settle, SetPending, Undecided, HasResult,
                 ProvesNoLaunch
  <2> QED BY <1>1, <2>1, <2>2, <2>3, <2>4, <2>5, <2>6, <2>7, <2>8, <2>9, <2>10,
        <2>11, <2>12
      DEF Recover
<1>2. CASE StartCall
  <2>1. ASSUME BeginTools PROVE OwedFits(p)'
    BY <2>1 DEF BeginTools
  <2>2. ASSUME NEW o \in Op, Register(o) PROVE OwedFits(p)'
    BY <2>2 DEF Register, WriteJournal, SetJournal
  <2>3. ASSUME NEW o \in Op, RefuseTorn(o) PROVE OwedFits(p)'
    BY <2>3 DEF RefuseTorn, GoOn
  <2>4. ASSUME NEW o \in Op, Accept(o) PROVE OwedFits(p)'
    BY <2>4 DEF Accept, WritePending, SetPending
  <2>5. ASSUME NEW o \in Op, Unaffordable(o) PROVE OwedFits(p)'
    BY <2>5 DEF Unaffordable, GoOn, Settled
  <2>6. ASSUME NEW o \in Op, RefuseReplay(o) PROVE OwedFits(p)'
    BY <2>6 DEF RefuseReplay, Settled
  <2>7. ASSUME NEW o \in Op, ReplayTerminal(o) PROVE OwedFits(p)'
    BY <2>7 DEF ReplayTerminal, Settled, HasResult
  <2>8. ASSUME NEW o \in Op, ReplayMissing(o) PROVE OwedFits(p)'
    BY <2>8 DEF ReplayMissing, GoOn, Settled, HasResult
  <2>9. ASSUME NEW o \in Op, ReplaySettled(o) PROVE OwedFits(p)'
    BY <2>9 DEF ReplaySettled, Settle, SetPending, Settled
  <2>10. ASSUME NEW o \in Op, ReplayOverrun(o) PROVE OwedFits(p)'
    BY <2>10 DEF ReplayOverrun, Settled
  <2> QED BY <1>2, <2>1, <2>2, <2>3, <2>4, <2>5, <2>6, <2>7, <2>8, <2>9, <2>10
      DEF StartCall
<1>3. CASE Decision
  <2>1. ASSUME NEW o \in Op, Authorize(o) PROVE OwedFits(p)'
    BY <2>1 DEF Authorize, GoOn
  <2>2. ASSUME NEW o \in Op, Ask(o) PROVE OwedFits(p)'
    BY <2>2 DEF Ask, MoveStatus
  <2>3. ASSUME NEW o \in Op, UseCachedDecision(o) PROVE OwedFits(p)'
    BY <2>3 DEF UseCachedDecision, GoOn
  <2>4. ASSUME NEW o \in Op, AfterDecision(o) PROVE OwedFits(p)'
    BY <2>4 DEF AfterDecision, MoveStatus
  <2>5. ASSUME NEW o \in Op, Refuse(o) PROVE OwedFits(p)'
    BY <2>5 DEF Refuse, WriteJournal, SetJournal
  <2>6. ASSUME NEW o \in Op, HeadroomExhausted(o) PROVE OwedFits(p)'
    BY <2>6 DEF HeadroomExhausted, WriteJournal, SetJournal
  <2> QED BY <1>3, <2>1, <2>2, <2>3, <2>4, <2>5, <2>6
      DEF Decision
<1>4. CASE Execute
  <2>1. ASSUME NEW o \in Op, MarkExecuting(o) PROVE OwedFits(p)'
    BY <2>1 DEF MarkExecuting, WriteJournal, SetJournal
  <2>2. ASSUME NEW o \in Op, PersistExecuting(o) PROVE OwedFits(p)'
    BY <2>2 DEF PersistExecuting, WritePending, SetPending
  <2>3. ASSUME NEW o \in Op, RestoreUnstarted(o) PROVE OwedFits(p)'
    BY <2>3 DEF RestoreUnstarted, WriteJournal, SetJournal
  <2>4. ASSUME NEW o \in Op, PersistUnstarted(o) PROVE OwedFits(p)'
    BY <2>4 DEF PersistUnstarted, WritePending, SetPending
  <2>5. ASSUME NEW o \in Op, Dispatch(o) PROVE OwedFits(p)'
    BY <2>5 DEF Dispatch, SetGoing
  <2>6. ASSUME NEW o \in Op, DispatchTerminal(o) PROVE OwedFits(p)'
    BY <2>6 DEF DispatchTerminal, GoOn
  <2>7. ASSUME NEW o \in Op, PersistRequest(o) PROVE OwedFits(p)'
    BY <2>7 DEF PersistRequest, WriteEvidence, SetEvidence
  <2>8. ASSUME NEW o \in Op, PersistLaunch(o) PROVE OwedFits(p)'
    BY <2>8 DEF PersistLaunch, WriteEvidence, SetEvidence
  <2>9. ASSUME NEW o \in Op, PrelaunchFailure(o) PROVE OwedFits(p)'
    BY <2>9 DEF PrelaunchFailure, WriteJournal, SetJournal
  <2>10. ASSUME NEW o \in Op, Spawn(o) PROVE OwedFits(p)'
    BY <2>10 DEF Spawn, SetGoing
  <2>11. ASSUME NEW o \in Op, SpawnFails(o) PROVE OwedFits(p)'
    BY <2>11 DEF SpawnFails, WriteEvidence, SetEvidence
  <2>12. ASSUME NEW o \in Op, PersistExit(o) PROVE OwedFits(p)'
    BY <2>12 DEF PersistExit, WriteEvidence, SetEvidence
  <2>13. ASSUME NEW o \in Op, PersistResult(o) PROVE OwedFits(p)'
    BY <2>13 DEF PersistResult, WriteEvidence, SetEvidence
  <2>14. ASSUME NEW o \in Op, PersistenceFailure(o) PROVE OwedFits(p)'
    BY <2>14 DEF PersistenceFailure, SetJournal
  <2> QED BY <1>4, <2>1, <2>2, <2>3, <2>4, <2>5, <2>6, <2>7, <2>8, <2>9, <2>10,
        <2>11, <2>12, <2>13, <2>14
      DEF Execute
<1>5. CASE EndCall
  <2>1. ASSUME FinishCalls PROVE OwedFits(p)'
    BY <2>1 DEF FinishCalls, MoveStatus
  <2>2. ASSUME QueueResults PROVE OwedFits(p)'
    BY <2>2 DEF QueueResults
  <2>3. ASSUME BudgetRaised PROVE OwedFits(p)'
    BY <2>3 DEF BudgetRaised
  <2>4. ASSUME BudgetNotice PROVE OwedFits(p)'
    BY <2>4 DEF BudgetNotice, MoveStatus
  <2>5. ASSUME QueueNotice PROVE OwedFits(p)'
    BY <2>5 DEF QueueNotice
  <2>6. ASSUME BudgetPause PROVE OwedFits(p)'
    BY <2>6 DEF BudgetPause, MoveStatus
  <2>7. ASSUME Stop PROVE OwedFits(p)'
    BY <2>7 DEF Stop, MoveStatus
  <2>8. ASSUME Leave PROVE OwedFits(p)'
    BY <2>8 DEF Leave, ProcessEnds
  <2>9. ASSUME NEW o \in Op, Complete(o) PROVE OwedFits(p)'
    BY <2>9 DEF Complete, WriteJournal, SetJournal, Finished, HasResult,
                Outcome
  <2>10. ASSUME NEW o \in Op, ReturnUncertain(o) PROVE OwedFits(p)'
    BY <2>10 DEF ReturnUncertain, WriteJournal, SetJournal
  <2>11. ASSUME NEW o \in Op, CompletionUnrecorded(o) PROVE OwedFits(p)'
    BY <2>11 DEF CompletionUnrecorded, SetJournal, Finished, HasResult
  <2>12. ASSUME NEW o \in Op, SettleCall(o) PROVE OwedFits(p)'
    BY <2>12 DEF SettleCall, Settle, SetPending
  <2>13. ASSUME NEW o \in Op, OverrunCall(o) PROVE OwedFits(p)'
    BY <2>13 DEF OverrunCall, Settle, SetPending
  <2>14. ASSUME NEW o \in Op, HoldIndeterminate(o) PROVE OwedFits(p)'
    BY <2>14 DEF HoldIndeterminate, WritePending, SetPending
  <2>15. ASSUME ResultsUnaffordable PROVE OwedFits(p)'
    BY <2>15 DEF ResultsUnaffordable, GoOn
  <2> QED BY <1>5, <2>1, <2>2, <2>3, <2>4, <2>5, <2>6, <2>7, <2>8, <2>9, <2>10,
        <2>11, <2>12, <2>13, <2>14, <2>15
      DEF EndCall
<1>6. CASE Environment
  <2>1. ASSUME \E d \in BOOLEAN : Resume(d) PROVE OwedFits(p)'
    BY <2>1 DEF Resume
  <2>2. ASSUME \E r \in Replies : ReceiveReply(r) PROVE OwedFits(p)'
    BY <2>2 DEF ReceiveReply
  <2>3. ASSUME \E k \in {"paused", "aborted"} : Interrupt(k) PROVE OwedFits(p)'
    BY <2>3 DEF Interrupt
  <2>4. ASSUME Crash PROVE OwedFits(p)'
    BY <2>4 DEF Crash, ProcessEnds
  <2>5. ASSUME NEW o \in Op, RejectReuse(o) PROVE OwedFits(p)'
    BY <2>5 DEF RejectReuse, MoveStatus
  <2>6. ASSUME NEW o \in Op, TearRecord(o) PROVE OwedFits(p)'
    BY <2>6 DEF TearRecord, SetJournal, ProcessEnds
  <2>7. ASSUME NEW o \in Op, Decide(o) PROVE OwedFits(p)'
    BY <2>7 DEF Decide
  <2>8. ASSUME NEW o \in Op, LoseArtifacts(o) PROVE OwedFits(p)'
    BY <2>8 DEF LoseArtifacts, SetEvidence, ProcessEnds
  <2> QED BY <1>6, <2>1, <2>2, <2>3, <2>4, <2>5, <2>6, <2>7, <2>8
      DEF Environment
<1>7. CASE UNCHANGED vars
  BY <1>7 DEF vars
<1> QED BY <1>1, <1>2, <1>3, <1>4, <1>5, <1>6, <1>7 DEF Next, Proceed

\* An operation held for reconciliation is never taken up again.
LEMMA HeldStep ==
  ASSUME TypeOK, StatusFits, [Next]_vars, NEW p \in Op,
         RecordsAgree(p), CallAgrees(p), HeldFits(p)
  PROVE  HeldFits(p)'
<1> USE DEF TypeOK, Mutating, Terminal, At, Goto, session, records, process,
            world, CallAgrees,
            HeldFits, Standstill, StatusFits, PcInCall
<1>1. CASE Recover
  <2>1. ASSUME StartupMove PROVE HeldFits(p)'
    BY <2>1 DEF StartupMove, MoveStatus
  <2>2. ASSUME StartupScan PROVE HeldFits(p)'
    BY <2>2 DEF StartupScan, GoOn
  <2>3. ASSUME StartupDone PROVE HeldFits(p)'
    BY <2>3 DEF StartupDone, Recovered
  <2>4. ASSUME NEW o \in Op, RevertUnstarted(o) PROVE HeldFits(p)'
    BY <2>4 DEF RevertUnstarted, WriteJournal, SetJournal
  <2>5. ASSUME NEW o \in Op, RefundUnstarted(o) PROVE HeldFits(p)'
    BY <2>5 DEF RefundUnstarted, WritePending, SetPending
  <2>6. ASSUME NEW o \in Op, PromoteTerminal(o) PROVE HeldFits(p)'
    BY <2>6 DEF PromoteTerminal, WriteJournal, SetJournal, Undecided, HasResult
  <2>7. ASSUME NEW o \in Op, RecordPrelaunch(o) PROVE HeldFits(p)'
    BY <2>7 DEF RecordPrelaunch, WriteJournal, SetJournal, Undecided,
                ProvesNoLaunch
  <2>8. ASSUME NEW o \in Op, MarkTerminalUncertain(o) PROVE HeldFits(p)'
    BY <2>8 DEF MarkTerminalUncertain, WriteJournal, SetJournal, Undecided,
                HasResult, ProvesNoLaunch
  <2>9. ASSUME NEW o \in Op, RefuseTerminalConflict(o) PROVE HeldFits(p)'
    BY <2>9 DEF RefuseTerminalConflict, GoOn, Undecided, HasResult
  <2>10. ASSUME NEW o \in Op, HoldUncertain(o) PROVE HeldFits(p)'
    BY <2>10 DEF HoldUncertain, WritePending, SetPending, Undecided, HasResult,
                 ProvesNoLaunch
  <2>11. ASSUME NEW o \in Op, PauseUncertain(o) PROVE HeldFits(p)'
    BY <2>11 DEF PauseUncertain, GoOn
  <2>12. ASSUME NEW o \in Op, ApplyRecovered(o) PROVE HeldFits(p)'
    BY <2>12 DEF ApplyRecovered, Settle, SetPending, Undecided, HasResult,
                 ProvesNoLaunch
  <2> QED BY <1>1, <2>1, <2>2, <2>3, <2>4, <2>5, <2>6, <2>7, <2>8, <2>9, <2>10,
        <2>11, <2>12
      DEF Recover
<1>2. CASE StartCall
  <2>1. ASSUME BeginTools PROVE HeldFits(p)'
    BY <2>1 DEF BeginTools
  <2>2. ASSUME NEW o \in Op, Register(o) PROVE HeldFits(p)'
    BY <2>2 DEF Register, WriteJournal, SetJournal
  <2>3. ASSUME NEW o \in Op, RefuseTorn(o) PROVE HeldFits(p)'
    BY <2>3 DEF RefuseTorn, GoOn
  <2>4. ASSUME NEW o \in Op, Accept(o) PROVE HeldFits(p)'
    BY <2>4 DEF Accept, WritePending, SetPending
  <2>5. ASSUME NEW o \in Op, Unaffordable(o) PROVE HeldFits(p)'
    BY <2>5 DEF Unaffordable, GoOn, Settled
  <2>6. ASSUME NEW o \in Op, RefuseReplay(o) PROVE HeldFits(p)'
    BY <2>6 DEF RefuseReplay, Settled
  <2>7. ASSUME NEW o \in Op, ReplayTerminal(o) PROVE HeldFits(p)'
    BY <2>7 DEF ReplayTerminal, Settled, HasResult
  <2>8. ASSUME NEW o \in Op, ReplayMissing(o) PROVE HeldFits(p)'
    BY <2>8 DEF ReplayMissing, GoOn, Settled, HasResult
  <2>9. ASSUME NEW o \in Op, ReplaySettled(o) PROVE HeldFits(p)'
    BY <2>9 DEF ReplaySettled, Settle, SetPending, Settled
  <2>10. ASSUME NEW o \in Op, ReplayOverrun(o) PROVE HeldFits(p)'
    BY <2>10 DEF ReplayOverrun, Settled
  <2> QED BY <1>2, <2>1, <2>2, <2>3, <2>4, <2>5, <2>6, <2>7, <2>8, <2>9, <2>10
      DEF StartCall
<1>3. CASE Decision
  <2>1. ASSUME NEW o \in Op, Authorize(o) PROVE HeldFits(p)'
    BY <2>1 DEF Authorize, GoOn
  <2>2. ASSUME NEW o \in Op, Ask(o) PROVE HeldFits(p)'
    BY <2>2 DEF Ask, MoveStatus
  <2>3. ASSUME NEW o \in Op, UseCachedDecision(o) PROVE HeldFits(p)'
    BY <2>3 DEF UseCachedDecision, GoOn
  <2>4. ASSUME NEW o \in Op, AfterDecision(o) PROVE HeldFits(p)'
    BY <2>4 DEF AfterDecision, MoveStatus
  <2>5. ASSUME NEW o \in Op, Refuse(o) PROVE HeldFits(p)'
    BY <2>5 DEF Refuse, WriteJournal, SetJournal
  <2>6. ASSUME NEW o \in Op, HeadroomExhausted(o) PROVE HeldFits(p)'
    BY <2>6 DEF HeadroomExhausted, WriteJournal, SetJournal
  <2> QED BY <1>3, <2>1, <2>2, <2>3, <2>4, <2>5, <2>6
      DEF Decision
<1>4. CASE Execute
  <2>1. ASSUME NEW o \in Op, MarkExecuting(o) PROVE HeldFits(p)'
    BY <2>1 DEF MarkExecuting, WriteJournal, SetJournal
  <2>2. ASSUME NEW o \in Op, PersistExecuting(o) PROVE HeldFits(p)'
    BY <2>2 DEF PersistExecuting, WritePending, SetPending
  <2>3. ASSUME NEW o \in Op, RestoreUnstarted(o) PROVE HeldFits(p)'
    BY <2>3 DEF RestoreUnstarted, WriteJournal, SetJournal
  <2>4. ASSUME NEW o \in Op, PersistUnstarted(o) PROVE HeldFits(p)'
    BY <2>4 DEF PersistUnstarted, WritePending, SetPending
  <2>5. ASSUME NEW o \in Op, Dispatch(o) PROVE HeldFits(p)'
    BY <2>5 DEF Dispatch, SetGoing
  <2>6. ASSUME NEW o \in Op, DispatchTerminal(o) PROVE HeldFits(p)'
    BY <2>6 DEF DispatchTerminal, GoOn
  <2>7. ASSUME NEW o \in Op, PersistRequest(o) PROVE HeldFits(p)'
    BY <2>7 DEF PersistRequest, WriteEvidence, SetEvidence
  <2>8. ASSUME NEW o \in Op, PersistLaunch(o) PROVE HeldFits(p)'
    BY <2>8 DEF PersistLaunch, WriteEvidence, SetEvidence
  <2>9. ASSUME NEW o \in Op, PrelaunchFailure(o) PROVE HeldFits(p)'
    BY <2>9 DEF PrelaunchFailure, WriteJournal, SetJournal
  <2>10. ASSUME NEW o \in Op, Spawn(o) PROVE HeldFits(p)'
    BY <2>10 DEF Spawn, SetGoing
  <2>11. ASSUME NEW o \in Op, SpawnFails(o) PROVE HeldFits(p)'
    BY <2>11 DEF SpawnFails, WriteEvidence, SetEvidence
  <2>12. ASSUME NEW o \in Op, PersistExit(o) PROVE HeldFits(p)'
    BY <2>12 DEF PersistExit, WriteEvidence, SetEvidence
  <2>13. ASSUME NEW o \in Op, PersistResult(o) PROVE HeldFits(p)'
    BY <2>13 DEF PersistResult, WriteEvidence, SetEvidence
  <2>14. ASSUME NEW o \in Op, PersistenceFailure(o) PROVE HeldFits(p)'
    BY <2>14 DEF PersistenceFailure, SetJournal
  <2> QED BY <1>4, <2>1, <2>2, <2>3, <2>4, <2>5, <2>6, <2>7, <2>8, <2>9, <2>10,
        <2>11, <2>12, <2>13, <2>14
      DEF Execute
<1>5. CASE EndCall
  <2>1. ASSUME FinishCalls PROVE HeldFits(p)'
    BY <2>1 DEF FinishCalls, MoveStatus
  <2>2. ASSUME QueueResults PROVE HeldFits(p)'
    BY <2>2 DEF QueueResults
  <2>3. ASSUME BudgetRaised PROVE HeldFits(p)'
    BY <2>3 DEF BudgetRaised
  <2>4. ASSUME BudgetNotice PROVE HeldFits(p)'
    BY <2>4 DEF BudgetNotice, MoveStatus
  <2>5. ASSUME QueueNotice PROVE HeldFits(p)'
    BY <2>5 DEF QueueNotice
  <2>6. ASSUME BudgetPause PROVE HeldFits(p)'
    BY <2>6 DEF BudgetPause, MoveStatus
  <2>7. ASSUME Stop PROVE HeldFits(p)'
    BY <2>7 DEF Stop, MoveStatus
  <2>8. ASSUME Leave PROVE HeldFits(p)'
    BY <2>8 DEF Leave, ProcessEnds
  <2>9. ASSUME NEW o \in Op, Complete(o) PROVE HeldFits(p)'
    BY <2>9 DEF Complete, WriteJournal, SetJournal, Finished, HasResult,
                Outcome
  <2>10. ASSUME NEW o \in Op, ReturnUncertain(o) PROVE HeldFits(p)'
    BY <2>10 DEF ReturnUncertain, WriteJournal, SetJournal
  <2>11. ASSUME NEW o \in Op, CompletionUnrecorded(o) PROVE HeldFits(p)'
    BY <2>11 DEF CompletionUnrecorded, SetJournal, Finished, HasResult
  <2>12. ASSUME NEW o \in Op, SettleCall(o) PROVE HeldFits(p)'
    BY <2>12 DEF SettleCall, Settle, SetPending
  <2>13. ASSUME NEW o \in Op, OverrunCall(o) PROVE HeldFits(p)'
    BY <2>13 DEF OverrunCall, Settle, SetPending
  <2>14. ASSUME NEW o \in Op, HoldIndeterminate(o) PROVE HeldFits(p)'
    BY <2>14 DEF HoldIndeterminate, WritePending, SetPending
  <2>15. ASSUME ResultsUnaffordable PROVE HeldFits(p)'
    BY <2>15 DEF ResultsUnaffordable, GoOn
  <2> QED BY <1>5, <2>1, <2>2, <2>3, <2>4, <2>5, <2>6, <2>7, <2>8, <2>9, <2>10,
        <2>11, <2>12, <2>13, <2>14, <2>15
      DEF EndCall
<1>6. CASE Environment
  <2>1. ASSUME \E d \in BOOLEAN : Resume(d) PROVE HeldFits(p)'
    BY <2>1 DEF Resume
  <2>2. ASSUME \E r \in Replies : ReceiveReply(r) PROVE HeldFits(p)'
    BY <2>2 DEF ReceiveReply
  <2>3. ASSUME \E k \in {"paused", "aborted"} : Interrupt(k) PROVE HeldFits(p)'
    BY <2>3 DEF Interrupt
  <2>4. ASSUME Crash PROVE HeldFits(p)'
    BY <2>4 DEF Crash, ProcessEnds
  <2>5. ASSUME NEW o \in Op, RejectReuse(o) PROVE HeldFits(p)'
    BY <2>5 DEF RejectReuse, MoveStatus
  <2>6. ASSUME NEW o \in Op, TearRecord(o) PROVE HeldFits(p)'
    BY <2>6 DEF TearRecord, SetJournal, ProcessEnds
  <2>7. ASSUME NEW o \in Op, Decide(o) PROVE HeldFits(p)'
    BY <2>7 DEF Decide
  <2>8. ASSUME NEW o \in Op, LoseArtifacts(o) PROVE HeldFits(p)'
    BY <2>8 DEF LoseArtifacts, SetEvidence, ProcessEnds
  <2> QED BY <1>6, <2>1, <2>2, <2>3, <2>4, <2>5, <2>6, <2>7, <2>8
      DEF Environment
<1>7. CASE UNCHANGED vars
  BY <1>7 DEF vars
<1> QED BY <1>1, <1>2, <1>3, <1>4, <1>5, <1>6, <1>7 DEF Next, Proceed

\* How an operation ends agrees with whether it had been charged.
LEMMA EndingStep ==
  ASSUME TypeOK, [Next]_vars, NEW p \in Op,
         RecordsAgree(p), CallAgrees(p), HeldFits(p), SettledOnce(p), EndingFits(p)
  PROVE  EndingFits(p)'
<1> USE DEF TypeOK, Mutating, Terminal, At, Goto, session, records, process,
            world, RecordsAgree, CallAgrees,
            HeldFits, Standstill, EndingFits, SettledOnce, PcInCall
<1>1. CASE Recover
  <2>1. ASSUME StartupMove PROVE EndingFits(p)'
    BY <2>1 DEF StartupMove, MoveStatus
  <2>2. ASSUME StartupScan PROVE EndingFits(p)'
    BY <2>2 DEF StartupScan, GoOn
  <2>3. ASSUME StartupDone PROVE EndingFits(p)'
    BY <2>3 DEF StartupDone, Recovered
  <2>4. ASSUME NEW o \in Op, RevertUnstarted(o) PROVE EndingFits(p)'
    BY <2>4 DEF RevertUnstarted, WriteJournal, SetJournal
  <2>5. ASSUME NEW o \in Op, RefundUnstarted(o) PROVE EndingFits(p)'
    BY <2>5 DEF RefundUnstarted, WritePending, SetPending
  <2>6. ASSUME NEW o \in Op, PromoteTerminal(o) PROVE EndingFits(p)'
    BY <2>6 DEF PromoteTerminal, WriteJournal, SetJournal, Undecided, HasResult
  <2>7. ASSUME NEW o \in Op, RecordPrelaunch(o) PROVE EndingFits(p)'
    BY <2>7 DEF RecordPrelaunch, WriteJournal, SetJournal, Undecided,
                ProvesNoLaunch
  <2>8. ASSUME NEW o \in Op, MarkTerminalUncertain(o) PROVE EndingFits(p)'
    BY <2>8 DEF MarkTerminalUncertain, WriteJournal, SetJournal, Undecided,
                HasResult, ProvesNoLaunch
  <2>9. ASSUME NEW o \in Op, RefuseTerminalConflict(o) PROVE EndingFits(p)'
    BY <2>9 DEF RefuseTerminalConflict, GoOn, Undecided, HasResult
  <2>10. ASSUME NEW o \in Op, HoldUncertain(o) PROVE EndingFits(p)'
    BY <2>10 DEF HoldUncertain, WritePending, SetPending, Undecided, HasResult,
                 ProvesNoLaunch
  <2>11. ASSUME NEW o \in Op, PauseUncertain(o) PROVE EndingFits(p)'
    BY <2>11 DEF PauseUncertain, GoOn
  <2>12. ASSUME NEW o \in Op, ApplyRecovered(o) PROVE EndingFits(p)'
    BY <2>12 DEF ApplyRecovered, Settle, SetPending, Undecided, HasResult,
                 ProvesNoLaunch
  <2> QED BY <1>1, <2>1, <2>2, <2>3, <2>4, <2>5, <2>6, <2>7, <2>8, <2>9, <2>10,
        <2>11, <2>12
      DEF Recover
<1>2. CASE StartCall
  <2>1. ASSUME BeginTools PROVE EndingFits(p)'
    BY <2>1 DEF BeginTools
  <2>2. ASSUME NEW o \in Op, Register(o) PROVE EndingFits(p)'
    BY <2>2 DEF Register, WriteJournal, SetJournal
  <2>3. ASSUME NEW o \in Op, RefuseTorn(o) PROVE EndingFits(p)'
    BY <2>3 DEF RefuseTorn, GoOn
  <2>4. ASSUME NEW o \in Op, Accept(o) PROVE EndingFits(p)'
    BY <2>4 DEF Accept, WritePending, SetPending
  <2>5. ASSUME NEW o \in Op, Unaffordable(o) PROVE EndingFits(p)'
    BY <2>5 DEF Unaffordable, GoOn, Settled
  <2>6. ASSUME NEW o \in Op, RefuseReplay(o) PROVE EndingFits(p)'
    BY <2>6 DEF RefuseReplay, Settled
  <2>7. ASSUME NEW o \in Op, ReplayTerminal(o) PROVE EndingFits(p)'
    BY <2>7 DEF ReplayTerminal, Settled, HasResult
  <2>8. ASSUME NEW o \in Op, ReplayMissing(o) PROVE EndingFits(p)'
    BY <2>8 DEF ReplayMissing, GoOn, Settled, HasResult
  <2>9. ASSUME NEW o \in Op, ReplaySettled(o) PROVE EndingFits(p)'
    BY <2>9 DEF ReplaySettled, Settle, SetPending, Settled
  <2>10. ASSUME NEW o \in Op, ReplayOverrun(o) PROVE EndingFits(p)'
    BY <2>10 DEF ReplayOverrun, Settled
  <2> QED BY <1>2, <2>1, <2>2, <2>3, <2>4, <2>5, <2>6, <2>7, <2>8, <2>9, <2>10
      DEF StartCall
<1>3. CASE Decision
  <2>1. ASSUME NEW o \in Op, Authorize(o) PROVE EndingFits(p)'
    BY <2>1 DEF Authorize, GoOn
  <2>2. ASSUME NEW o \in Op, Ask(o) PROVE EndingFits(p)'
    BY <2>2 DEF Ask, MoveStatus
  <2>3. ASSUME NEW o \in Op, UseCachedDecision(o) PROVE EndingFits(p)'
    BY <2>3 DEF UseCachedDecision, GoOn
  <2>4. ASSUME NEW o \in Op, AfterDecision(o) PROVE EndingFits(p)'
    BY <2>4 DEF AfterDecision, MoveStatus
  <2>5. ASSUME NEW o \in Op, Refuse(o) PROVE EndingFits(p)'
    BY <2>5 DEF Refuse, WriteJournal, SetJournal
  <2>6. ASSUME NEW o \in Op, HeadroomExhausted(o) PROVE EndingFits(p)'
    BY <2>6 DEF HeadroomExhausted, WriteJournal, SetJournal
  <2> QED BY <1>3, <2>1, <2>2, <2>3, <2>4, <2>5, <2>6
      DEF Decision
<1>4. CASE Execute
  <2>1. ASSUME NEW o \in Op, MarkExecuting(o) PROVE EndingFits(p)'
    BY <2>1 DEF MarkExecuting, WriteJournal, SetJournal
  <2>2. ASSUME NEW o \in Op, PersistExecuting(o) PROVE EndingFits(p)'
    BY <2>2 DEF PersistExecuting, WritePending, SetPending
  <2>3. ASSUME NEW o \in Op, RestoreUnstarted(o) PROVE EndingFits(p)'
    BY <2>3 DEF RestoreUnstarted, WriteJournal, SetJournal
  <2>4. ASSUME NEW o \in Op, PersistUnstarted(o) PROVE EndingFits(p)'
    BY <2>4 DEF PersistUnstarted, WritePending, SetPending
  <2>5. ASSUME NEW o \in Op, Dispatch(o) PROVE EndingFits(p)'
    BY <2>5 DEF Dispatch, SetGoing
  <2>6. ASSUME NEW o \in Op, DispatchTerminal(o) PROVE EndingFits(p)'
    BY <2>6 DEF DispatchTerminal, GoOn
  <2>7. ASSUME NEW o \in Op, PersistRequest(o) PROVE EndingFits(p)'
    BY <2>7 DEF PersistRequest, WriteEvidence, SetEvidence
  <2>8. ASSUME NEW o \in Op, PersistLaunch(o) PROVE EndingFits(p)'
    BY <2>8 DEF PersistLaunch, WriteEvidence, SetEvidence
  <2>9. ASSUME NEW o \in Op, PrelaunchFailure(o) PROVE EndingFits(p)'
    BY <2>9 DEF PrelaunchFailure, WriteJournal, SetJournal
  <2>10. ASSUME NEW o \in Op, Spawn(o) PROVE EndingFits(p)'
    BY <2>10 DEF Spawn, SetGoing
  <2>11. ASSUME NEW o \in Op, SpawnFails(o) PROVE EndingFits(p)'
    BY <2>11 DEF SpawnFails, WriteEvidence, SetEvidence
  <2>12. ASSUME NEW o \in Op, PersistExit(o) PROVE EndingFits(p)'
    BY <2>12 DEF PersistExit, WriteEvidence, SetEvidence
  <2>13. ASSUME NEW o \in Op, PersistResult(o) PROVE EndingFits(p)'
    BY <2>13 DEF PersistResult, WriteEvidence, SetEvidence
  <2>14. ASSUME NEW o \in Op, PersistenceFailure(o) PROVE EndingFits(p)'
    BY <2>14 DEF PersistenceFailure, SetJournal
  <2> QED BY <1>4, <2>1, <2>2, <2>3, <2>4, <2>5, <2>6, <2>7, <2>8, <2>9, <2>10,
        <2>11, <2>12, <2>13, <2>14
      DEF Execute
<1>5. CASE EndCall
  <2>1. ASSUME FinishCalls PROVE EndingFits(p)'
    BY <2>1 DEF FinishCalls, MoveStatus
  <2>2. ASSUME QueueResults PROVE EndingFits(p)'
    BY <2>2 DEF QueueResults
  <2>3. ASSUME BudgetRaised PROVE EndingFits(p)'
    BY <2>3 DEF BudgetRaised
  <2>4. ASSUME BudgetNotice PROVE EndingFits(p)'
    BY <2>4 DEF BudgetNotice, MoveStatus
  <2>5. ASSUME QueueNotice PROVE EndingFits(p)'
    BY <2>5 DEF QueueNotice
  <2>6. ASSUME BudgetPause PROVE EndingFits(p)'
    BY <2>6 DEF BudgetPause, MoveStatus
  <2>7. ASSUME Stop PROVE EndingFits(p)'
    BY <2>7 DEF Stop, MoveStatus
  <2>8. ASSUME Leave PROVE EndingFits(p)'
    BY <2>8 DEF Leave, ProcessEnds
  <2>9. ASSUME NEW o \in Op, Complete(o) PROVE EndingFits(p)'
    <3>1. PICK how \in Outcome(o) : WriteJournal(o, "completed", how, "journaled")
      BY <2>9 DEF Complete
    <3>2. \/ Terminal(o) /\ how = evidence[o].verdict
          \/ how \in {"effect", "clean"}
      BY DEF Outcome
    <3>3. \/ journal'[p] = journal[p]
          \/ p = o /\ journal'[p] = [status |-> "completed", how |-> how]
      BY <3>1 DEF WriteJournal, SetJournal
    <3>4. UNCHANGED <<pending, at, intr>> /\ pc = "running" /\ pc' = "journaled"
      BY <2>9, <3>1 DEF WriteJournal, Complete, Finished
    <3>5. At(o)
      BY <2>9 DEF Complete, Finished
    <3> QED
      BY <3>2, <3>3, <3>4, <3>5
  <2>10. ASSUME NEW o \in Op, ReturnUncertain(o) PROVE EndingFits(p)'
    BY <2>10 DEF ReturnUncertain, WriteJournal, SetJournal
  <2>11. ASSUME NEW o \in Op, CompletionUnrecorded(o) PROVE EndingFits(p)'
    BY <2>11 DEF CompletionUnrecorded, SetJournal, Finished, HasResult
  <2>12. ASSUME NEW o \in Op, SettleCall(o) PROVE EndingFits(p)'
    BY <2>12 DEF SettleCall, Settle, SetPending
  <2>13. ASSUME NEW o \in Op, OverrunCall(o) PROVE EndingFits(p)'
    BY <2>13 DEF OverrunCall, Settle, SetPending
  <2>14. ASSUME NEW o \in Op, HoldIndeterminate(o) PROVE EndingFits(p)'
    BY <2>14 DEF HoldIndeterminate, WritePending, SetPending
  <2>15. ASSUME ResultsUnaffordable PROVE EndingFits(p)'
    BY <2>15 DEF ResultsUnaffordable, GoOn
  <2> QED BY <1>5, <2>1, <2>2, <2>3, <2>4, <2>5, <2>6, <2>7, <2>8, <2>9, <2>10,
        <2>11, <2>12, <2>13, <2>14, <2>15
      DEF EndCall
<1>6. CASE Environment
  <2>1. ASSUME \E d \in BOOLEAN : Resume(d) PROVE EndingFits(p)'
    BY <2>1 DEF Resume
  <2>2. ASSUME \E r \in Replies : ReceiveReply(r) PROVE EndingFits(p)'
    BY <2>2 DEF ReceiveReply
  <2>3. ASSUME \E k \in {"paused", "aborted"} : Interrupt(k) PROVE EndingFits(p)'
    BY <2>3 DEF Interrupt
  <2>4. ASSUME Crash PROVE EndingFits(p)'
    BY <2>4 DEF Crash, ProcessEnds
  <2>5. ASSUME NEW o \in Op, RejectReuse(o) PROVE EndingFits(p)'
    BY <2>5 DEF RejectReuse, MoveStatus
  <2>6. ASSUME NEW o \in Op, TearRecord(o) PROVE EndingFits(p)'
    BY <2>6 DEF TearRecord, SetJournal, ProcessEnds
  <2>7. ASSUME NEW o \in Op, Decide(o) PROVE EndingFits(p)'
    BY <2>7 DEF Decide
  <2>8. ASSUME NEW o \in Op, LoseArtifacts(o) PROVE EndingFits(p)'
    BY <2>8 DEF LoseArtifacts, SetEvidence, ProcessEnds
  <2> QED BY <1>6, <2>1, <2>2, <2>3, <2>4, <2>5, <2>6, <2>7, <2>8
      DEF Environment
<1>7. CASE UNCHANGED vars
  BY <1>7 DEF vars
<1> QED BY <1>1, <1>2, <1>3, <1>4, <1>5, <1>6, <1>7 DEF Next, Proceed


\* What is taken back in the journal is taken back in the session first of all.
LEMMA UndoStep ==
  ASSUME TypeOK, StatusFits, [Next]_vars, NEW p \in Op,
         CallAgrees(p), HeldFits(p), UndoFits(p)
  PROVE  UndoFits(p)'
<1> USE DEF TypeOK, Mutating, Terminal, At, Goto, session, records, process,
            world, CallAgrees,
            UndoFits, HeldFits, Standstill, StatusFits, PcInCall
<1>1. CASE Recover
  <2>1. ASSUME StartupMove PROVE UndoFits(p)'
    BY <2>1 DEF StartupMove, MoveStatus
  <2>2. ASSUME StartupScan PROVE UndoFits(p)'
    BY <2>2 DEF StartupScan, GoOn
  <2>3. ASSUME StartupDone PROVE UndoFits(p)'
    BY <2>3 DEF StartupDone, Recovered
  <2>4. ASSUME NEW o \in Op, RevertUnstarted(o) PROVE UndoFits(p)'
    BY <2>4 DEF RevertUnstarted, WriteJournal, SetJournal
  <2>5. ASSUME NEW o \in Op, RefundUnstarted(o) PROVE UndoFits(p)'
    BY <2>5 DEF RefundUnstarted, WritePending, SetPending
  <2>6. ASSUME NEW o \in Op, PromoteTerminal(o) PROVE UndoFits(p)'
    BY <2>6 DEF PromoteTerminal, WriteJournal, SetJournal, Undecided, HasResult
  <2>7. ASSUME NEW o \in Op, RecordPrelaunch(o) PROVE UndoFits(p)'
    BY <2>7 DEF RecordPrelaunch, WriteJournal, SetJournal, Undecided,
                ProvesNoLaunch
  <2>8. ASSUME NEW o \in Op, MarkTerminalUncertain(o) PROVE UndoFits(p)'
    BY <2>8 DEF MarkTerminalUncertain, WriteJournal, SetJournal, Undecided,
                HasResult, ProvesNoLaunch
  <2>9. ASSUME NEW o \in Op, RefuseTerminalConflict(o) PROVE UndoFits(p)'
    BY <2>9 DEF RefuseTerminalConflict, GoOn, Undecided, HasResult
  <2>10. ASSUME NEW o \in Op, HoldUncertain(o) PROVE UndoFits(p)'
    BY <2>10 DEF HoldUncertain, WritePending, SetPending, Undecided, HasResult,
                 ProvesNoLaunch
  <2>11. ASSUME NEW o \in Op, PauseUncertain(o) PROVE UndoFits(p)'
    BY <2>11 DEF PauseUncertain, GoOn
  <2>12. ASSUME NEW o \in Op, ApplyRecovered(o) PROVE UndoFits(p)'
    BY <2>12 DEF ApplyRecovered, Settle, SetPending, Undecided, HasResult,
                 ProvesNoLaunch
  <2> QED BY <1>1, <2>1, <2>2, <2>3, <2>4, <2>5, <2>6, <2>7, <2>8, <2>9, <2>10,
        <2>11, <2>12
      DEF Recover
<1>2. CASE StartCall
  <2>1. ASSUME BeginTools PROVE UndoFits(p)'
    BY <2>1 DEF BeginTools
  <2>2. ASSUME NEW o \in Op, Register(o) PROVE UndoFits(p)'
    BY <2>2 DEF Register, WriteJournal, SetJournal
  <2>3. ASSUME NEW o \in Op, RefuseTorn(o) PROVE UndoFits(p)'
    BY <2>3 DEF RefuseTorn, GoOn
  <2>4. ASSUME NEW o \in Op, Accept(o) PROVE UndoFits(p)'
    BY <2>4 DEF Accept, WritePending, SetPending
  <2>5. ASSUME NEW o \in Op, Unaffordable(o) PROVE UndoFits(p)'
    BY <2>5 DEF Unaffordable, GoOn, Settled
  <2>6. ASSUME NEW o \in Op, RefuseReplay(o) PROVE UndoFits(p)'
    BY <2>6 DEF RefuseReplay, Settled
  <2>7. ASSUME NEW o \in Op, ReplayTerminal(o) PROVE UndoFits(p)'
    BY <2>7 DEF ReplayTerminal, Settled, HasResult
  <2>8. ASSUME NEW o \in Op, ReplayMissing(o) PROVE UndoFits(p)'
    BY <2>8 DEF ReplayMissing, GoOn, Settled, HasResult
  <2>9. ASSUME NEW o \in Op, ReplaySettled(o) PROVE UndoFits(p)'
    BY <2>9 DEF ReplaySettled, Settle, SetPending, Settled
  <2>10. ASSUME NEW o \in Op, ReplayOverrun(o) PROVE UndoFits(p)'
    BY <2>10 DEF ReplayOverrun, Settled
  <2> QED BY <1>2, <2>1, <2>2, <2>3, <2>4, <2>5, <2>6, <2>7, <2>8, <2>9, <2>10
      DEF StartCall
<1>3. CASE Decision
  <2>1. ASSUME NEW o \in Op, Authorize(o) PROVE UndoFits(p)'
    BY <2>1 DEF Authorize, GoOn
  <2>2. ASSUME NEW o \in Op, Ask(o) PROVE UndoFits(p)'
    BY <2>2 DEF Ask, MoveStatus
  <2>3. ASSUME NEW o \in Op, UseCachedDecision(o) PROVE UndoFits(p)'
    BY <2>3 DEF UseCachedDecision, GoOn
  <2>4. ASSUME NEW o \in Op, AfterDecision(o) PROVE UndoFits(p)'
    BY <2>4 DEF AfterDecision, MoveStatus
  <2>5. ASSUME NEW o \in Op, Refuse(o) PROVE UndoFits(p)'
    BY <2>5 DEF Refuse, WriteJournal, SetJournal
  <2>6. ASSUME NEW o \in Op, HeadroomExhausted(o) PROVE UndoFits(p)'
    BY <2>6 DEF HeadroomExhausted, WriteJournal, SetJournal
  <2> QED BY <1>3, <2>1, <2>2, <2>3, <2>4, <2>5, <2>6
      DEF Decision
<1>4. CASE Execute
  <2>1. ASSUME NEW o \in Op, MarkExecuting(o) PROVE UndoFits(p)'
    BY <2>1 DEF MarkExecuting, WriteJournal, SetJournal
  <2>2. ASSUME NEW o \in Op, PersistExecuting(o) PROVE UndoFits(p)'
    BY <2>2 DEF PersistExecuting, WritePending, SetPending
  <2>3. ASSUME NEW o \in Op, RestoreUnstarted(o) PROVE UndoFits(p)'
    BY <2>3 DEF RestoreUnstarted, WriteJournal, SetJournal
  <2>4. ASSUME NEW o \in Op, PersistUnstarted(o) PROVE UndoFits(p)'
    BY <2>4 DEF PersistUnstarted, WritePending, SetPending
  <2>5. ASSUME NEW o \in Op, Dispatch(o) PROVE UndoFits(p)'
    BY <2>5 DEF Dispatch, SetGoing
  <2>6. ASSUME NEW o \in Op, DispatchTerminal(o) PROVE UndoFits(p)'
    BY <2>6 DEF DispatchTerminal, GoOn
  <2>7. ASSUME NEW o \in Op, PersistRequest(o) PROVE UndoFits(p)'
    BY <2>7 DEF PersistRequest, WriteEvidence, SetEvidence
  <2>8. ASSUME NEW o \in Op, PersistLaunch(o) PROVE UndoFits(p)'
    BY <2>8 DEF PersistLaunch, WriteEvidence, SetEvidence
  <2>9. ASSUME NEW o \in Op, PrelaunchFailure(o) PROVE UndoFits(p)'
    BY <2>9 DEF PrelaunchFailure, WriteJournal, SetJournal
  <2>10. ASSUME NEW o \in Op, Spawn(o) PROVE UndoFits(p)'
    BY <2>10 DEF Spawn, SetGoing
  <2>11. ASSUME NEW o \in Op, SpawnFails(o) PROVE UndoFits(p)'
    BY <2>11 DEF SpawnFails, WriteEvidence, SetEvidence
  <2>12. ASSUME NEW o \in Op, PersistExit(o) PROVE UndoFits(p)'
    BY <2>12 DEF PersistExit, WriteEvidence, SetEvidence
  <2>13. ASSUME NEW o \in Op, PersistResult(o) PROVE UndoFits(p)'
    BY <2>13 DEF PersistResult, WriteEvidence, SetEvidence
  <2>14. ASSUME NEW o \in Op, PersistenceFailure(o) PROVE UndoFits(p)'
    BY <2>14 DEF PersistenceFailure, SetJournal
  <2> QED BY <1>4, <2>1, <2>2, <2>3, <2>4, <2>5, <2>6, <2>7, <2>8, <2>9, <2>10,
        <2>11, <2>12, <2>13, <2>14
      DEF Execute
<1>5. CASE EndCall
  <2>1. ASSUME FinishCalls PROVE UndoFits(p)'
    BY <2>1 DEF FinishCalls, MoveStatus
  <2>2. ASSUME QueueResults PROVE UndoFits(p)'
    BY <2>2 DEF QueueResults
  <2>3. ASSUME BudgetRaised PROVE UndoFits(p)'
    BY <2>3 DEF BudgetRaised
  <2>4. ASSUME BudgetNotice PROVE UndoFits(p)'
    BY <2>4 DEF BudgetNotice, MoveStatus
  <2>5. ASSUME QueueNotice PROVE UndoFits(p)'
    BY <2>5 DEF QueueNotice
  <2>6. ASSUME BudgetPause PROVE UndoFits(p)'
    BY <2>6 DEF BudgetPause, MoveStatus
  <2>7. ASSUME Stop PROVE UndoFits(p)'
    BY <2>7 DEF Stop, MoveStatus
  <2>8. ASSUME Leave PROVE UndoFits(p)'
    BY <2>8 DEF Leave, ProcessEnds
  <2>9. ASSUME NEW o \in Op, Complete(o) PROVE UndoFits(p)'
    BY <2>9 DEF Complete, WriteJournal, SetJournal, Finished, HasResult,
                Outcome
  <2>10. ASSUME NEW o \in Op, ReturnUncertain(o) PROVE UndoFits(p)'
    BY <2>10 DEF ReturnUncertain, WriteJournal, SetJournal
  <2>11. ASSUME NEW o \in Op, CompletionUnrecorded(o) PROVE UndoFits(p)'
    BY <2>11 DEF CompletionUnrecorded, SetJournal, Finished, HasResult
  <2>12. ASSUME NEW o \in Op, SettleCall(o) PROVE UndoFits(p)'
    BY <2>12 DEF SettleCall, Settle, SetPending
  <2>13. ASSUME NEW o \in Op, OverrunCall(o) PROVE UndoFits(p)'
    BY <2>13 DEF OverrunCall, Settle, SetPending
  <2>14. ASSUME NEW o \in Op, HoldIndeterminate(o) PROVE UndoFits(p)'
    BY <2>14 DEF HoldIndeterminate, WritePending, SetPending
  <2>15. ASSUME ResultsUnaffordable PROVE UndoFits(p)'
    BY <2>15 DEF ResultsUnaffordable, GoOn
  <2> QED BY <1>5, <2>1, <2>2, <2>3, <2>4, <2>5, <2>6, <2>7, <2>8, <2>9, <2>10,
        <2>11, <2>12, <2>13, <2>14, <2>15
      DEF EndCall
<1>6. CASE Environment
  <2>1. ASSUME \E d \in BOOLEAN : Resume(d) PROVE UndoFits(p)'
    BY <2>1 DEF Resume
  <2>2. ASSUME \E r \in Replies : ReceiveReply(r) PROVE UndoFits(p)'
    BY <2>2 DEF ReceiveReply
  <2>3. ASSUME \E k \in {"paused", "aborted"} : Interrupt(k) PROVE UndoFits(p)'
    BY <2>3 DEF Interrupt
  <2>4. ASSUME Crash PROVE UndoFits(p)'
    BY <2>4 DEF Crash, ProcessEnds
  <2>5. ASSUME NEW o \in Op, RejectReuse(o) PROVE UndoFits(p)'
    BY <2>5 DEF RejectReuse, MoveStatus
  <2>6. ASSUME NEW o \in Op, TearRecord(o) PROVE UndoFits(p)'
    BY <2>6 DEF TearRecord, SetJournal, ProcessEnds
  <2>7. ASSUME NEW o \in Op, Decide(o) PROVE UndoFits(p)'
    BY <2>7 DEF Decide
  <2>8. ASSUME NEW o \in Op, LoseArtifacts(o) PROVE UndoFits(p)'
    BY <2>8 DEF LoseArtifacts, SetEvidence, ProcessEnds
  <2> QED BY <1>6, <2>1, <2>2, <2>3, <2>4, <2>5, <2>6, <2>7, <2>8
      DEF Environment
<1>7. CASE UNCHANGED vars
  BY <1>7 DEF vars
<1> QED BY <1>1, <1>2, <1>3, <1>4, <1>5, <1>6, <1>7 DEF Next, Proceed


-----------------------------------------------------------------------------
(* Which steps touch the accounts *)

\* The steps that charge, give back, hold or settle an operation.
Accounting(o) ==
  \/ Accept(o) \/ PersistExecuting(o) \/ PersistUnstarted(o) \/ RefundUnstarted(o)
  \/ HoldUncertain(o) \/ HoldIndeterminate(o)
  \/ ApplyRecovered(o) \/ ReplaySettled(o) \/ SettleCall(o) \/ OverrunCall(o)
  \/ ReplayOverrun(o)

\* No other step writes what the accounts are about.
LEMMA OthersQuiet ==
  ASSUME [Next]_vars, ~ \E o \in Op : Accounting(o)
  PROVE  UNCHANGED <<pending, completed, recorded, used>>
<1> USE DEF session, records, process, world
<1>1. CASE Recover
  BY <1>1, SMTT(60) DEF Recover, Accounting, StartupMove, MoveStatus,
              StartupNext, StartupScan, GoOn,
              StartupDone, Recovered, RevertUnstarted, WriteJournal,
              SetJournal, RefundUnstarted, WritePending, SetPending,
              PromoteTerminal, Undecided, RecordPrelaunch,
              MarkTerminalUncertain, RefuseTerminalConflict, HoldUncertain,
              PauseUncertain, ApplyRecovered, Settle
<1>2. CASE StartCall
  BY <1>2, SMTT(60) DEF StartCall, Accounting, BeginTools, Register,
              WriteJournal, SetJournal,
              RefuseTorn, GoOn, Accept, WritePending, SetPending,
              Unaffordable, RefuseReplay, Settled, ReplayTerminal,
              ReplayMissing, ReplaySettled, Settle, ReplayOverrun
<1>3. CASE Decision
  BY <1>3, SMTT(60) DEF Decision, Accounting, Authorize, GoOn, Ask, MoveStatus,
              UseCachedDecision,
              AfterDecision, Refuse, WriteJournal, SetJournal,
              HeadroomExhausted
<1>4. CASE Execute
  BY <1>4, SMTT(60) DEF Execute, Accounting, MarkExecuting, WriteJournal,
              SetJournal,
              PersistExecuting, WritePending, SetPending, RestoreUnstarted,
              PersistUnstarted, Dispatch, SetGoing, DispatchTerminal, GoOn,
              PersistRequest, WriteEvidence, PersistLaunch, PrelaunchFailure,
              Spawn, SpawnFails, PersistExit, PersistResult, PersistenceFailure
<1>5. CASE EndCall
  BY <1>5, SMTT(60) DEF EndCall, Accounting, FinishCalls, MoveStatus,
              QueueResults, ResultsUnaffordable, GoOn, BudgetRaised,
              BudgetNotice, QueueNotice, BudgetPause, Stop, Interruptible,
              Leave, ProcessEnds, Complete, WriteJournal, SetJournal, Finished,
              ReturnUncertain, CompletionUnrecorded, SettleCall, Settle,
              SetPending, OverrunCall, HoldIndeterminate, WritePending
<1>6. CASE Environment
  BY <1>6, SMTT(60) DEF Environment, Resume, ReceiveReply, Interrupt, Crash,
              ProcessEnds,
              RejectReuse, MoveStatus, TearRecord, SetJournal, Decide,
              LoseArtifacts
<1>7. CASE UNCHANGED vars
  BY <1>7 DEF vars
<1> QED BY <1>1, <1>2, <1>3, <1>4, <1>5, <1>6, <1>7 DEF Next, Proceed

\* What the journal says of a settled operation is never written again.
LEMMA SettledRecordStays ==
  ASSUME TypeOK, [Next]_vars, NEW p \in Op, p \in completed,
         RecordsAgree(p), CallAgrees(p), SettledOnce(p)
  PROVE  journal'[p] = journal[p]
<1> USE DEF TypeOK, RecordsAgree, CallAgrees, SettledOnce, At, Goto, session,
            records, process, world
<1>1. CASE Recover
  BY <1>1, SMTT(60) DEF Recover, StartupMove, MoveStatus, StartupNext,
              StartupScan, GoOn,
              StartupDone, Recovered, RevertUnstarted, WriteJournal,
              SetJournal, RefundUnstarted, WritePending, SetPending,
              PromoteTerminal, Undecided, RecordPrelaunch,
              MarkTerminalUncertain, RefuseTerminalConflict, HoldUncertain,
              PauseUncertain, ApplyRecovered, Settle
<1>2. CASE StartCall
  BY <1>2, SMTT(60) DEF StartCall, BeginTools, Register, WriteJournal, SetJournal,
              RefuseTorn, GoOn, Accept, WritePending, SetPending,
              Unaffordable, RefuseReplay, Settled, ReplayTerminal,
              ReplayMissing, ReplaySettled, Settle, ReplayOverrun
<1>3. CASE Decision
  BY <1>3, SMTT(60) DEF Decision, Authorize, GoOn, Ask, MoveStatus,
              UseCachedDecision,
              AfterDecision, Refuse, WriteJournal, SetJournal,
              HeadroomExhausted
<1>4. CASE Execute
  BY <1>4, SMTT(60) DEF Execute, MarkExecuting, WriteJournal, SetJournal,
              PersistExecuting, WritePending, SetPending, RestoreUnstarted,
              PersistUnstarted, Dispatch, SetGoing, DispatchTerminal, GoOn,
              PersistRequest, WriteEvidence, PersistLaunch, PrelaunchFailure,
              Spawn, SpawnFails, PersistExit, PersistResult, PersistenceFailure
<1>5. CASE EndCall
  BY <1>5, SMTT(60) DEF EndCall, FinishCalls, MoveStatus, QueueResults, ResultsUnaffordable, GoOn,
              BudgetRaised,
              BudgetNotice, QueueNotice, BudgetPause, Stop, Interruptible,
              Leave, ProcessEnds, Complete, WriteJournal, SetJournal, Finished,
              ReturnUncertain, CompletionUnrecorded, SettleCall, Settle,
              SetPending, OverrunCall, HoldIndeterminate, WritePending
<1>6. CASE Environment
  BY <1>6, SMTT(60) DEF Environment, Resume, ReceiveReply, Interrupt, Crash,
              ProcessEnds,
              RejectReuse, MoveStatus, TearRecord, SetJournal, Decide,
              LoseArtifacts
<1>7. CASE UNCHANGED vars
  BY <1>7 DEF vars
<1> QED BY <1>1, <1>2, <1>3, <1>4, <1>5, <1>6, <1>7 DEF Next, Proceed

-----------------------------------------------------------------------------
(* The specialized counters *)

\* The operations that count under c, those of them a use is charged for, and
\* those whose outcome is open.
Counted(c) == {o \in Op : c \in SpecializedBudgetCounter(o)}
Charged(c) == {o \in Counted(c) : pending[o] = "executing"} \cup
              {o \in Counted(c) \cap completed :
                 journal[o].how \notin {"denied", "prelaunch", "unspawned"}}
Open(c) == {o \in Counted(c) : pending[o] = "indeterminate"}

Specialized == {"commands", "readFiles"}

Balanced(c) ==
  /\ Cardinality(Charged(c)) <= used[c]
  /\ used[c] <= Cardinality(Charged(c) \cup Open(c))

\* SpecializedCharged says of every counter that it is balanced.
LEMMA BalanceOfEach == SpecializedCharged <=> \A c \in Specialized : Balanced(c)
  BY DEF SpecializedCharged, Specialized, Balanced, Charged, Open, Counted

\* A step about one operation leaves the others on the side they were on.
LEMMA OthersStay ==
  ASSUME TypeOK, NEW o \in Op, NEW s, NEW c,
         pending' = [pending EXCEPT ![o] = s], journal' = journal,
         completed' \in {completed, completed \cup {o}}
  PROVE  /\ Charged(c)' \ {o} = Charged(c) \ {o}
         /\ Open(c)' \ {o} = Open(c) \ {o}
         /\ o \in Charged(c)' <=>
              /\ o \in Counted(c)
              /\ \/ s = "executing"
                 \/ /\ o \in completed'
                    /\ journal[o].how \notin {"denied", "prelaunch", "unspawned"}
         /\ o \in Open(c)' <=> o \in Counted(c) /\ s = "indeterminate"
  BY DEF TypeOK, Charged, Open, Counted, SpecializedBudgetCounter

\* A counter stays balanced if it moves with the operation the step is about:
\* up when that one comes to be charged, down when it no longer is, and not at
\* all when it only gets closer to open.
LEMMA Balance ==
  ASSUME TypeOK, NEW c \in Specialized, Balanced(c), NEW o \in Op,
         Charged(c)' \ {o} = Charged(c) \ {o}, Open(c)' \ {o} = Open(c) \ {o},
         \/ /\ used'[c] = used[c]
            /\ o \in Charged(c)' => o \in Charged(c)
            /\ o \in Charged(c) \cup Open(c) => o \in Charged(c)' \cup Open(c)'
         \/ /\ used'[c] = used[c] + 1
            /\ o \notin Charged(c) \cup Open(c) /\ o \in Charged(c)'
         \/ /\ used'[c] = used[c] - 1
            /\ o \in Charged(c) /\ o \notin Charged(c)' \cup Open(c)'
  PROVE  Balanced(c)'
<1> DEFINE A == Charged(c)
           B == Charged(c) \cup Open(c)
           X == Charged(c)'
           Y == Charged(c)' \cup Open(c)'
<1>1. A \in SUBSET Op /\ B \in SUBSET Op /\ X \in SUBSET Op /\ Y \in SUBSET Op
  BY DEF Charged, Open, Counted
<1>2. /\ IsFiniteSet(A) /\ IsFiniteSet(B) /\ IsFiniteSet(X) /\ IsFiniteSet(Y)
      /\ IsFiniteSet(Op)
  BY <1>1, FS_Subset, ToolAssumption
<1>3. X \ {o} = A \ {o} /\ Y \ {o} = B \ {o}
  OBVIOUS
<1>4. used[c] \in Int
  BY DEF TypeOK, Counters, Specialized
<1>5. Cardinality(A) <= used[c] /\ used[c] <= Cardinality(B)
  BY DEF Balanced
<1>6. SUFFICES Cardinality(X) <= used'[c] /\ used'[c] <= Cardinality(Y)
  BY DEF Balanced
<1> HIDE DEF A, B, X, Y
<1>7. PICK a, b, x, y \in Nat :
        a = Cardinality(A) /\ b = Cardinality(B) /\ x = Cardinality(X) /\ y = Cardinality(Y)
  BY <1>2, FS_CardinalityType
<1>8. PICK r, q : r = Cardinality(A \ {o}) /\ q = Cardinality(B \ {o})
  OBVIOUS
<1>9. /\ r = (IF o \in A THEN a - 1 ELSE a) /\ q = (IF o \in B THEN b - 1 ELSE b)
  BY <1>2, <1>7, <1>8, FS_RemoveElement
<1>10. /\ r = (IF o \in X THEN x - 1 ELSE x) /\ q = (IF o \in Y THEN y - 1 ELSE y)
  BY <1>2, <1>3, <1>7, <1>8, FS_RemoveElement
<1>11. \/ /\ used'[c] = used[c]
          /\ o \in X => o \in A
          /\ o \in B => o \in Y
       \/ /\ used'[c] = used[c] + 1
          /\ o \notin B /\ o \in X
       \/ /\ used'[c] = used[c] - 1
          /\ o \in A /\ o \notin Y
  BY DEF A, B, X, Y
<1>12. (o \in A => o \in B) /\ (o \in X => o \in Y)
  BY DEF A, B, X, Y
<1> QED BY <1>4, <1>5, <1>7, <1>9, <1>10, <1>11, <1>12

\* What settling an operation does to its charge: it is given back exactly if
\* one had been made and the tool was not set going.
LEMMA SettlingBalances ==
  ASSUME TypeOK, NEW c \in Specialized, Balanced(c), NEW o \in Op,
         EndingFits(o), SettledOnce(o), Settle(o), journal' = journal,
         journal[o].status \in {"completed", "failed"},
         pending[o] # "indeterminate",
         pending[o] # "none" \/ (o \in completed /\ ~ Terminal(o)),
         used' = UseWhenSettled(o) \/ (used' = used /\ ~ NeverSpawned(o))
  PROVE  Balanced(c)'
<1>1. /\ pending' = [pending EXCEPT ![o] = "none"]
      /\ completed' = completed \cup {o}
  BY DEF Settle, SetPending
<1>2. /\ Charged(c)' \ {o} = Charged(c) \ {o} /\ Open(c)' \ {o} = Open(c) \ {o}
      /\ o \in Charged(c)' <=>
           o \in Counted(c) /\ journal[o].how \notin {"denied", "prelaunch", "unspawned"}
      /\ o \notin Open(c)'
  <2>1. completed' \in {completed, completed \cup {o}} /\ o \in completed'
    BY <1>1
  <2>2. /\ Charged(c)' \ {o} = Charged(c) \ {o} /\ Open(c)' \ {o} = Open(c) \ {o}
        /\ o \in Charged(c)' <=>
             /\ o \in Counted(c)
             /\ \/ "none" = "executing"
                \/ /\ o \in completed'
                   /\ journal[o].how \notin {"denied", "prelaunch", "unspawned"}
        /\ o \in Open(c)' <=> o \in Counted(c) /\ "none" = "indeterminate"
    BY <1>1, <2>1, OthersStay
  <2> QED BY <2>1, <2>2
<1>3. o \notin Open(c)
  BY DEF Open
<1>4. o \in Charged(c) <=>
        /\ o \in Counted(c)
        /\ \/ pending[o] = "executing"
           \/ o \in completed /\ journal[o].how \notin {"denied", "prelaunch", "unspawned"}
  BY DEF Charged, Counted
<1>5. pending[o] \in {"none", "accepted", "executing"}
  BY DEF TypeOK, PendingStatus
<1>6. CASE NeverSpawned(o) /\ pending[o] # "none" /\ o \in Counted(c)
  <2>1. c = "commands" /\ pending[o] = "executing"
    BY <1>5, <1>6 DEF NeverSpawned, EndingFits, Terminal, Counted, Specialized,
                      SpecializedBudgetCounter
  <2>2. used'[c] = used[c] - 1
    BY <1>6, <2>1 DEF UseWhenSettled, Consume, Refund, Counters, TypeOK
  <2> QED BY <1>2, <1>3, <1>4, <1>6, <2>1, <2>2, Balance DEF NeverSpawned
<1>7. CASE o \notin Counted(c)
  <2>1. NeverSpawned(o) => c # "commands"
    BY <1>7 DEF NeverSpawned, EndingFits, Terminal, Counted, Specialized,
                SpecializedBudgetCounter
  <2>2. used'[c] = used[c]
    BY <2>1 DEF UseWhenSettled, Consume, Refund, Counters, TypeOK, Specialized
  <2> QED BY <1>2, <1>3, <1>4, <1>7, <2>2, Balance
<1>8. CASE ~ NeverSpawned(o) /\ o \in Counted(c)
  <2>1. used'[c] = used[c]
    BY <1>8 DEF UseWhenSettled, Consume, Counters, TypeOK, Specialized
  <2>2. o \in Charged(c)' <=> o \in Charged(c)
    BY <1>2, <1>4, <1>5, <1>8 DEF NeverSpawned, EndingFits, SettledOnce
  <2> QED BY <1>2, <1>3, <2>1, <2>2, Balance
<1>9. CASE NeverSpawned(o) /\ pending[o] = "none" /\ o \in Counted(c)
  BY <1>9 DEF NeverSpawned, EndingFits
<1> QED BY <1>6, <1>7, <1>8, <1>9

\* Every step that writes an account keeps the specialized counters balanced.
LEMMA BalanceKept ==
  ASSUME TypeOK, StatusFits, NEW c \in Specialized, Balanced(c),
         NEW o \in Op, Accounting(o), RecordsAgree(o), CallAgrees(o),
         SettledOnce(o), TerminalAlone(o), OwedFits(o), HeldFits(o), EndingFits(o),
         UndoFits(o)
  PROVE  Balanced(c)'
<1> USE DEF records, Goto
<1>1. ASSUME NEW s \in PendingStatus, pending' = [pending EXCEPT ![o] = s],
             journal' = journal, completed' = completed
      PROVE  /\ Charged(c)' \ {o} = Charged(c) \ {o} /\ Open(c)' \ {o} = Open(c) \ {o}
             /\ o \in Charged(c)' <=>
                  /\ o \in Counted(c)
                  /\ \/ s = "executing"
                     \/ /\ o \in completed
                        /\ journal[o].how \notin {"denied", "prelaunch", "unspawned"}
             /\ o \in Open(c)' <=> o \in Counted(c) /\ s = "indeterminate"
  <2>1. completed' \in {completed, completed \cup {o}}
    BY <1>1
  <2> QED BY <1>1, <2>1, OthersStay
<1>2. /\ o \in Charged(c) <=>
           /\ o \in Counted(c)
           /\ \/ pending[o] = "executing"
              \/ /\ o \in completed
                 /\ journal[o].how \notin {"denied", "prelaunch", "unspawned"}
      /\ o \in Open(c) <=> o \in Counted(c) /\ pending[o] = "indeterminate"
  BY DEF Charged, Open, Counted
<1>3. o \in Counted(c) <=> c \in SpecializedBudgetCounter(o)
  BY DEF Counted
<1>4. c \in Counters /\ c # "operations"
  BY DEF Counters, Specialized
<1>5. CASE Accept(o)
  <2>1. /\ pending' = [pending EXCEPT ![o] = "accepted"] /\ journal' = journal
        /\ completed' = completed /\ used'[c] = used[c]
    BY <1>4, <1>5 DEF Accept, WritePending, SetPending, Consume, TypeOK
  <2>2. pending[o] \notin {"executing", "indeterminate"}
    BY <1>5 DEF Accept, CallAgrees, HeldFits, UndoFits, Standstill
  <2> QED BY <1>1, <1>2, <2>1, <2>2, Balance DEF PendingStatus
<1>6. CASE PersistExecuting(o)
  <2>1. /\ pending' = [pending EXCEPT ![o] = "executing"] /\ journal' = journal
        /\ completed' = completed /\ used' = Consume(used, SpecializedBudgetCounter(o))
    BY <1>6 DEF PersistExecuting, WritePending, SetPending
  <2>2. pending[o] = "accepted" /\ o \notin completed
    BY <1>6 DEF PersistExecuting, CallAgrees, SettledOnce
  <2>3. used'[c] = IF o \in Counted(c) THEN used[c] + 1 ELSE used[c]
    BY <1>3, <1>4, <2>1 DEF Consume
  <2> QED BY <1>1, <1>2, <2>1, <2>2, <2>3, Balance DEF PendingStatus
<1>7. CASE PersistUnstarted(o) \/ RefundUnstarted(o)
  <2>1. /\ pending' = [pending EXCEPT ![o] = "accepted"] /\ journal' = journal
        /\ completed' = completed
        /\ used' = IF pending[o] = "executing"
                   THEN Refund(used, SpecializedBudgetCounter(o)) ELSE used
    BY <1>7 DEF PersistUnstarted, RefundUnstarted, WritePending, SetPending
  <2>2. pending[o] \in {"accepted", "executing"} /\ o \notin completed
    BY <1>7 DEF PersistUnstarted, RefundUnstarted, EndingFits, SettledOnce
  <2>3. used'[c] = IF pending[o] = "executing" /\ o \in Counted(c)
                   THEN used[c] - 1 ELSE used[c]
    BY <1>3, <1>4, <2>1 DEF Refund
  <2> QED BY <1>1, <1>2, <2>1, <2>2, <2>3, Balance DEF PendingStatus
<1>8. CASE HoldUncertain(o) \/ HoldIndeterminate(o)
  <2>1. /\ pending' = [pending EXCEPT ![o] = "indeterminate"] /\ journal' = journal
        /\ completed' = completed /\ used' = used
    BY <1>8 DEF HoldUncertain, HoldIndeterminate, WritePending, SetPending
  <2>2. pending[o] # "none" /\ o \notin completed
    BY <1>8 DEF HoldUncertain, HoldIndeterminate, Undecided, SettledOnce
  <2> QED BY <1>1, <1>2, <2>1, <2>2, Balance DEF PendingStatus
<1>9. CASE ApplyRecovered(o)
  <2>1. /\ Settle(o) /\ journal' = journal /\ used' = UseWhenSettled(o)
        /\ journal[o].status \in {"completed", "failed"}
        /\ pending[o] \in {"accepted", "executing"}
    BY <1>9 DEF ApplyRecovered, Undecided
  <2> QED BY <2>1, SettlingBalances
<1>10. CASE ReplaySettled(o)
  <2>1. /\ Settle(o) /\ journal' = journal /\ used' = UseWhenSettled(o)
        /\ journal[o].status \in {"completed", "failed"} /\ pc = "next" /\ ~ Terminal(o)
        /\ pending[o] # "none" \/ o \in unreturned
    BY <1>10 DEF ReplaySettled, Settled
  <2>2. /\ pending[o] # "indeterminate"
        /\ pending[o] # "none" \/ (o \in completed /\ ~ Terminal(o))
    BY <2>1 DEF HeldFits, Standstill, OwedFits
  <2> QED BY <2>1, <2>2, SettlingBalances
<1>11. CASE SettleCall(o) \/ OverrunCall(o)
  <2>1. /\ Settle(o) /\ journal' = journal /\ pc = "journaled" /\ At(o)
        /\ used' = UseWhenSettled(o) \/ (used' = used /\ NewEffect(o))
    BY <1>11 DEF SettleCall, OverrunCall
  <2>2. /\ pending[o] \notin {"none", "indeterminate"}
        /\ journal[o].status \in {"completed", "failed"}
    BY <2>1 DEF HeldFits, Standstill, CallAgrees, SettledOnce
  <2>3. NewEffect(o) => ~ NeverSpawned(o)
    BY DEF NewEffect, NeverSpawned
  <2> QED BY <2>1, <2>2, <2>3, SettlingBalances
<1>12. CASE ReplayOverrun(o)
  <2>1. UNCHANGED <<pending, completed, journal, used>>
    BY <1>12 DEF ReplayOverrun
  <2> QED BY <2>1 DEF Balanced, Charged, Open, Counted
<1> QED BY <1>5, <1>6, <1>7, <1>8, <1>9, <1>10, <1>11, <1>12 DEF Accounting

-----------------------------------------------------------------------------
(* The counters of operations and of effects *)

Tracked == completed \cup {o \in Op : pending[o] # "none"}

\* Every step that writes an account keeps the operation counter at the number
\* of operations tracked: it moves when one comes to be tracked, which happens
\* once.
LEMMA OperationsKept ==
  ASSUME TypeOK, OperationsCharged, NEW o \in Op, Accounting(o),
         CallAgrees(o), SettledOnce(o), UndoFits(o), OwedFits(o), EndingFits(o)
  PROVE  OperationsCharged'
<1> USE DEF Goto
<1>1. IsFiniteSet(Tracked) /\ used["operations"] = Cardinality(Tracked)
  <2>1. Tracked \in SUBSET Op /\ IsFiniteSet(Op)
    BY ToolAssumption DEF Tracked, TypeOK
  <2> QED BY <2>1, FS_Subset DEF OperationsCharged, Tracked
<1>2. SUFFICES used'["operations"] = Cardinality(Tracked')
  BY DEF OperationsCharged, Tracked
<1>3. CASE Accept(o)
  <2>1. /\ pending' = [pending EXCEPT ![o] = "accepted"] /\ completed' = completed
        /\ used' = IF o \in Tracked THEN used ELSE Consume(used, {"operations"})
    BY <1>3 DEF Accept, WritePending, SetPending, Tracked
  <2>2. Tracked' = Tracked \cup {o}
    BY <2>1 DEF Tracked, TypeOK
  <2>3. used'["operations"] = IF o \in Tracked THEN used["operations"]
                              ELSE used["operations"] + 1
    BY <2>1 DEF Consume, Counters
  <2>4. Cardinality(Tracked \cup {o}) = IF o \in Tracked THEN Cardinality(Tracked)
                                       ELSE Cardinality(Tracked) + 1
    BY <1>1, FS_AddElement
  <2> HIDE DEF Tracked
  <2> QED BY <1>1, <2>2, <2>3, <2>4
<1>4. CASE \/ PersistExecuting(o) \/ PersistUnstarted(o) \/ RefundUnstarted(o)
           \/ HoldUncertain(o) \/ HoldIndeterminate(o)
  <2>1. PICK s \in {"accepted", "executing", "indeterminate"} :
          pending' = [pending EXCEPT ![o] = s] /\ completed' = completed
    BY <1>4 DEF PersistExecuting, PersistUnstarted, RefundUnstarted, HoldUncertain,
                HoldIndeterminate, WritePending, SetPending
  <2>2. used'["operations"] = used["operations"]
    BY <1>4 DEF PersistExecuting, PersistUnstarted, RefundUnstarted, HoldUncertain,
                HoldIndeterminate, Consume, Refund, Counters, SpecializedBudgetCounter
  <2>3. pending[o] # "none"
    BY <1>4 DEF PersistExecuting, PersistUnstarted, RefundUnstarted, HoldUncertain,
                HoldIndeterminate, Undecided, CallAgrees, EndingFits, UndoFits
  <2>4. Tracked' = Tracked
    BY <2>1, <2>3 DEF Tracked, TypeOK
  <2> QED BY <1>1, <2>2, <2>4
<1>5. CASE ApplyRecovered(o) \/ ReplaySettled(o) \/ SettleCall(o) \/ OverrunCall(o)
  <2>1. /\ pending' = [pending EXCEPT ![o] = "none"] /\ completed' = completed \cup {o}
        /\ used' \in {used, UseWhenSettled(o)}
    BY <1>5 DEF ApplyRecovered, ReplaySettled, SettleCall, OverrunCall, Settle,
              SetPending
  <2>2. o \in Tracked
    BY <1>5 DEF ApplyRecovered, ReplaySettled, SettleCall, OverrunCall, Undecided,
                SettledOnce, OwedFits, Tracked
  <2>3. used'["operations"] = used["operations"]
    BY <2>1 DEF UseWhenSettled, Consume, Refund, Counters
  <2>4. Tracked' = Tracked
    BY <2>1, <2>2 DEF Tracked, TypeOK
  <2> QED BY <1>1, <2>3, <2>4
<1>6. CASE ReplayOverrun(o)
  BY <1>1, <1>6 DEF ReplayOverrun, Tracked
<1> QED BY <1>3, <1>4, <1>5, <1>6 DEF Accounting

\* Settling an operation records its effect before or together with charging it.
LEMMA EffectRecorded ==
  ASSUME TypeOK, EffectsAccounted, NEW o \in Op, RecordEffect(o), journal' = journal,
         completed' \in {completed, completed \cup {o}},
         used' \in {used, UseWhenSettled(o)}
  PROVE  EffectsAccounted'
<1>1. IsFiniteSet(recorded)
  BY ToolAssumption, FS_Subset DEF TypeOK
<1>2. PICK n \in Nat : n = Cardinality(recorded)
  BY <1>1, FS_CardinalityType
<1>3. used["effects"] \in Int /\ used["effects"] <= n
  BY <1>2 DEF TypeOK, Counters, EffectsAccounted
<1>4. CASE NewEffect(o)
  <2>1. recorded' = recorded \cup {o} /\ o \notin recorded
    BY <1>4 DEF RecordEffect, NewEffect
  <2>2. Cardinality(recorded') = n + 1
    BY <1>1, <1>2, <2>1, FS_AddElement
  <2>3. used'["effects"] \in {used["effects"], used["effects"] + 1}
    BY DEF UseWhenSettled, Consume, Refund, Counters
  <2>4. used'["effects"] <= Cardinality(recorded')
    BY <1>3, <2>2, <2>3
  <2>5. ASSUME NEW p \in completed', journal'[p].how = "effect" PROVE p \in recorded'
    BY <2>1, <2>5 DEF EffectsAccounted
  <2> QED BY <2>4, <2>5 DEF EffectsAccounted
<1>5. CASE ~ NewEffect(o)
  <2>1. recorded' = recorded
    BY <1>5 DEF RecordEffect
  <2>2. used'["effects"] = used["effects"]
    BY <1>5 DEF UseWhenSettled, Refund, Counters
  <2>3. ASSUME NEW p \in completed', journal'[p].how = "effect" PROVE p \in recorded'
    BY <1>5, <2>1, <2>3 DEF EffectsAccounted, NewEffect
  <2> QED BY <1>2, <1>3, <2>1, <2>2, <2>3 DEF EffectsAccounted
<1> QED BY <1>4, <1>5

\* Every step that writes an account keeps effects accounted for.
LEMMA EffectsKept ==
  ASSUME TypeOK, EffectsAccounted, NEW o \in Op, Accounting(o)
  PROVE  EffectsAccounted'
<1> USE DEF records, Goto
<1>1. CASE \/ Accept(o) \/ PersistExecuting(o) \/ PersistUnstarted(o)
           \/ RefundUnstarted(o) \/ HoldUncertain(o) \/ HoldIndeterminate(o)
  <2>1. UNCHANGED <<journal, completed, recorded>>
    BY <1>1 DEF Accept, PersistExecuting, PersistUnstarted, RefundUnstarted,
                HoldUncertain, HoldIndeterminate, WritePending
  <2>2. used'["effects"] = used["effects"]
    BY <1>1 DEF Accept, PersistExecuting, PersistUnstarted, RefundUnstarted,
                HoldUncertain, HoldIndeterminate, Consume, Refund, Counters,
                SpecializedBudgetCounter
  <2> QED BY <2>1, <2>2 DEF EffectsAccounted
<1>2. CASE ApplyRecovered(o) \/ ReplaySettled(o) \/ SettleCall(o) \/ OverrunCall(o)
  <2>1. /\ RecordEffect(o) /\ journal' = journal /\ completed' = completed \cup {o}
        /\ used' \in {used, UseWhenSettled(o)}
    BY <1>2 DEF ApplyRecovered, ReplaySettled, SettleCall, OverrunCall, Settle
  <2> QED BY <2>1, EffectRecorded
<1>3. CASE ReplayOverrun(o)
  <2>1. RecordEffect(o) /\ journal' = journal /\ completed' = completed /\ used' = used
    BY <1>3 DEF ReplayOverrun
  <2> QED BY <2>1, EffectRecorded
<1> QED BY <1>1, <1>2, <1>3 DEF Accounting

-----------------------------------------------------------------------------
(* The invariant and what follows from it *)

\* The session begins with nothing tracked, charged or owed.
LEMMA AccountsInit == Init => AccountsInv
<1> SUFFICES ASSUME Init PROVE AccountsInv
  OBVIOUS
<1>1. IInv
  BY InitInv
<1>2. AccountsFit
  BY DEF Init, AccountsFit, ReplyFits, TerminalAlone, OwedFits, HeldFits,
              EndingFits,
         UndoFits, Calling, PcInCall
<1>3. \A c \in Counters : used[c] = 0
  BY DEF Init
<1>4. Cardinality({}) = 0
  BY FS_EmptySet
<1>5. OperationsCharged
  <2>1. completed \cup {o \in Op : pending[o] # "none"} = {}
    BY DEF Init
  <2> QED BY <1>3, <1>4, <2>1 DEF OperationsCharged, Counters
<1>6. SpecializedCharged
  <2>1. ASSUME NEW c \in Specialized PROVE Balanced(c)
    <3>1. Charged(c) = {} /\ Charged(c) \cup Open(c) = {}
      BY DEF Init, Charged, Open, Counted
    <3>2. used[c] = 0
      BY <1>3 DEF Counters, Specialized
    <3> QED BY <1>4, <3>1, <3>2 DEF Balanced
  <2> QED BY <2>1, BalanceOfEach
<1>7. EffectsAccounted
  <2>1. recorded = {} /\ completed = {}
    BY DEF Init
  <2> QED BY <1>3, <1>4, <2>1 DEF EffectsAccounted, Counters
<1> QED BY <1>1, <1>2, <1>5, <1>6, <1>7 DEF AccountsInv, CountersAgree

\* Every step keeps the places of the reply and of what is in flight of it.
LEMMA FitStep == IInv /\ AccountsFit /\ [Next]_vars => AccountsFit'
<1> SUFFICES ASSUME IInv, AccountsFit, [Next]_vars PROVE AccountsFit'
  OBVIOUS
<1>1. TypeOK /\ StatusFits /\ ReplyFits
  BY DEF IInv, AccountsFit
<1>2. ReplyFits'
  BY <1>1, ReplyStep
<1>3. ASSUME NEW p \in Op
      PROVE  (/\ TerminalAlone(p) /\ OwedFits(p) /\ HeldFits(p) /\ EndingFits(p)
              /\ UndoFits(p))'
  <2>1. RecordsAgree(p) /\ CallAgrees(p) /\ SettledOnce(p)
    BY DEF IInv
  <2>2. TerminalAlone(p) /\ OwedFits(p) /\ HeldFits(p) /\ EndingFits(p) /\ UndoFits(p)
    BY DEF AccountsFit
  <2>3. TerminalAlone(p)'
    BY <1>1, <2>1, <2>2, AloneStep
  <2>4. OwedFits(p)'
    BY <1>1, <2>2, OwedStep
  <2>5. HeldFits(p)'
    BY <1>1, <2>1, <2>2, HeldStep
  <2>6. EndingFits(p)'
    BY <1>1, <2>1, <2>2, EndingStep
  <2>7. UndoFits(p)'
    BY <1>1, <2>1, <2>2, UndoStep
  <2> QED BY <2>3, <2>4, <2>5, <2>6, <2>7
<1> QED BY <1>2, <1>3 DEF AccountsFit

\* Every step keeps the counters in agreement with the records.
LEMMA CountersStep == AccountsInv /\ [Next]_vars => CountersAgree'
<1> SUFFICES ASSUME AccountsInv, [Next]_vars PROVE CountersAgree'
  OBVIOUS
<1>1. /\ TypeOK /\ StatusFits
      /\ \A p \in Op : RecordsAgree(p) /\ CallAgrees(p) /\ SettledOnce(p)
  BY DEF AccountsInv, IInv
<1>2. \A p \in Op : /\ TerminalAlone(p) /\ OwedFits(p) /\ HeldFits(p) /\ EndingFits(p)
                    /\ UndoFits(p)
  BY DEF AccountsInv, AccountsFit
<1>3. OperationsCharged /\ SpecializedCharged /\ EffectsAccounted
  BY DEF AccountsInv, CountersAgree
<1>4. CASE \E o \in Op : Accounting(o)
  <2>1. PICK o \in Op : Accounting(o)
    BY <1>4
  <2>2. OperationsCharged' /\ EffectsAccounted'
    BY <1>1, <1>2, <1>3, <2>1, OperationsKept, EffectsKept
  <2>3. ASSUME NEW c \in Specialized PROVE Balanced(c)'
    <3>1. Balanced(c)
      BY <1>3, BalanceOfEach
    <3> QED BY <1>1, <1>2, <2>1, <3>1, BalanceKept
  <2>4. SpecializedCharged'
    BY <2>3 DEF SpecializedCharged, Specialized, Balanced, Charged, Open, Counted
  <2> QED BY <2>2, <2>4 DEF CountersAgree
<1>5. CASE ~ \E o \in Op : Accounting(o)
  <2>1. UNCHANGED <<pending, completed, recorded, used>>
    BY <1>5, OthersQuiet
  <2>2. ASSUME NEW p \in completed PROVE journal'[p] = journal[p]
    BY <1>1, <2>2, SettledRecordStays DEF TypeOK
  <2>3. OperationsCharged'
    BY <1>3, <2>1 DEF OperationsCharged
  <2>4. EffectsAccounted'
    BY <1>3, <2>1, <2>2 DEF EffectsAccounted
  <2>5. ASSUME NEW c \in Specialized PROVE Balanced(c)'
    <3>1. Balanced(c)
      BY <1>3, BalanceOfEach
    <3>2. Charged(c)' = Charged(c) /\ Open(c)' = Open(c)
      BY <2>1, <2>2 DEF Charged, Open, Counted
    <3> QED BY <2>1, <3>1, <3>2 DEF Balanced
  <2>6. SpecializedCharged'
    BY <2>5 DEF SpecializedCharged, Specialized, Balanced, Charged, Open, Counted
  <2> QED BY <2>3, <2>4, <2>6 DEF CountersAgree
<1> QED BY <1>4, <1>5

\* The strengthening: the records of ToolExecutionProofs, the place of what is
\* in flight, and the accounts.
LEMMA AccountsInvariance == Spec => []AccountsInv
<1>1. AccountsInv /\ [Next]_vars => AccountsInv'
  BY StepInv, FitStep, CountersStep DEF AccountsInv
<1> QED BY <1>1, AccountsInit, PTL DEF Spec

\* A result that is owed to the model can be delivered by replaying the stored
\* reply: the calls of that reply are all that can be owed (agent-runtime.ts,
\* unreturnedOperationIds, queueOutbound).
THEOREM OwedResultsDeliverable == Spec => []OwedResultsReplayable
<1>1. AccountsInv => OwedResultsReplayable
  <2>1. ASSUME AccountsInv, NEW o \in unreturned PROVE InReply(o)
    <3>1. o \in Op /\ OwedFits(o)
      BY <2>1 DEF AccountsInv, AccountsFit, IInv, TypeOK
    <3> QED BY <3>1 DEF OwedFits
  <2> QED BY <2>1 DEF OwedResultsReplayable
<1> QED BY <1>1, AccountsInvariance, PTL

\* The budget agrees with the records over every crash, replay and refund: each
\* operation is counted once, each use that was set going is charged, and no
\* effect is charged without being recorded (budgets.ts; agent-runtime.ts,
\* recordToolEffects and executeCall).
THEOREM CountersHold == Spec => []CountersAgree
<1>1. AccountsInv => CountersAgree
  BY DEF AccountsInv
<1> QED BY <1>1, AccountsInvariance, PTL
====
