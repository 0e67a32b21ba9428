---- MODULE ToolExecution ----
(***************************************************************************)
(* How the agent runtime carries out the tool calls of one model reply and *)
(* how it takes them up again after a crash or an interruption:            *)
(* executeCalls, executeCall and findUncertainMutation of                  *)
(* src/orchestrator/agent-runtime.ts over the operation journal of         *)
(* src/session/operation-journal.ts.                                       *)
(*                                                                         *)
(* Three records outlive the process: the session record (rewritten as a   *)
(* whole by every persist), the journal (one record per operation) and the *)
(* artifacts (the cached reply, the decision of a capability prompt, the   *)
(* receipts of a terminal command).  A step of this module is one write of *)
(* one of them or one external effect, so that a crash can fall between    *)
(* any two.  What the code changes in memory only and persists later (the  *)
(* counters) changes here in the step that persists it: nothing else reads *)
(* it in between, and a crash discards it.                                 *)
(***************************************************************************)
EXTENDS Integers, Sequences, FiniteSets, SessionLifecycle

CONSTANTS
  Op,             \* operation identifiers the model may use
  Tool,           \* the tool each identifier stands for
  MaxBatch,       \* calls in one reply
  MaxCrashes,     \* bound on crashes in a behaviour
  MaxInterrupts,  \* bound on pause and abort requests
  MaxFaults,      \* bound on failed writes of a journal record or an artifact
  MaxRaises       \* bound on budget raises the operator grants

Tools == {"list_files", "read_file", "apply_patch", "run_command", "terminal_exec"}

ASSUME ToolAssumption ==
  /\ Tool \in [Op -> Tools]
  /\ IsFiniteSet(Op)

ASSUME BoundAssumption ==
  /\ MaxBatch \in Nat \ {0}
  /\ MaxCrashes \in Nat
  /\ MaxInterrupts \in Nat
  /\ MaxFaults \in Nat
  /\ MaxRaises \in Nat

VARIABLES
  \* session.json
  status,       \* lifecycle status
  pending,      \* pendingOperations: status of each operation in flight
  completed,    \* completedOperationIds
  unreturned,   \* unreturnedOperationIds: settled, result not yet queued
  recorded,     \* operations with an entry in mutations or validations
  used,         \* budgetUsage
  \* the other durable records
  journal,      \* operation journal: lifecycle status and how it ended
  evidence,     \* terminal artifacts of each operation
  decision,     \* decision artifact of each operation's capability prompt
  reply,        \* calls of the answered, not yet consumed response; <<>> if none
  \* the process
  pc,           \* where the runtime is; "down" between processes
  at,           \* index in reply of the call being executed
  intr,         \* interruption recorded in this process
  declared,     \* this resume was told of a power or storage loss
  \* environment and history
  lost,         \* artifacts were lost and the operator has yet to say so
  runs,         \* times each tool's side effects were set going
  crashes, interrupts, faults, raises

session == <<status, pending, completed, unreturned, recorded, used>>
process == <<pc, at, intr, declared>>
records == <<journal, evidence, decision, reply>>
world   == <<lost, runs, crashes, interrupts, faults, raises>>
vars == <<session, records, process, world>>

-----------------------------------------------------------------------------
(* Operations and counters *)

Mutating(o) == Tool[o] \notin {"list_files", "read_file"}
Terminal(o) == Tool[o] = "terminal_exec"

Counters == {"operations", "commands", "readFiles", "effects"}

SpecializedBudgetCounter(o) ==
  CASE Tool[o] \in {"run_command", "terminal_exec"} -> {"commands"}
    [] Tool[o] = "read_file"                        -> {"readFiles"}
    [] OTHER                                        -> {}

Consume(u, cs) == [c \in Counters |-> IF c \in cs THEN u[c] + 1 ELSE u[c]]
Refund(u, cs)  == [c \in Counters |-> IF c \in cs THEN u[c] - 1 ELSE u[c]]

PendingStatus == {"none", "accepted", "executing", "indeterminate"}
\* "torn": a crash inside writeNew left a partial first record.
JournalStatus == {"absent", "torn", "accepted", "executing", "completed", "failed",
                  "indeterminate"}

\* How a settled operation ended, as far as its safeResult tells: refused
\* before execution; never launched; launched but not spawned; ran without or
\* with an effect to account for; ran while its outcome could not be recorded.
Ending == {"none", "denied", "prelaunch", "unspawned", "clean", "effect", "unrecorded"}

\* Terminal artifacts in the order they are written (the observations go with
\* the receipt that follows them), and the verdict the exit receipt records.
Stage == 0..4
NoEvidence == 0
RequestStored == 1
LaunchReceipt == 2
ExitReceipt == 3
ResultStored == 4

Replies == {r \in UNION {[1..n -> Op] : n \in 1..MaxBatch} :
              \A i, j \in DOMAIN r : r[i] = r[j] => i = j}

Sequenced(r) == Len(r) = 1 \/ \A i \in DOMAIN r : ~ Mutating(r[i])

InReply(o) == \E i \in DOMAIN reply : reply[i] = o

PcInCall == {"registered", "accepted", "asking", "decided", "allowed", "refused",
             "marked", "armed", "unarm", "launching", "running", "journaled",
             "uncertain"}
Pc == PcInCall \cup {"down", "startup", "recover", "await", "reply", "next",
                     "returning", "overrun", "notice", "noticed", "halting",
                     "leaving"}

At(o) == at \in DOMAIN reply /\ reply[at] = o

SetJournal(o, s, how) == journal' = [journal EXCEPT ![o] = [status |-> s, how |-> how]]
SetPending(o, s) == pending' = [pending EXCEPT ![o] = s]
SetEvidence(o, s, v) == evidence' = [evidence EXCEPT ![o] = [stage |-> s, verdict |-> v]]
Goto(p) == pc' = p

\* Most steps are one write of one record, after which the process stands at p.
GoOn(p) == Goto(p) /\ UNCHANGED <<session, records, at, intr, declared, world>>

MoveStatus(s, p) ==
  /\ status' = s /\ Goto(p)
  /\ UNCHANGED <<pending, completed, unreturned, recorded, used>>
  /\ UNCHANGED <<records, at, intr, declared, world>>

WritePending(o, s, p) ==
  /\ SetPending(o, s) /\ Goto(p)
  /\ UNCHANGED <<status, completed, unreturned, recorded>>
  /\ UNCHANGED <<records, at, intr, declared, world>>

WriteJournal(o, s, how, p) ==
  /\ SetJournal(o, s, how) /\ Goto(p)
  /\ UNCHANGED <<session, evidence, decision, reply, at, intr, declared, world>>

WriteEvidence(o, s, v, p) ==
  /\ SetEvidence(o, s, v) /\ Goto(p)
  /\ UNCHANGED <<session, journal, decision, reply, at, intr, declared, world>>

ProcessEnds == Goto("down") /\ at' = 1 /\ intr' = "none" /\ declared' = FALSE

TypeOK ==
  /\ status \in Status
  /\ pending \in [Op -> PendingStatus]
  /\ completed \in SUBSET Op
  /\ unreturned \in SUBSET Op
  /\ recorded \in SUBSET Op
  /\ used \in [Counters -> Int]
  /\ journal \in [Op -> [status : JournalStatus, how : Ending]]
  /\ evidence \in [Op -> [stage : Stage, verdict : Ending]]
  /\ decision \in [Op -> {"none", "allow", "deny"}]
  /\ reply \in Seq(Op)
  /\ pc \in Pc
  /\ at \in Nat
  /\ intr \in {"none", "paused", "aborted"}
  /\ declared \in BOOLEAN
  /\ lost \in BOOLEAN
  /\ runs \in [Op -> Nat]
  /\ crashes \in 0..MaxCrashes
  /\ interrupts \in 0..MaxInterrupts
  /\ faults \in 0..MaxFaults
  /\ raises \in 0..MaxRaises

\* New session publication persists grant_pending before anything else of it
\* can be resumed.
Init ==
  /\ status = "grant_pending"
  /\ pending = [o \in Op |-> "none"]
  /\ completed = {} /\ unreturned = {} /\ recorded = {}
  /\ used = [c \in Counters |-> 0]
  /\ journal = [o \in Op |-> [status |-> "absent", how |-> "none"]]
  /\ evidence = [o \in Op |-> [stage |-> NoEvidence, verdict |-> "none"]]
  /\ decision = [o \in Op |-> "none"]
  /\ reply = <<>>
  /\ pc = "down" /\ at = 1 /\ intr = "none" /\ declared = FALSE
  /\ lost = FALSE /\ runs = [o \in Op |-> 0]
  /\ crashes = 0 /\ interrupts = 0 /\ faults = 0 /\ raises = 0

-----------------------------------------------------------------------------
(* Startup: advanceStartup and findUncertainMutation *)

\* Mutant: an interrupted tool turn is resumed without passing by recovering.
StartupNextSkipsRecovery ==
  [grant_pending         |-> "transport_starting",
   transport_starting    |-> "initializing_model",
   paused                |-> "recovering",
   executing_tools       |-> "awaiting_model",
   returning_results     |-> "recovering",
   awaiting_user         |-> "recovering",
   validating_completion |-> "recovering"]

StartupNext ==
  [grant_pending         |-> "transport_starting",
   transport_starting    |-> "initializing_model",
   paused                |-> "recovering",
   executing_tools       |-> "recovering",
   returning_results     |-> "recovering",
   awaiting_user         |-> "recovering",
   validating_completion |-> "recovering"]

\* An operator who knows of a power or storage loss says so on resume.
Resume(d) ==
  /\ pc = "down" /\ status \notin TerminalStatus
  /\ lost => d
  /\ declared' = d
  /\ Goto("startup")
  /\ UNCHANGED <<session, records, at, intr, world>>

StartupMove ==
  /\ pc = "startup" /\ status \in DOMAIN StartupNext
  /\ MoveStatus(StartupNext[status], pc)

StartupScan ==
  /\ pc = "startup" /\ status \notin DOMAIN StartupNext
  /\ GoOn("recover")

\* Mutant: every executing operation counts as not begun.
RevertAnyUnstarted(o) ==
  /\ pc = "recover" /\ journal[o].status = "executing"
  /\ pending[o] \in {"accepted", "executing"}
  /\ WriteJournal(o, "accepted", "none", pc)

\* The operation was marked executing but nothing of it can have run: it was
\* not dispatched (the session never said executing), or it only reads.
RevertUnstarted(o) ==
  /\ pc = "recover" /\ journal[o].status = "executing"
  /\ \/ pending[o] = "accepted"
     \/ pending[o] = "executing" /\ ~ Mutating(o)
  /\ WriteJournal(o, "accepted", "none", pc)

RefundUnstarted(o) ==
  /\ pc = "recover" /\ journal[o].status = "accepted" /\ pending[o] = "executing"
  /\ used' = Refund(used, SpecializedBudgetCounter(o))
  /\ WritePending(o, "accepted", pc)

\* A terminal command in flight, neither side of which is known uncertain.
Undecided(o) ==
  /\ pc = "recover" /\ Terminal(o)
  /\ pending[o] \in {"accepted", "executing"}
  /\ journal[o].status \in {"executing", "completed", "failed"}
  /\ journal[o].status = "executing" => pending[o] = "executing"

HasResult(o) == evidence[o].stage = ResultStored

\* Mutant: a missing receipt proves no launch even after a storage loss.
ProvesNoLaunchAlways(o) ==
  /\ evidence[o].stage < LaunchReceipt
  /\ journal[o].status = "executing" \/ journal[o].how = "prelaunch"

\* terminalEvidenceProvesNoLaunch: receipts are trusted to be missing because
\* they were never written only if no storage loss was declared.
ProvesNoLaunch(o) ==
  /\ ~ declared
  /\ evidence[o].stage < LaunchReceipt
  /\ journal[o].status = "executing" \/ journal[o].how = "prelaunch"

PromoteTerminal(o) ==
  /\ Undecided(o) /\ HasResult(o) /\ journal[o].status = "executing"
  /\ WriteJournal(o, "completed", evidence[o].verdict, pc)

RecordPrelaunch(o) ==
  /\ Undecided(o) /\ ProvesNoLaunch(o) /\ journal[o].status = "executing"
  /\ WriteJournal(o, "failed", "prelaunch", pc)

MarkTerminalUncertain(o) ==
  /\ Undecided(o) /\ ~ HasResult(o) /\ ~ ProvesNoLaunch(o)
  /\ journal[o].status = "executing"
  /\ WriteJournal(o, "indeterminate", "none", "uncertain")

\* A stored result whose journal record says failed is refused.
RefuseTerminalConflict(o) ==
  /\ Undecided(o) /\ HasResult(o) /\ journal[o].status = "failed"
  /\ GoOn("halting")

\* Every other mutation that may have begun is held for reconciliation.
HoldUncertain(o) ==
  /\ \/ /\ Undecided(o) /\ ~ HasResult(o) /\ ~ ProvesNoLaunch(o)
        /\ journal[o].status \in {"completed", "failed"}
     \/ /\ pc = "recover" /\ Mutating(o) /\ ~ Terminal(o)
        /\ pending[o] \in {"executing", "indeterminate"}
        /\ journal[o].status \in {"executing", "indeterminate"}
  /\ used' = used
  /\ WritePending(o, "indeterminate", "halting")

PauseUncertain(o) ==
  /\ pc = "recover" /\ Terminal(o) /\ pending[o] # "none"
  /\ "indeterminate" \in {pending[o], journal[o].status}
  /\ GoOn("halting")

\* Settling an operation: its application key is consumed, its result owed to
\* the model and its effect recorded and charged, all in one persist.
Settle(o) ==
  /\ SetPending(o, "none")
  /\ completed' = completed \cup {o}
  /\ unreturned' = unreturned \cup {o}

NewEffect(o) == journal[o].how = "effect" /\ o \notin recorded

RecordEffect(o) == recorded' = IF NewEffect(o) THEN recorded \cup {o} ELSE recorded

NeverSpawned(o) ==
  \/ journal[o].how = "unspawned"
  \/ journal[o].how = "prelaunch" /\ pending[o] = "executing"

UseWhenSettled(o) ==
  LET kept == IF NeverSpawned(o) THEN Refund(used, {"commands"}) ELSE used
  IN  IF NewEffect(o) THEN Consume(kept, {"effects"}) ELSE kept

\* applyTerminalResultEffects charges the output after the fact and only then
\* reports a limit as passed.
ApplyRecovered(o) ==
  /\ Undecided(o)
  /\ \/ journal[o].status = "completed" /\ HasResult(o)
     \/ journal[o].status = "failed" /\ ~ HasResult(o) /\ ProvesNoLaunch(o)
  /\ Settle(o) /\ RecordEffect(o) /\ used' = UseWhenSettled(o)
  /\ \/ Goto("recover")
     \/ NewEffect(o) /\ Goto("overrun")
  /\ UNCHANGED <<status, records, at, intr, declared, world>>

\* Mutant: the scan looks at the journal of terminal commands only.
RecoveredUnread(o) ==
  \/ pending[o] = "none"
  \/ pending[o] = "accepted" /\ journal[o].status = "accepted"
  \/ ~ Terminal(o)

\* findUncertainMutation goes over the pending operations once.  Here each is
\* handled until it is Recovered; handling one never takes another out of that,
\* so that both ways end in the same states.
Recovered(o) ==
  \/ pending[o] = "none"
  \/ pending[o] = "accepted" /\ journal[o].status = "accepted"
  \/ ~ Terminal(o) /\ journal[o].status \in {"completed", "failed"}

StartupDone ==
  /\ pc = "recover" /\ \A o \in Op : Recovered(o)
  /\ status' = "awaiting_model"
  /\ Goto(IF reply = <<>> THEN "await" ELSE "reply")
  /\ lost' = FALSE
  /\ UNCHANGED <<pending, completed, unreturned, recorded, used>>
  /\ UNCHANGED <<records, at, intr, declared>>
  /\ UNCHANGED <<runs, crashes, interrupts, faults, raises>>

Recover ==
  \/ StartupMove
  \/ StartupScan
  \/ StartupDone
  \/ \E o \in Op :
       \/ RevertUnstarted(o)
       \/ RefundUnstarted(o)
       \/ PromoteTerminal(o)
       \/ RecordPrelaunch(o)
       \/ MarkTerminalUncertain(o)
       \/ RefuseTerminalConflict(o)
       \/ HoldUncertain(o)
       \/ PauseUncertain(o)
       \/ ApplyRecovered(o)

-----------------------------------------------------------------------------
(* A reply and the start of a call *)

\* The exchange delivers the next response; it is cached before it is parsed.
ReceiveReply(r) ==
  /\ pc = "await" /\ intr = "none"
  /\ reply' = r
  /\ Goto("reply")
  /\ UNCHANGED <<session, journal, evidence, decision, at, intr, declared, world>>

\* Several calls in one reply must all be read-only, or none is carried out.
BeginTools ==
  /\ pc = "reply" /\ intr = "none"
  /\ status' = "executing_tools"
  /\ at' = IF Sequenced(reply) THEN 1 ELSE Len(reply) + 1
  /\ Goto("next")
  /\ UNCHANGED <<pending, completed, unreturned, recorded, used>>
  /\ UNCHANGED <<records, intr, declared, world>>

\* Mutant: a record that is there already is refused, also when it is the one an
\* earlier process made of this call.
RegisterOnce(o) ==
  /\ pc = "next" /\ At(o) /\ intr = "none"
  /\ \/ journal[o].status = "absent" /\ WriteJournal(o, "accepted", "none", "registered")
     \/ journal[o].status = "accepted" /\ GoOn("halting")

Register(o) ==
  /\ pc = "next" /\ At(o) /\ intr = "none"
  /\ journal[o].status \in {"absent", "accepted"}
  /\ WriteJournal(o, "accepted", "none", "registered")

\* The identifier was used before for another request: the session fails.
RejectReuse(o) ==
  /\ pc = "next" /\ At(o) /\ intr = "none"
  /\ journal[o].status \notin {"absent", "torn"}
  /\ pending[o] = "none" /\ o \notin unreturned
  /\ MoveStatus("failed", "leaving")

Settled(o) == pc = "next" /\ At(o) /\ intr = "none" /\ journal[o].status \in {"completed", "failed"}

\* Delivered before: denied as DUPLICATE_OPERATION.
RefuseReplay(o) ==
  /\ Settled(o) /\ pending[o] = "none" /\ o \notin unreturned
  /\ at' = at + 1
  /\ UNCHANGED <<session, records, pc, intr, declared, world>>

ReplayTerminal(o) ==
  /\ Settled(o) /\ Terminal(o) /\ o \in unreturned
  /\ journal[o].status = "completed" => HasResult(o)
  /\ at' = at + 1
  /\ UNCHANGED <<session, records, pc, intr, declared, world>>

ReplaySettled(o) ==
  /\ Settled(o) /\ ~ Terminal(o)
  /\ pending[o] # "none" \/ o \in unreturned
  /\ Settle(o) /\ RecordEffect(o) /\ used' = UseWhenSettled(o)
  /\ at' = at + 1
  /\ UNCHANGED <<status, records, pc, intr, declared, world>>

\* recordToolEffects throws on the output of a replayed run_command before the
\* operation is settled: what it had recorded by then is persisted with the
\* pause, the pending entry stays.
ReplayOverrun(o) ==
  /\ Settled(o) /\ Tool[o] = "run_command"
  /\ pending[o] # "none" /\ NewEffect(o)
  /\ RecordEffect(o)
  /\ Goto("overrun")
  /\ UNCHANGED <<status, pending, completed, unreturned, used>>
  /\ UNCHANGED <<records, at, intr, declared, world>>

\* Mutant: the counter is charged on every registration.
AcceptCharged(o) ==
  /\ pc = "registered" /\ At(o)
  /\ used' = Consume(used, {"operations"})
  /\ WritePending(o, "accepted", "accepted")

\* The operation counter is charged once, with the first session record that
\* tracks the operation.
Accept(o) ==
  /\ pc = "registered" /\ At(o)
  /\ used' = IF pending[o] # "none" \/ o \in completed THEN used
             ELSE Consume(used, {"operations"})
  /\ WritePending(o, "accepted", "accepted")

\* The operation counter is at its limit; or the room for a result that is told
\* again, reserved anew, is not there any more.
Unaffordable(o) ==
  /\ At(o)
  /\ \/ pc = "registered" /\ pending[o] = "none" /\ o \notin completed
     \/ Settled(o) /\ ~ Terminal(o) /\ (pending[o] # "none" \/ o \in unreturned)
     \/ /\ Settled(o) /\ Terminal(o) /\ o \in unreturned
        /\ journal[o].status = "completed" => HasResult(o)
  /\ GoOn("overrun")

\* A crash inside writeNew leaves a file that no later read accepts.
TearRecord(o) ==
  /\ pc = "next" /\ At(o) /\ intr = "none" /\ crashes < MaxCrashes
  /\ journal[o].status = "absent"
  /\ SetJournal(o, "torn", "none")
  /\ crashes' = crashes + 1
  /\ ProcessEnds
  /\ UNCHANGED <<session, evidence, decision, reply>>
  /\ UNCHANGED <<lost, runs, interrupts, faults, raises>>

RefuseTorn(o) ==
  /\ pc = "next" /\ At(o) /\ intr = "none" /\ journal[o].status = "torn"
  /\ GoOn("halting")

\* outcomeFromRecord finds no result behind a completed terminal record.
ReplayMissing(o) ==
  /\ Settled(o) /\ Terminal(o) /\ o \in unreturned
  /\ journal[o].status = "completed" /\ ~ HasResult(o)
  /\ GoOn("halting")

-----------------------------------------------------------------------------
(* Authorization *)

\* policy.authorize: what it decides for a call is its own matter.
Authorize(o) ==
  /\ pc = "accepted" /\ At(o) /\ intr = "none"
  /\ GoOn("allowed") \/ GoOn("refused")

\* The operator may be asked only about the single call of its reply.
Ask(o) ==
  /\ pc = "accepted" /\ At(o) /\ intr = "none" /\ Len(reply) = 1
  /\ MoveStatus("awaiting_user", "asking")

\* An answer is stored before it is used.
Decide(o) ==
  /\ pc = "asking" /\ At(o) /\ intr = "none" /\ decision[o] = "none"
  /\ \E d \in {"allow", "deny"} : decision' = [decision EXCEPT ![o] = d]
  /\ Goto("decided")
  /\ UNCHANGED <<session, journal, evidence, reply, at, intr, declared, world>>

UseCachedDecision(o) ==
  /\ pc = "asking" /\ At(o) /\ intr = "none" /\ decision[o] # "none"
  /\ GoOn("decided")

\* An approved call is authorized again, and may still be refused.
AfterDecision(o) ==
  /\ pc = "decided" /\ At(o) /\ intr = "none"
  /\ \/ decision[o] = "allow" /\ MoveStatus("executing_tools", "allowed")
     \/ MoveStatus("executing_tools", "refused")

\* Refused by policy or by the operator, or allowed but over a budget that is
\* reserved before execution.
Refuse(o) ==
  /\ pc \in {"refused", "allowed"} /\ At(o) /\ intr = "none"
  /\ WriteJournal(o, "failed", "denied", "journaled")

\* No room in the session record for the effects of a terminal command.
HeadroomExhausted(o) ==
  /\ pc = "allowed" /\ At(o) /\ intr = "none" /\ Terminal(o)
  /\ WriteJournal(o, "failed", "prelaunch", "journaled")

-----------------------------------------------------------------------------
(* Arming: both records say executing before anything runs *)

MarkExecuting(o) ==
  /\ pc = "allowed" /\ At(o) /\ intr = "none"
  /\ WriteJournal(o, "executing", "none", "marked")

PersistExecuting(o) ==
  /\ pc = "marked" /\ At(o) /\ intr = "none"
  /\ used' = Consume(used, SpecializedBudgetCounter(o))
  /\ WritePending(o, "executing", "armed")

\* restoreUnstartedOperation: the journal goes back first, then the session.
RestoreUnstarted(o) ==
  /\ pc \in {"marked", "armed"} /\ At(o) /\ intr # "none"
  /\ WriteJournal(o, "accepted", "none", "unarm")

PersistUnstarted(o) ==
  /\ pc = "unarm" /\ At(o)
  /\ used' = IF pending[o] = "executing"
             THEN Refund(used, SpecializedBudgetCounter(o)) ELSE used
  /\ WritePending(o, "accepted", "halting")

SetGoing(o) ==
  /\ runs' = [runs EXCEPT ![o] = @ + 1]
  /\ Goto("running")
  /\ UNCHANGED <<session, records, at, intr, declared>>
  /\ UNCHANGED <<lost, crashes, interrupts, faults, raises>>

Dispatch(o) ==
  /\ pc = "armed" /\ At(o) /\ intr = "none" /\ ~ Terminal(o)
  /\ SetGoing(o)

-----------------------------------------------------------------------------
(* A terminal command leaves evidence of each step of its execution *)

DispatchTerminal(o) ==
  /\ pc = "armed" /\ At(o) /\ intr = "none" /\ Terminal(o)
  /\ GoOn("launching")

PersistRequest(o) ==
  /\ pc = "launching" /\ At(o) /\ evidence[o].stage = NoEvidence
  /\ WriteEvidence(o, RequestStored, "none", pc)

\* The pre-observation is taken and stored before the receipt.
PersistLaunch(o) ==
  /\ pc = "launching" /\ At(o) /\ evidence[o].stage = RequestStored
  /\ WriteEvidence(o, LaunchReceipt, "none", pc)

\* Rejected while preparing, observing or storing the receipt.
PrelaunchFailure(o) ==
  /\ pc = "launching" /\ At(o) /\ evidence[o].stage < LaunchReceipt
  /\ WriteJournal(o, "failed", "prelaunch", "journaled")

Spawn(o) ==
  /\ pc = "launching" /\ At(o) /\ evidence[o].stage = LaunchReceipt
  /\ SetGoing(o)

SpawnFails(o) ==
  /\ pc = "launching" /\ At(o) /\ evidence[o].stage = LaunchReceipt
  /\ WriteEvidence(o, ExitReceipt, "unspawned", "running")

PersistExit(o) ==
  /\ pc = "running" /\ At(o) /\ Terminal(o) /\ evidence[o].stage = LaunchReceipt
  /\ WriteEvidence(o, ExitReceipt, "effect", pc)

PersistResult(o) ==
  /\ pc = "running" /\ At(o) /\ evidence[o].stage = ExitReceipt
  /\ WriteEvidence(o, ResultStored, evidence[o].verdict, pc)

\* Any artifact that cannot be written leaves the outcome indeterminate.
PersistenceFailure(o) ==
  /\ pc \in {"launching", "running"} /\ At(o) /\ Terminal(o)
  /\ evidence[o].stage < ResultStored /\ faults < MaxFaults
  /\ faults' = faults + 1
  /\ SetJournal(o, "indeterminate", "none")
  /\ Goto("uncertain")
  /\ UNCHANGED <<session, evidence, decision, reply, at, intr, declared>>
  /\ UNCHANGED <<lost, runs, crashes, interrupts, raises>>

-----------------------------------------------------------------------------
(* The end of a call *)

Outcome(o) ==
  CASE Terminal(o)                -> {evidence[o].verdict}
    [] Tool[o] = "run_command"    -> {"effect"}
    [] Tool[o] = "apply_patch"    -> {"effect", "clean"}
    [] OTHER                      -> {"clean"}

Finished(o) == pc = "running" /\ At(o) /\ (Terminal(o) => HasResult(o))

Complete(o) ==
  /\ Finished(o)
  /\ \E how \in Outcome(o) : WriteJournal(o, "completed", how, "journaled")

\* The tool cannot tell whether it changed the repository, or changed more or
\* less than it was authorized to.
ReturnUncertain(o) ==
  /\ pc = "running" /\ At(o) /\ Mutating(o) /\ ~ Terminal(o)
  /\ WriteJournal(o, "indeterminate", "none", "uncertain")

\* The journal record cannot be rewritten: the catch block marks it failed.
CompletionUnrecorded(o) ==
  /\ Finished(o) /\ faults < MaxFaults
  /\ faults' = faults + 1
  /\ SetJournal(o, "failed", "unrecorded")
  /\ Goto("journaled")
  /\ UNCHANGED <<session, evidence, decision, reply, at, intr, declared>>
  /\ UNCHANGED <<lost, runs, crashes, interrupts, raises>>

SettleCall(o) ==
  /\ pc = "journaled" /\ At(o)
  /\ Settle(o) /\ RecordEffect(o) /\ used' = UseWhenSettled(o)
  /\ at' = at + 1
  /\ Goto("next")
  /\ UNCHANGED <<status, records, intr, declared, world>>

\* The output passes its limit: a terminal command is charged all the same, a
\* run_command is settled uncharged.
OverrunCall(o) ==
  /\ pc = "journaled" /\ At(o) /\ NewEffect(o)
  /\ Tool[o] \in {"run_command", "terminal_exec"}
  /\ Settle(o) /\ RecordEffect(o)
  /\ used' = IF Terminal(o) THEN UseWhenSettled(o) ELSE used
  /\ Goto("overrun")
  /\ UNCHANGED <<status, records, at, intr, declared, world>>

\* The call in hand, or the operation the startup scan stopped at.
HoldIndeterminate(o) ==
  /\ pc = "uncertain"
  /\ pending[o] # "none" /\ journal[o].status = "indeterminate"
  /\ used' = used
  /\ WritePending(o, "indeterminate", "halting")

FinishCalls ==
  /\ pc = "next" /\ at > Len(reply)
  /\ MoveStatus("returning_results", "returning")

\* queueOutbound: one persist moves the session on, queues the results and
\* stops owing them.  The cached response is dropped with it.  Results too large
\* for what is left to disclose are cut, and the session pauses for a raise.
QueueResults ==
  /\ pc = "returning"
  /\ status' = "awaiting_model"
  /\ unreturned' = {o \in unreturned : ~ InReply(o)}
  /\ reply' = <<>> /\ at' = 1
  /\ Goto("await") \/ Goto("noticed")
  /\ UNCHANGED <<pending, completed, recorded, used>>
  /\ UNCHANGED <<journal, evidence, decision, intr, declared, world>>

\* Not even the cut results may be disclosed.
ResultsUnaffordable ==
  /\ pc = "returning"
  /\ GoOn("overrun")

-----------------------------------------------------------------------------
(* A budget runs out in the middle of a reply *)

\* The operator raises the limit; the session is taken up again at once.
BudgetRaised ==
  /\ pc = "overrun" /\ intr = "none" /\ raises < MaxRaises
  /\ raises' = raises + 1
  /\ status' = "paused"
  /\ Goto("startup") /\ at' = 1
  /\ UNCHANGED <<pending, completed, unreturned, recorded, used>>
  /\ UNCHANGED <<records, intr, declared>>
  /\ UNCHANGED <<lost, runs, crashes, interrupts, faults>>

\* A source-free notice takes the place of the results.
BudgetNotice ==
  /\ pc = "overrun" /\ intr = "none"
  /\ status \in {"executing_tools", "returning_results"}
  /\ MoveStatus("returning_results", "notice")

\* Mutant: the notice replaces the results, which stay owed.
QueueNoticeStillOwing ==
  /\ pc = "notice"
  /\ status' = "awaiting_model"
  /\ reply' = <<>> /\ at' = 1
  /\ Goto("noticed")
  /\ UNCHANGED <<pending, completed, unreturned, recorded, used>>
  /\ UNCHANGED <<journal, evidence, decision, intr, declared, world>>

QueueNotice ==
  /\ pc = "notice"
  /\ status' = "awaiting_model"
  /\ unreturned' = {}
  /\ reply' = <<>> /\ at' = 1
  /\ Goto("noticed")
  /\ UNCHANGED <<pending, completed, recorded, used>>
  /\ UNCHANGED <<journal, evidence, decision, intr, declared, world>>

StoppedAs == IF intr = "aborted" THEN "aborted" ELSE "paused"

\* A second pause without a returned result in between blocks the session.
BudgetPause ==
  /\ pc \in {"overrun", "noticed"}
  /\ \E s \in {"blocked", StoppedAs} : MoveStatus(s, "leaving")

-----------------------------------------------------------------------------
(* Interruptions, the end of a process, crashes *)

\* The first pause is kept, an abort overrides it.
Interrupt(k) ==
  /\ pc \notin {"down", "startup"} /\ interrupts < MaxInterrupts
  /\ interrupts' = interrupts + 1
  /\ intr' = IF intr = "none" \/ k = "aborted" THEN k ELSE intr
  /\ UNCHANGED <<session, records, pc, at, declared>>
  /\ UNCHANGED <<lost, runs, crashes, faults, raises>>

\* Where throwIfInterrupted or its like looks at the interruption.
Interruptible == {"await", "reply", "next", "accepted", "asking", "decided",
                  "refused", "allowed", "overrun"}

Stop ==
  /\ pc = "halting" \/ (pc \in Interruptible /\ intr # "none")
  /\ MoveStatus(StoppedAs, "leaving")

\* An abort that came in during the pause still wins.
Leave ==
  /\ pc = "leaving"
  /\ status' = IF intr = "aborted" /\ status = "paused" THEN "aborted" ELSE status
  /\ ProcessEnds
  /\ UNCHANGED <<pending, completed, unreturned, recorded, used>>
  /\ UNCHANGED <<records, world>>

Crash ==
  /\ pc # "down" /\ crashes < MaxCrashes
  /\ crashes' = crashes + 1
  /\ ProcessEnds
  /\ UNCHANGED <<session, records, lost, runs, interrupts, faults, raises>>

\* A crash of the machine that takes the newest artifacts with it.
LoseArtifacts(o) ==
  /\ pc # "down" /\ crashes < MaxCrashes /\ Terminal(o)
  /\ pending[o] # "none" \/ o \in unreturned
  /\ \E s \in Stage :
       /\ s < evidence[o].stage
       /\ SetEvidence(o, s, IF s < ExitReceipt THEN "none" ELSE evidence[o].verdict)
  /\ crashes' = crashes + 1 /\ lost' = TRUE
  /\ ProcessEnds
  /\ UNCHANGED <<session, journal, decision, reply, runs, interrupts, faults, raises>>

-----------------------------------------------------------------------------
StartCall ==
  \/ BeginTools
  \/ \E o \in Op :
       \/ Register(o) \/ RefuseTorn(o) \/ Accept(o) \/ Unaffordable(o)
       \/ RefuseReplay(o) \/ ReplayTerminal(o) \/ ReplayMissing(o)
       \/ ReplaySettled(o) \/ ReplayOverrun(o)

Decision ==
  \E o \in Op :
    \/ Authorize(o) \/ Ask(o) \/ UseCachedDecision(o) \/ AfterDecision(o)
    \/ Refuse(o) \/ HeadroomExhausted(o)

Execute ==
  \E o \in Op :
    \/ MarkExecuting(o) \/ PersistExecuting(o)
    \/ RestoreUnstarted(o) \/ PersistUnstarted(o)
    \/ Dispatch(o) \/ DispatchTerminal(o)
    \/ PersistRequest(o) \/ PersistLaunch(o) \/ PrelaunchFailure(o)
    \/ Spawn(o) \/ SpawnFails(o) \/ PersistExit(o) \/ PersistResult(o)
    \/ PersistenceFailure(o)

EndCall ==
  \/ FinishCalls \/ QueueResults \/ ResultsUnaffordable
  \/ BudgetRaised \/ BudgetNotice \/ QueueNotice \/ BudgetPause
  \/ Stop \/ Leave
  \/ \E o \in Op :
       \/ Complete(o) \/ ReturnUncertain(o) \/ CompletionUnrecorded(o)
       \/ SettleCall(o) \/ OverrunCall(o) \/ HoldIndeterminate(o)

\* What the runtime does of its own accord.
Proceed == Recover \/ StartCall \/ Decision \/ Execute \/ EndCall

Environment ==
  \/ \E d \in BOOLEAN : Resume(d)
  \/ \E r \in Replies : ReceiveReply(r)
  \/ \E k \in {"paused", "aborted"} : Interrupt(k)
  \/ Crash
  \/ \E o \in Op : RejectReuse(o) \/ TearRecord(o) \/ Decide(o) \/ LoseArtifacts(o)

Next == Proceed \/ Environment

Spec == Init /\ [][Next]_vars

\* The runtime is one asynchronous loop: as long as the process lives, it takes
\* its next step.  Nothing obliges the model, the operator or the machine.
FairSpec == Spec /\ WF_vars(Proceed)

-----------------------------------------------------------------------------
(* Properties *)

\* A mutation is set going at most once, whatever crashes, pauses, replays of
\* the stored reply or losses of evidence come in between.
AtMostOnce == \A o \in Op : Mutating(o) => runs[o] <= 1

\* What the model and the review are told never understates what happened: an
\* operation settled as refused, never launched or never spawned did not run.
NotRunMeansNotRun ==
  \A o \in Op : Mutating(o) /\ journal[o].how \in {"denied", "prelaunch", "unspawned"}
                 => runs[o] = 0

\* Once startup recovery is over no mutation other than the call in hand may
\* still have an unknown outcome: the model is never asked to go on over one.
NoBlindProgress ==
  pc \notin {"down", "startup", "recover", "uncertain", "halting", "overrun", "leaving"} =>
    \A o \in Op : Mutating(o) /\ ~ (pc \in PcInCall /\ At(o)) =>
                   journal[o].status \notin {"executing", "indeterminate"}

\* A result is owed only while the reply that asked for it is still stored, so
\* that replaying that reply delivers it.
OwedResultsReplayable == \A o \in unreturned : InReply(o)

\* The operation counter counts the operations the session record has tracked,
\* each once, whatever crash or replay comes between journal and session.
OperationsCharged ==
  used["operations"] = Cardinality(completed \cup {o \in Op : pending[o] # "none"})

\* A use of a specialized counter is given back exactly when the call turns
\* out not to have been set going; only a call whose outcome is still open
\* may be on either side.
SpecializedCharged ==
  \A c \in {"commands", "readFiles"} :
    LET counted == {o \in Op : c \in SpecializedBudgetCounter(o)}
        charged == {o \in counted : pending[o] = "executing"} \cup
                   {o \in counted \cap completed :
                      journal[o].how \notin {"denied", "prelaunch", "unspawned"}}
        open    == {o \in counted : pending[o] = "indeterminate"}
    IN  /\ Cardinality(charged) <= used[c]
        /\ used[c] <= Cardinality(charged \cup open)

\* An effect is accounted for once, with its entry in mutations or validations,
\* and by the time its operation is settled.
EffectsAccounted ==
  /\ used["effects"] <= Cardinality(recorded)
  /\ \A o \in completed : journal[o].how = "effect" => o \in recorded

\* The budget agrees with the journal and the records of the session.
CountersAgree == OperationsCharged /\ SpecializedCharged /\ EffectsAccounted

\* Only moves the session state machine allows.
StatusMovesLegal == [][CanTransition(status, status')]_status

\* A result, once queued for the model, is never owed again.
ReturnedStaysReturned ==
  [][\A o \in completed \ unreturned : o \notin unreturned']_unreturned

\* An abort recorded before the process ends decides how it ends.
AbortWins ==
  [][pc = "leaving" /\ pc' = "down" /\ crashes' = crashes /\ intr = "aborted"
       => status' \in TerminalStatus]_vars

\* What a later process cannot settle by itself: an operation whose outcome is
\* unknown, a record torn by a crash, a result that contradicts its journal
\* record or was lost behind it.
HeldUp ==
  \E o \in Op :
    \/ "indeterminate" \in {pending[o], journal[o].status}
    \/ journal[o].status = "torn"
    \/ Terminal(o) /\ journal[o].status = "failed" /\ HasResult(o)
    \/ Terminal(o) /\ journal[o].status = "completed" /\ ~ HasResult(o)

\* An operator who goes on resuming the session and answering its questions, and
\* a budget that holds out in the end.
KeptAlive ==
  /\ WF_vars(\E d \in BOOLEAN : Resume(d))
  /\ WF_vars(\E o \in Op : Decide(o))
  /\ <>[](pc # "overrun")

\* Wherever a process dies, what it leaves in journal, artifacts and session
\* record is a state the next ones get on from: a stored reply is carried out to
\* the queueing of its results, unless the session ends or is held up by an
\* outcome nobody knows.  No call is met at every resume in a state that startup
\* does not settle and the replay of the reply (agent-runtime.ts:2296-2368) does
\* not accept.
RepliesGetThrough ==
  KeptAlive => [](reply # <<>> => <>(reply = <<>> \/ status \in TerminalStatus \/ HeldUp))
====
