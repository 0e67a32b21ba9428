# A verification project for Cope

Cope is a coding agent that drives a chat model through a browser page: it sends
a prompt, waits for the answer, carries out the tool calls the answer holds on a
repository, and sends the results back. It runs as one process per session,
writes down everything it needs to be killed at any moment, and is resumed from
those records. What makes it hard is not concurrency inside a process (the agent
runtime is one asynchronous loop) but what lies between two durable writes: a
crash, an operator's pause, a click that may or may not have been taken, a
command that may or may not have run. A second source of trouble is other
processes of the same user on the same state directory.

The modules here are written from the source under `src/`; `PROJECT.json` maps
each definition to the lines it models, lists the runs with their properties,
the hazards and the proved theorems. Paths below are relative to the repository.

## Running it

    tlc -workers 2 -config ToolExecution.cfg MCToolExecution.tla
    tlapm ToolExecutionProofs.tla

## 1. Components

| Component | State it keeps | Operations | Hard behaviours | What makes it correct |
|---|---|---|---|---|
| Session lifecycle (`session/state-machine.ts`, `session/types.ts`) | `status` in `session.json` | `transitionSession` | moved by startup, tools, pauses, control and rollback | only legal moves, terminal states stay |
| Tool execution and startup recovery (`orchestrator/agent-runtime.ts`: `executeCalls`, `executeCall`, `findUncertainMutation`, `recordToolEffects`) | `pendingOperations`, `completedOperationIds`, `unreturnedOperationIds`, mutations, validations, `budgetUsage` | register, authorize, dispatch, complete, settle, return, replay, revert, hold | crash between any two of journal, session and artifacts; failing writes; interrupts; power loss | a mutation runs at most once; nothing is settled as "not run" that ran; every result is delivered; every charge once |
| Operation journal (`session/operation-journal.ts`) | one file per operation: accepted, executing, completed, failed, indeterminate | create, markExecuting, markCompleted, markFailed, markIndeterminate | torn first write, failed rewrite | agrees with the session record |
| Terminal executor and artifacts (`tools/terminal-executor.ts`, `session/terminal-artifacts.ts`) | request, launch receipt, exit receipt, result | store receipts in order, recover a result, prove that nothing was launched | lost receipts | no launch is denied that happened |
| Turn exchange (`orchestrator/agent-runtime.ts`: `runUntilBudgetBoundary`, `exchange`, `recoverExchange`, `queueOutbound`) | `turnSequence`, `queuedOutbound`, `submission`, message and response artifacts | queue, charge, send, resolve, receive, act, repair, pause | crash between intent and receipt; resume | each prompt once, each answer to its own prompt, nothing lost, nothing free |
| Browser adapter (`browser/copilot-browser-adapter.ts`) | in-memory record of the submission; a marker in the prompt | submit, resolveSubmission, receive | click thrown but taken, taken late, prompt hidden from an observation | never proves "not sent" of what was sent |
| Artifact store (`session/artifact-store.ts`) | files by kind and key | put, get, remove | crash between put and session write | artifacts referred to are there |
| Budgets (`session/budgets.ts`) | `budgetUsage` | consume, refund, raise | a charge made twice or given back twice over a resume | counters agree with the records |
| Configuration lock (`config/browser-config-lock.ts`) | a directory with an owner file and a claim file | acquire, take-over of a dead owner's lock, release | several processes and crashes between file-system calls | one holder; everybody is answered |
| Setup and session publication (`cli/setup-transaction.ts`, `cli/commands.ts`, `cli/session-recovery.ts`, `cli/onboarding.ts`) | `browser.json`, organization policy, session directories, runtime manifests | setup with an early and two late checks, publication of a session | a setup overtaken by another setup or by a session start; crash between two writes | no unfinished session loses its configuration; no setup overwrites another |
| Completion and handoff (`orchestrator/completion.ts`, `session/completion-handoff-store.ts`) | handoff file, `completionHandoff` | verify, store, commit, report | the repository changes between test, claim and report; crash or power loss between handoff and session record | accepted only on what was tested; a completed session has its handoff, others none |
| Evidence of a session (`repository/snapshot-diff.ts`, before-images of `session/terminal-artifacts.ts`) | mutations, images, checkpoints | keep images before a command, diff of the session | lists that are cut, images that do not fit | the diff never shows a wrong original; the user's work stays restorable |
| Runtime policy (`policy/engine.ts`, `orchestrator/runtime-policy.ts`) | three layers of rules; the session layer grows | judge a call, ask, grow the grant | an answer stored, persisted and adopted in separate steps; found again after a crash | nothing runs that is neither allowed nor approved |
| Disclosure budget and ledger (`orchestrator/disclosure-budget.ts`, `security/disclosure-ledger.ts`) | append chain, pause streak | charge, append | a failed append | charged means recorded, or the session stops |
| Workspace lock (`session/store.ts`), profile lock (`browser/profile-lock.ts`) | a lock file with a process identifier | acquire, take over, release | read, judge and unlink are separate steps | one owner, as long as no live owner's lock is removed (section 5) |
| Operator control (`cli/control-channel.ts`) | a request file | write, poll, acknowledge | a request replaced or removed unread | an abort that has reached the owner decides; the request itself may be overwritten (section 5) |
| Patch engine, checkpoints, rollback (`repository/patch-engine.ts`, `repository/checkpoint.ts`) | staged files, backups, checkpoint | preflight, commit, restore, roll back | crash in the middle of several files | all or nothing, or a declared conflict |
| Process runner and supervisor (`tools/process-runner.ts`, `tools/process-supervisor.ts`) | child processes | spawn, limit, kill | death of the harness | no process survives its harness, unless the supervisor itself is killed (section 5) |
| Audit log (`audit/audit-log.ts`) | hash chain | append, verify | partial append | the chain verifies |
| Workspace observation (`repository/workspace-observer.ts`, `repository/git.ts`) | none | read HEAD, index, files in an order, compare two readings | other programs write in between | an effect that is told is one that happened |
| Protocol, security, page driver, presentation, review | none, or a live page | pure functions, reads | | outside, see section 7 |

How they interact: the command line composes a session under the workspace lock
and publishes it under the configuration lock; the runtime calls the adapter for
each turn and the tool executor for each call, writes through the session store,
the journal and the artifact store, and polls the control file. Nothing is
shared between two processes except files.

## 2. Modules

| Module | What it is |
|---|---|
| `SessionLifecycle` | the transition relation of the session status |
| `ToolExecution` | the calls of one reply over session record, journal and artifacts, with crashes, interrupts, failing writes and loss of receipts |
| `ToolExecutionProofs` | its inductive invariant and seven theorems |
| `ToolAccountsProofs` | the same for what is owed and what is charged, on top of it; two theorems |
| `MCToolExecution` | its instances for TLC |
| `Dialogue` | the abstract specification: prompt, reply, act, in turn |
| `TurnExchange` | turns over session record, artifacts, adapter and page; implements `Dialogue` |
| `TurnExchangeProofs` | its inductive invariant, its three invariants and the refinement of `Dialogue` |
| `MCTurnExchange` | its instances for TLC |
| `BrowserConfigLock` | the directory lock, one step per file-system call |
| `BrowserSetup` | setups and session starts that use the lock; composes it with the state home |
| `BrowserSetupProofs` | the inductive invariant of lock and setup and five theorems |
| `MCBrowserSetup` | its instances for TLC |
| `PinnedMutation` | the file-system operations of the mutation worker on the names of one path |
| `PatchEngine` | `applyPatch` over several files, with its checkpoint |
| `CheckpointStore` | rollback of that checkpoint, and its resumption |
| `MCPatch` | the instance for TLC |
| `WorkspaceLock` | the lock file of a workspace, one step per file-system call |
| `SessionCommands` | the commands of the CLI over lock, session, report, audit log and request file |
| `SessionCommandsProofs` | types, the lock and what an owner has read; two theorems besides the invariant |
| `SessionOutcomeProofs` | what aborts, rollbacks, reports and the audit log come to; four theorems |
| `MCSessionCommands` | its instances for TLC |
| `WorkspaceObserver` | what an observation of a repository reads, in which order, and what two of them say of the time between |
| `ProcessSupervisor` | a command, a descendant of it, the supervisor, their pipes, and the harness that may die |
| `TerminalCommand` | one call over both, with the evidence it leaves and what the next process makes of it |
| `MCTerminalCommand` | its instances for TLC |
| `PolicyEngine` | the layered policy: the checks of an operation, the growth of a grant, as operators |
| `RuntimePolicy` | the operation built from a call, its bounds, the judgement and what an approval may change |
| `UserDecisions` | calls that need the operator: prompt, stored answer, grant, one-time room, budgets and their raises, over crashes |
| `MCUserDecisions` | its instances for TLC |
| `SessionEvidence` | mutation records, images and the baselines of the session's diff, over `WorkspaceObserver` |
| `Completion` | patches, commands and validations, the claim, the handoff with every sync, the report |
| `EvidenceProofs` | the session's diff and the user's work, over any commands; two theorems |
| `CompletionProofs` | the handoff and what a completed session was accepted on; two theorems |
| `MCCompletion` | its instances for TLC |

### ToolExecution

The variables are the three kinds of durable record (`status`, `pending`,
`completed`, `unreturned`, `recorded`, `used` are `session.json`; `journal`; the
artifacts `evidence`, `decision`, `reply`), the process (`pc`, `at`, `intr`,
`declared`) and a history of what really ran (`runs`). An action is one write or
one effect. The process is `down` between a crash and the next resume; a resume
keeps the records and forgets the process. What the code changes in memory and
persists later changes in the step that persists it: a crash in between discards
it and nothing reads it before.

A tool call that shares its reply with others and is not a read is refused before
any effect, as `executeCalls` does. Every charge may find its limit reached, so
that the numeric limits are not needed. A loss of power takes the newest terminal
receipts; the operator declares it at the next resume, and what the code may then
conclude from missing receipts is narrower (`lost`, `declared`).

Branches of the code that no state reaches are left out and named in comments. A
write of `session.json` that fails ends the session process (as a crash does), so
that only failing writes of journal and artifacts are separate (`MaxFaults`).

### TurnExchange and Dialogue

The session record, the outbox and the cached responses survive a crash; the
adapter's record of a submission does not. The page takes clicks late or never
and may hide a prompt from an observation. A prompt carries its submission
identifier and the number of answers on the page when it was sent; that is all a
new process can go by. `Dialogue` is what the runtime promises of all this: a
prompt only when everything before it was answered and acted on, each answer
acted on once. `TakesTurns` is the refinement with `prompts <- Len(chat)`,
`replies <- Len(answers)`, `acted <- Acted`.

Abstracted: the text of prompts and answers, binding to a conversation, sampling
until a response is stable, virtualized responses, audit lines. The disclosure
budget is charged and not enforced. The page holds the prompts of the runtime
only.

### BrowserConfigLock and BrowserSetup

A process stands for its process identifier and for the tokens of its locks. It
dies for good; an error ends its command, which is the same for the lock. A
write, unlink or rmdir that fails where the code has no handler is such an end
too, and covered by the crash at that step. Reuse of identifiers and an `EPERM`
answer make a dead owner look alive and only turn contenders away; they are left
out. The scan of the sessions under the lock is one step: other processes can
only end sessions meanwhile, since publishing needs the lock, and an end seen
late makes the scan stricter.

`BrowserSetup` is the lock's user: `EarlyScan`, `Verify` (twice, around the second
look at the browser), `CheckPolicy`, `WritePolicy`, `WriteConfig` for setup, and
`PinConfiguration`, `CreateDirectory`, `CreateState`, `PersistGrantPending`,
`WriteManifest` for a session. A configuration is identified with its writer.

### PinnedMutation, PatchEngine and CheckpointStore

For every path of a patch there is a family of names: the target, the staged new
file and the backup beside it, their twins of the rollback, the probes of hard
links, and what is parked in a private directory. `PinnedMutation` gives the
operations of the worker on them (write, link, capture, probe, remove) as the
system calls they make, any of which may fail and be reported as not done, done,
or unknown. `PatchEngine` is the order in which `applyPatch` plans, takes the
checkpoint, stages, probes, captures, installs, verifies and seals, and how
`restorePlans` undoes it. `CheckpointStore` is `rollback`: the preflight, the
snapshots it persists, the restoration, the reversal of a restoration that failed,
and what a later rollback does with whatever an earlier one left.

A file is an object with an identity, so that a hard link and a copy differ; its
content is old, new, or another program's. Another program may replace a target
between two operations of the engine, and, in `Races`, in the middle of the one
operation that looks at a file and then moves it.

### WorkspaceLock and SessionCommands

A process runs one command and dies for good; its identifier is not used again.
`disk` is `session.json`, `mem` what a command has read of it. Every write of the
session and every audit line is a step of its own (`WriteState`, `AppendEvent`),
`goal` says what is being written and where the command goes then, `handler` where
an exception takes it: that is the nesting of the `try` blocks of `commands.ts` and
of the runtime. The audit log is kept as the state of its chain, which is whole,
cut by a partial line, or forked by a log that did not write last; a command and
its runtime hold a log each (`log`).

Of the runtime `SessionCommands` keeps startup, the completion of a task, the
interruptions and the ends. Turns and tool calls are one step `Work`; the statuses
`executing_tools` and `awaiting_user` lie inside it. The rollback of the checkpoint
itself is one step here that may be refused (`CheckpointStore` has its inside).

### WorkspaceObserver, ProcessSupervisor and TerminalCommand

A repository is its worktree, its head, its objects and what another program hides
in it. An observation reads them one after the other (`look`), and an editor, the
command and its descendant write between any two reads. It keeps a pre-image of
work that was there before, unless that is too large to keep. Two observations give
an effect: the paths that changed, or that the effect is not known.

`ProcessSupervisor` has the command and one descendant in its group, the pipes both
hold, the supervisor, and the timers of `process-runner.ts` (the announcement of the
start, the time limit, the grace after the pipes). The harness may die at any step;
the supervisor notices by its own channel. Commands of the catalog run without a
supervisor.

`TerminalCommand` brackets the run: request, first observation, launch receipt, exit
receipt, second observation, result, each stored before the next step. After a crash
or a loss of power the next process has any prefix, or any subset, of these files and
`verdict` is what it takes them for. A catalog command is bracketed by two
statuses.

### PolicyEngine, RuntimePolicy and UserDecisions

The first two are operators only. An engine is three layers, a mode and the keys
approved so far; a call is judged by the strictest of its checks, after it was cut
to the bounds of the policy. `UserDecisions` is the part of the runtime around
them: a reply is a sequence of calls; each is registered, judged, perhaps asked
about, its answer stored, the grant written to its file and then to the session
record, adopted, and the call judged again. What it uses is charged; a budget that
runs out may be raised, in one place for the model's request and in another for the
process itself, or the session pauses with a notice for which room is kept. The
process may die at every step. `past` is the history: what the operator has
consented to and what ran.

### SessionEvidence and Completion

An observation is one step here (`TerminalCommand` has its reads). A mutation record
is what the session keeps: a patch with its before-text, a command with images of
some paths, a list of paths that may be cut, and a fingerprint. `DiffBaseline` is
what the diff shows as original, `PriorBaseline` what a path can be restored to.
`Completion` has the operations that make these records, the user who writes and
commits in between, the verification of a claim, and the handoff: directory, sync of
its parent, rename, sync, then the session record; the removal in the other order. A
loss of power forgets what was not synced. `left`, `tested`, `edited` and `origin`
are histories; `left` is the repository behind the last effect, and a command that
leaves everything as it found it has had none.

## 3. Runs

| Run | What it checks | Size |
|---|---|---|
| `tool_execution` | Two mutations of the kinds that recover differently (`run_command`, `terminal_exec`), two crashes, one interrupt, one failing write, one budget raise, a power loss: `AtMostOnce`, `NotRunMeansNotRun`, `NoBlindProgress`, `OwedResultsReplayable`, `CountersAgree`, `StatusMovesLegal` | 3.3 M states |
| `tool_batches` | Replies of two calls from two reads and a terminal command: a crash anywhere, and the reply still gets through: the liveness property `RepliesGetThrough` | 1.5 M |
| `turn_exchange` | Three turns, a repair, two crashes, two interrupts: `Recoverable`, `BudgetsCover`, `OwnAnswers`, the refinement `TakesTurns`, termination `Settles` | 0.27 M |
| `browser_setup` | Two setups and a session start, two crashes or failing writes: `MutualExclusion`, `NoStrandedSession`, `NoLostSetup`, `PolicyKept`, and liveness `LockAnswers` | 0.4 M |
| `patch` | A patch over two files, two rollback commands, one failing operation, one crash, one file of another program: `OthersKept`, `PatchAllOrNothing`, `RollbackTold`, `ReplacedKept`, `NotStuck` | 3.2 M |
| `operator` | Three terminals with the six commands, one crash, failing write or signal, one edit: `Ownership`, `AbortDecides`, `ReportTruth`, `RollbackRecorded`, `ChainKept` | 2.6 M |
| `terminal` | A command of each kind, two writes by it or its descendant, one by an editor, a crash or a loss of power: what the call says of its effect (`EffectTold`) and what its evidence says afterwards (`EvidenceTrue`) | 2.7 M |
| `supervised` | The same with work too large to keep and an editor that writes twice: `PreImageKept`, and the liveness properties `NoOrphan` and `CallEnds` | 0.2 M |
| `decisions` | Replies of two calls under three layers, answers of every kind, two raises, crashes: `RanWithConsent`, `UseWithinConsent`, `PausesBounded`, and liveness `EachRunEnds` | 0.6 M |
| `decision_slipped` | finding: an answer stored for one question of a call is taken for another question of it (`ConsentedOnly`) | violated |
| `completion` | Patches, commands and validations on two paths, four steps shared with the user and the claims, one crash or power loss: `DiffTruth`, `UserWorkHeld`, `AcceptedFresh`, `HandoffKept` | 2.9 M |
| `patch_unrecorded` | finding: a patch whose repository cannot be read right after it can never enter the session (`PatchReconcilable`) | violated |

Every property of a passing run has a mutant in `PROJECT.json`: a definition
changed the way a plausible bug would change the code, under which TLC finds the
property violated.

### Bounds and why they are enough

* Crashes: two. One puts the system into recovery, the second into the recovery
  of a recovery; recovery starts from the durable records alone, which a third
  crash would meet in the states the second already met.
* Operations: two mutations, of which one has terminal evidence and one has not;
  the code treats operations alike otherwise, and calls that share a reply are
  reads.
* Turns: three, so that a late answer, the answer in hand and the next prompt can
  be told apart by counting.
* Lock: three processes, because the dangerous order needs a dead owner, a
  contender that saw it, and one that makes the lock anew. `Attempts` is 2 (a first
  and a last round; 4 in the code): a round differs from another only by being the
  last. `HalfSetUp` starts with a
  configuration and without a policy, where both files of setup can be written.
* Patch: two files, because all-or-nothing needs one that is installed and one that
  is not; the second rollback resumes the first. One crash of the patch or of a
  rollback, one failing call and one foreign file between them: two of them together
  are what the recovery code distinguishes.
* Commands: three processes, since a take-over needs a dead owner, the one that
  judged it and the one that is faster; the session begins absent, left behind in
  the middle of a turn, or completed. A crash, a failing write and a signal share
  the budget of one. The run does not look past the removal of a lock that was not
  the one judged (`OneOwnerSoFar`): every other property is about a workspace with
  one owner. That removal is reachable (`store.ts:235` unlinks whatever is there; section 5) and no
  property covers it. What `Ownership` says is that nothing else gives a workspace two
  owners (a lock whose owner is not written yet is nobody's to remove) and that an
  owner moves the session that is on disk.
* Completion: four steps are enough for two mutations, a test and a claim, with one of
  them given to the user instead. `MaxImages` and `MaxListed` are 1 with two paths, so
  that images are left out and lists are cut. One crash, with or without the machine.
* Terminal: two writes let a command change one path twice or two paths once, on
  either side of any read of an observation; the descendant may make either of them
  after the command ended. One path with work of before and one without.

The theorems of section 4 hold for every value of these bounds.

### Fairness

* `ToolExecution`, `TurnExchange`: weak fairness of `Proceed`, the step of the one
  asynchronous loop. Its waits are bounded by time limits in the adapter and the
  runner. The model, the page, the operator and the machine are not made to do
  anything. The liveness run of tool calls has no interrupts or raises, which the
  operator could repeat. `RepliesGetThrough` is about a session that is looked after:
  its premise `KeptAlive`, part of the property and not of the specification, is that
  the operator goes on resuming and answering and that the budget holds out in the end.
* `BrowserSetup`: weak fairness of `UseLock(p)` for each process, that is, the
  file-system calls of acquire and release return. Nobody is made to begin,
  commit or end.
* `TerminalCommand`: weak fairness of the harness's event loop with its timers, of
  the supervisor with its own, and of signals that were sent. The command and its
  descendant are never made to end: what is shown is that the limits end them.

* `UserDecisions`: weak fairness of `Moves` for the process counter alone: a process
  that lives takes its next step, whichever it is. Nobody has to answer a prompt in a
  particular way, and a process that died need not be started again.

Type invariants are stated where a proof rests on them; a run spends its properties
on what could go wrong.

### Known differences

Places where a definition is coarser than its code; no property depends on them.

* Startup goes over the pending operations once; `Recover` handles each of them until it
  is settled. Handling one never undoes another, and both end in the same states.
* `SessionCommands.WriteFails` leaves the disk as it was; in the code the rename may have
  been done when the sync of the directory fails (`store.ts:168`), while the command takes
  its memory back (`commands.ts:1217`).
* `PinnedMutation.RemoveExact`: another program replaces a file, it does not write through
  a descriptor that it already holds (`pinned-mutation-worker.ts:776`).
* `WorkspaceObserver.Changed` lists a path that is absent before and after and whose status
  changed; `compareBounded` skips it.
* `SessionEvidence.Images` counts the candidates ranked before a path, the code those
  kept (`workspace-observer.ts:1011`).

## 4. Proofs

`ToolExecutionProofs` (any set of operations, any tools, any bounds). `TypeCorrect`,
`ExecutedAtMostOnce`, `NotRunNeverRan`, `NoProgressOverUnknown`, `MovesLegal`,
`ReturnedForGood`, `AbortDecides`. That a mutation runs at most once is not
inductive: it depends on what each record implies about the effect. `IInv` says,
per operation: as long as the journal says absent, torn or accepted the operation
is untouched; while it says executing nothing is settled yet, and it is untouched
if the session still says accepted or if a terminal command has no launch receipt
and nothing was lost (`RecordsAgree`); where the process stands tells what has been
written (`CallAgrees`); recovery lets no unknown outcome through (`OutcomeKnown`);
a settled operation has no pending entry and a final record (`SettledOnce`); the
status fits the place (`StatusFits`); and a live process was told of a loss
(`LossDeclared`). One lemma per action.

`BrowserSetupProofs` (any number of processes, attempts and faults). `WellFormed`,
`Exclusion`, `SessionsKeepConfiguration`, `BaselineReplaced`, `MachinePolicyKept`.
Mutual exclusion is not inductive: an owner, a remover and a claimer meet in the
directory. `LockInv` says that at most one process is busy with the directory as
owner or as remover (`OneBusy`), one holds the claim (`OneClaim`), the directory is
there while one is busy, and what each of them knows of the owner file and of the
dead owner (`OwnerFits`, `ClaimFits`). A remover becomes busy only after it saw,
with its claim in place, the dead owner still there: a dead owner's file is removed
by claimers only, so no live owner can be busy at that point. On top of it
`SetupWindow` and `RunWindow` say that what a command has checked under the lock
stays true while it holds it.

`ToolAccountsProofs` (as `ToolExecutionProofs`). `OwedResultsDeliverable` and
`CountersHold`. What is owed is in the stored reply only because a terminal command
in flight, the one kind of call that recovery settles, is the only call of that reply
and cannot be got past (`TerminalAlone`, `OwedFits`). The counters agree because the
charge of a call can be read off its two records: one held for reconciliation stays
held (`HeldFits`), the way a call ended tells whether it had been charged
(`EndingFits`), and what is taken back in the journal is taken back in the session
before anything goes on (`UndoFits`). Eleven of the actions write an account
(`Accounting`), and each moves its counter together with one operation.

`TurnExchangeProofs` (any number of turns, repairs, crashes and interrupts).
`RecoverableHolds`, `OwnAnswersHolds`, `BudgetsHold`, and `Implements`: the exchange
refines `Dialogue`. An answer is told from others by counting only, so that the
invariant has to say for every place of the process what the session record tells of
the turn (`Turns`, `Course`), that the conversation is in order and its answers are
(`Talk`), that between two exchanges nothing is under way on the page and every prompt
is answered (`Quiet`), that in an exchange the prompt in the conversation or still to
come is the one the record names (`Prompted`), what the adapter's record of a
submission is worth (`Recording`), and what has been charged (`Charges`).
Every step is then a prompt, a reply, an act or a stutter of `Dialogue` (`Talks`).

`SessionCommandsProofs` and `SessionOutcomeProofs` (any number of terminals).
`TypeCorrect`, `OwnershipHolds`, `AbortDecidesHolds`, `RollbackRecordedHolds`,
`ChainKeptHolds`, `ReportTruthHolds`. `IInv` is types, the lock (one owner as long as
no lock is removed in place of the one that was judged) and that the copy in an
owner's memory is the session on disk but for the write under way. Over it `AbortInv`
says for every place, through the nesting of the handlers, where an owner that has
seen an abort can still get to; `OutcomeInv` what it has recorded of a rollback,
whether its log has read the chain to the end, and whether the report on disk is the
one the session refers to.

`CompletionProofs` (any paths, texts, commands, bounds). `HandoffHolds` and
`AcceptedFreshHolds`. The fingerprint that a session goes by is of `left`, the
repository behind its last effect (`Knowledge`), that of a validation is of the
repository it ran on (`Tests`), and so a claim that finds all of them equal to the
present one was tested on what it is accepted on (`Accepted`); `Course` and `Handed` follow the
handoff from its directory to the session record and back. Proving it showed that the
history `left` was first defined wrongly: a command that ran without effect had moved
it over an edit of the user, in instances larger than the run's.

`EvidenceProofs` (as `CompletionProofs`). `DiffTruthHolds` and `UserWorkHolds`.
`EvInv`: every path that the session changed is told by its records, or was changed
first by the operation under way, whose observations are those of their moments
(`Truth`); a path that records name has a first one among them (`NamedKept`); and work
that was there before is held by a record, or by the images in hand, from before
anything could change it (`WorkKept`).

Assumptions: those of the modules (`None` is not a process, there is at least one
attempt, setups are processes, the original configuration is nobody's; tools are
tools and operations are finite; `OneRunAssumption`, at most one process makes a session; texts are not `Absent`, the parts of
`Completion`'s instance have their types, the bounds are numbers).

Only model-checked: liveness (`RepliesGetThrough`, `Settles`, `LockAnswers`,
`NoOrphan`, `CallEnds`, `EachRunEnds`), which the prover cannot treat; for now also
everything about the patch, the terminal and the operator's decisions.

## 5. Findings

Shown by a run:

1. `orchestrator/agent-runtime.ts:2477` (`decision_slipped`): the answer to a prompt is
   stored under the name of the call, so that a resumed process which asks another
   question about the same call takes the old answer for it.
2. `session/store.ts:633` (`patch_unrecorded`): a patch without a fingerprint is refused
   by every write of the session file, although `tools/tool-host.ts:639` says that it
   remains recoverable until the repository can be reconciled.

Met while modelling, kept out of the properties by a named condition or left to the
reader:

* `config/browser-config-lock.ts:128`: the claim is removed before the directory; a
  second contender's claim in between blocks the `rmdir`. Both acquires are rejected and
  the lock stays without an owner, which later acquires refuse. The test at
  `tests/unit/setup-transaction.test.ts:133` expects one winner.
* `orchestrator/agent-runtime.ts:2912`: a completion that cannot be journaled once is
  settled as a failure although the patch is in the files: no mutation record, no charge
  (`docs/RECOVERY-AND-AUDIT.md:60` says otherwise).
* `browser/copilot-browser-adapter.ts:507`: the proof that a prompt was not sent is in
  memory only, so a resumed session cannot retry.
* `cli/control-channel.ts:33`: a pause request reads the request file and renames its own
  over it at line 52 without looking again; an abort put there in between is overwritten
  (`docs/RECOVERY-AND-AUDIT.md:83`: "Abort has priority and cannot be overwritten by a
  later pause.").
* `cli/runtime-composition.ts:187`: the grown grant is written to its file before the
  session record that holds its hash; after a crash in between every resume is refused.
* `policy/engine.ts`: approving a command also sets its risk class to allow, approving a
  host allows the network; the approval of a budget key also satisfies the ceilings per
  operation, and later overruns pass the policy unasked, so that only the meter stops
  them (`NotPermitted`). An ask for a category of commands can never be satisfied.
* `orchestrator/agent-runtime.ts:2051`: a budget request that is replayed after a crash is
  told to have had no effect; a one-time overdraft leaves no room for the emergency
  notice; of two approvals of one call the second may be denied after the first was kept;
  a crash loses the reset of the pause streak.
* A session that begins with a tracked file deleted by the user, or another dirty path
  that cannot be kept, refuses every terminal command (`Launch` needs `Reconstructible`).
* `cli/commands.ts:466`: the catch of `run` appends with the audit log it began with;
  after the runtime appended with its own, that forks the chain (`ChainKept` excepts
  the catch of `run`; `resume` makes a new log at line 649).
* `session/store.ts:235` and `browser/profile-lock.ts:183`: of two processes that judged
  the same dead owner the slower one unlinks the lock that the faster one has made
  (`stolen`), and a rollback, which "requires exclusive workspace ownership"
  (`docs/OPERATOR-GUIDE.md:228`), may then share the workspace with a resume.
* `cli/commands.ts:832`: a rollback that was recorded and then interrupted can never be
  repeated once the status has changed in between.
* A rollback can be stuck for good in the windows that `Window` of `CheckpointStore` names:
  a private directory made and not yet recorded, a staged file torn, an installation
  announced but not made, a foreign file parked in the private directory.

* `orchestrator/agent-runtime.ts:2408`: a recorded result is abandoned with its
  operation pending when its replay overruns the output budget.
* `orchestrator/agent-runtime.ts:1468`: a decision message is charged before it is
  queued and again after a crash.
* `tools/process-supervisor.ts:112`: between the end of the pipes and the EXITED
  record a SIGTERM to the group ends the supervisor itself; a descendant that holds no pipe
  then survives the harness (`docs/MACOS-EXPANSION-PLAN.md:168` promises the opposite).
* `tools/process-runner.ts`: STARTED is announced by a timer, so that a very quick
  command may be answered as indeterminate; a catalog command's group is not ended
  when the command exits (line 183).

`PROJECT.json` quotes what the documentation says of the two that a run shows.

## 6. Plan

Built, in this order: `SessionLifecycle` and `ToolExecution` (the core), `TurnExchange`
over `Dialogue`, `BrowserConfigLock` and `BrowserSetup`, `WorkspaceLock` and
`SessionCommands`, the patch modules, the terminal modules, the policy and
`UserDecisions`, `SessionEvidence` and `Completion`. Proved about: all of these but the
patch, the terminal and the policy.

Left to prove, in this order: `RanWithConsent`, `UseWithinConsent` and `PausesBounded`
of `UserDecisions`; `EvidenceTrue` and `EffectTold` of `TerminalCommand`;
`OthersKept` and `ReplacedKept` of `CheckpointStore`.

Left to model: `AgentSession`, the composition of `ToolExecution`, `TurnExchange` and
`UserDecisions` over one session record (each is checked with the others' steps as free
choices; their product is beyond TLC's reach here); the profile lock of the browser,
which is the workspace lock with another file; the binding of the adapter to one
conversation.

## 7. Not modelled

Parsing and repairing the text of replies, selectors and DOM reads of the page driver,
capture of virtualized responses, discovery and launch of browsers, secret detection,
prompts and presentation, the review package, scripted and transcript transports: they
hold no state that a crash or another process could divide, or their results are the
free choices of a model above. Files that Git ignores, renames that change only the case
of a name, images whose artifacts were removed by retention, and records of older
versions are left out of `SessionEvidence`. The profile lock (`browser/profile-lock.ts:183`)
has the same race as the workspace lock and no module. The append chain of the disclosure
ledger is not modelled; that of the audit log is, as the state of its chain, in
`SessionCommands`.
