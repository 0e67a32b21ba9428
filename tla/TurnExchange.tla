---- MODULE TurnExchange ----
(***************************************************************************)
(* One turn after another between the agent runtime and the model behind   *)
(* the browser page: queueing a message, sending it, proving that it was   *)
(* sent, waiting for its answer and acting on it, and how a new process    *)
(* takes the exchange up where the last one left it.  The runtime side is  *)
(* runUntilBudgetBoundary, exchange, recoverExchange and queueOutbound of  *)
(* src/orchestrator/agent-runtime.ts, the transport side the adapter of    *)
(* src/browser/copilot-browser-adapter.ts.                                 *)
(*                                                                         *)
(* session.json and the artifacts survive a crash; the adapter's record of *)
(* a submission does not.  The page goes on by itself: a click may take    *)
(* effect late or never, and a prompt in the conversation may be hidden    *)
(* from one observation and seen by the next.  Each prompt carries its     *)
(* submission identifier and the number of answers on the page when it was *)
(* sent (the marker), which is all a new process has to go by.             *)
(***************************************************************************)
EXTENDS Integers, Sequences, FiniteSets

CONSTANTS
  MaxTurn,        \* the turns budget
  MaxRepairs,     \* the protocolRepairs budget
  MaxCrashes,     \* bound on crashes in a behaviour
  MaxInterrupts   \* bound on pause and abort requests

ASSUME BudgetAssumption == MaxTurn \in Nat \ {0} /\ MaxRepairs \in Nat
ASSUME BoundAssumption == MaxCrashes \in Nat /\ MaxInterrupts \in Nat

VARIABLES
  \* session.json
  status,      \* "open", "paused" or "ended"
  turn,        \* turnSequence, and with it the turns charged to the budget
  queued,      \* turn of queuedOutbound, 0 if none
  submission,  \* submission intent of the latest exchange
  charged,     \* messages charged to disclosedBytes
  repairs,     \* repairs charged to protocolRepairs
  \* artifacts
  outbox,      \* stored messages: <<"queued", turn>> and <<"sent", submission>>
  responses,   \* per turn, the turn whose answer is cached for it, 0 if none
  \* the process
  pc,          \* where the runtime is; "down" between processes
  receipt,     \* status of the receipt in hand
  retried,     \* the one resolution of an indeterminate receipt is used up
  unsaved,     \* messages charged in memory and not yet persisted
  plan,        \* what the message being queued is
  intr,        \* interruption recorded in this process
  record,      \* the adapter's record of the submission
  \* the page
  inflight,    \* prompts clicked and not yet in the conversation
  chat,        \* prompts in the conversation
  answers,     \* turns answered, in order
  \* history and bounds
  issued,      \* submission identifiers drawn
  crashes, interrupts

session == <<status, turn, queued, submission, charged, repairs>>
artifacts == <<outbox, responses>>
process == <<pc, receipt, retried, unsaved, plan, intr, record>>
page == <<inflight, chat, answers>>
world == <<issued, crashes, interrupts>>
vars == <<session, artifacts, process, page, world>>

-----------------------------------------------------------------------------

NoSubmission == [state |-> "none", turn |-> 0, id |-> 0]
NoRecord == [base |-> 0, activated |-> FALSE, receipt |-> "none"]

\* Where the runtime or the adapter looks for an interruption before going on.
Checked == {"exchange", "submit", "fill", "click", "recover", "resolve", "receive", "act"}

Queued(n) == <<"queued", n>>
Sent(id) == <<"sent", id>>

Goto(p) == pc' = p

\* The prompt of the current submission as the page shows it, marker included.
Shown == {i \in DOMAIN chat : chat[i].id = submission.id}
\* What one observation may make of it: the page unmounts prompts for a moment.
MarkerSeen == {FALSE} \cup {Shown # {}}
MarkerBase == chat[CHOOSE i \in Shown : TRUE].base

\* The process is gone, and with it everything it held in memory.
Gone ==
  /\ Goto("down")
  /\ receipt' = "none" /\ retried' = FALSE /\ unsaved' = 0 /\ plan' = "none"
  /\ intr' = "none" /\ record' = NoRecord

GoOn(p) ==
  /\ Goto(p)
  /\ UNCHANGED <<session, artifacts, receipt, retried, unsaved, plan, intr, record>>
  /\ UNCHANGED <<page, world>>

Init ==
  /\ status = "open" /\ turn = 0 /\ queued = 0 /\ submission = NoSubmission
  /\ charged = 0 /\ repairs = 0
  /\ outbox = {} /\ responses = [n \in 1..MaxTurn |-> 0]
  /\ pc = "down" /\ receipt = "none" /\ retried = FALSE /\ unsaved = 0
  /\ plan = "none" /\ intr = "none" /\ record = NoRecord
  /\ inflight = {} /\ chat = <<>> /\ answers = <<>>
  /\ issued = 0 /\ crashes = 0 /\ interrupts = 0

\* A completed, blocked or failed session starts no process again.
End ==
  /\ status' = "ended" /\ Gone
  /\ UNCHANGED <<turn, queued, submission, charged, repairs, artifacts, page, world>>

\* A result that is no answer: a page waiting will not cure ends the session,
\* and every other one pauses it.
HandleTransportResult(result) == IF result = "blocked" THEN End ELSE GoOn("halt")

-----------------------------------------------------------------------------
(* Starting and resuming *)

Start ==
  /\ pc = "down" /\ status \in {"open", "paused"}
  /\ status' = "open" /\ Goto("start")
  /\ UNCHANGED <<turn, queued, submission, charged, repairs, artifacts>>
  /\ UNCHANGED <<receipt, retried, unsaved, plan, intr, record, page, world>>

\* An artifact that is missing is RECOVERY_REQUIRED, which pauses the session.
Needing(key, p) == IF key \in outbox THEN p ELSE "halt"

StartQueued == pc = "start" /\ queued # 0 /\ GoOn(Needing(Queued(queued), "turn"))

StartAnswered ==
  /\ pc = "start" /\ queued = 0 /\ submission.state = "answered"
  /\ GoOn(IF responses[submission.turn] # 0 THEN "act" ELSE "halt")

StartRecovery ==
  /\ pc = "start" /\ queued = 0
  /\ submission.state \in {"prepared", "submitted", "indeterminate"}
  /\ GoOn(Needing(Sent(submission.id), "recover"))

\* A message is serialized: its bytes are charged, in memory for now.
Serialize(what, p) ==
  /\ plan' = what /\ unsaved' = unsaved + 1 /\ Goto(p)
  /\ UNCHANGED <<session, artifacts, receipt, retried, intr, record, page, world>>

StartFresh == pc = "start" /\ queued = 0 /\ turn = 0 /\ Serialize("message", "queue")

-----------------------------------------------------------------------------
(* Queueing the next message: the artifact first, then the session record *)

\* Mutant: the session record first, so that a crash leaves it without its artifact.
PutQueuedLate ==
  /\ pc = "queue"
  /\ queued' = turn + 1 /\ Goto("queued")
  /\ UNCHANGED <<status, turn, submission, charged, repairs, artifacts>>
  /\ UNCHANGED <<receipt, retried, unsaved, plan, intr, record, page, world>>

PutQueued ==
  /\ pc = "queue"
  /\ outbox' = outbox \cup {Queued(turn + 1)} /\ Goto("queued")
  /\ UNCHANGED <<session, responses, receipt, retried, unsaved, plan, intr, record>>
  /\ UNCHANGED <<page, world>>

QueueOutbound ==
  /\ pc = "queued"
  /\ queued' = turn + 1
  /\ charged' = charged + unsaved /\ unsaved' = 0
  /\ repairs' = repairs + (IF plan = "repair" THEN 1 ELSE 0)
  /\ Goto("unreply")
  /\ UNCHANGED <<status, turn, submission, artifacts, receipt, retried, plan, intr>>
  /\ UNCHANGED <<record, page, world>>

\* The cached answer is no longer needed.  A message that asks the operator for
\* help, like an interruption, ends the run here.
RemoveResponse ==
  /\ pc = "unreply"
  /\ responses' = [n \in 1..MaxTurn |-> IF n = turn THEN 0 ELSE responses[n]]
  /\ plan' = "none"
  /\ Goto(IF plan = "help" \/ intr # "none" THEN "halt" ELSE "turn")
  /\ UNCHANGED <<session, outbox, receipt, retried, unsaved, intr, record, page, world>>

-----------------------------------------------------------------------------
(* Accounting for the turn *)

\* A crash after the turn was charged and before its intent was stored leaves
\* the queued message with a turn that is already paid for.
ReuseTurn == pc = "turn" /\ queued = turn /\ GoOn("exchange")

SpendTurn ==
  /\ pc = "turn" /\ queued = turn + 1 /\ turn < MaxTurn
  /\ turn' = turn + 1 /\ Goto("exchange")
  /\ UNCHANGED <<status, queued, submission, charged, repairs, artifacts>>
  /\ UNCHANGED <<receipt, retried, unsaved, plan, intr, record, page, world>>

\* Mutant: the turn is charged without looking whether it was before.
SpendTurnAgain ==
  /\ pc = "turn" /\ turn < MaxTurn
  /\ turn' = turn + 1 /\ Goto("exchange")
  /\ UNCHANGED <<status, queued, submission, charged, repairs, artifacts>>
  /\ UNCHANGED <<receipt, retried, unsaved, plan, intr, record, page, world>>

AccountTurnAgain == SpendTurnAgain
AccountTurn == ReuseTurn \/ SpendTurn

-----------------------------------------------------------------------------
(* The exchange, up to the call of the adapter *)

PutOutbound ==
  /\ pc = "exchange" /\ intr = "none"
  /\ issued' = issued + 1 /\ outbox' = outbox \cup {Sent(issued + 1)} /\ Goto("intent")
  /\ UNCHANGED <<session, responses, receipt, retried, unsaved, plan, intr, record>>
  /\ UNCHANGED <<page, crashes, interrupts>>

PersistIntent ==
  /\ pc = "intent"
  /\ submission' = [state |-> "prepared", turn |-> turn, id |-> issued]
  /\ queued' = 0 /\ Goto("unqueue")
  /\ UNCHANGED <<status, turn, charged, repairs, artifacts, receipt, retried, unsaved>>
  /\ UNCHANGED <<plan, intr, record, page, issued, crashes, interrupts>>

RemoveQueued ==
  /\ pc = "unqueue"
  /\ outbox' = outbox \ {Queued(turn)} /\ Goto("submit")
  /\ UNCHANGED <<session, responses, receipt, retried, unsaved, plan, intr, record>>
  /\ UNCHANGED <<page, world>>

-----------------------------------------------------------------------------
(* The adapter: submit *)

\* The adapter returns a receipt and leaves rec as its record.
Return(r, rec, p) ==
  /\ receipt' = r /\ record' = rec /\ Goto(p)
  /\ UNCHANGED <<session, artifacts, retried, unsaved, plan, intr>>
  /\ UNCHANGED <<page, issued, crashes, interrupts>>

Receipt(r, rec) == Return(r, [rec EXCEPT !.receipt = r], "receipt")
NotSubmitted == Receipt("not-submitted", record)

\* The page is not ready, or shows another conversation; only in the second
\* case is a record kept.
SubmitNotReady ==
  /\ pc = "submit" /\ intr = "none"
  /\ Return("not-submitted", record, "receipt")
       \/ Receipt("not-submitted", NoRecord)

\* The page is ready: the marker tells whether this prompt is already there.
SubmitObserve ==
  /\ pc = "submit" /\ intr = "none"
  /\ \E seen \in MarkerSeen :
       LET base == IF seen THEN MarkerBase ELSE Len(answers)
           rec == [base |-> base, activated |-> FALSE, receipt |-> "not-submitted"]
       IN  IF seen THEN Receipt("submitted", rec)
           ELSE /\ record' = rec /\ Goto("fill")
                /\ UNCHANGED <<session, artifacts, receipt, retried, unsaved, plan>>
                /\ UNCHANGED <<intr, page, world>>

Fill == pc = "fill" /\ intr = "none" /\ GoOn("click")

FillFails ==
  /\ pc = "fill" /\ intr = "none"
  /\ \E r \in {"not-submitted", "indeterminate"} : Receipt(r, record)

\* Not ready any more, no send control, or a click known not to have happened.
ClickWithheld == pc = "click" /\ intr = "none" /\ NotSubmitted

\* A click whose dispatch is not known to have failed; it may have all the same.
Click ==
  /\ pc = "click" /\ intr = "none"
  /\ \E sent \in BOOLEAN :
       inflight' = IF sent
                   THEN inflight \cup {[id |-> submission.id, turn |-> submission.turn,
                                        base |-> record.base]}
                   ELSE inflight
  /\ record' = [record EXCEPT !.activated = TRUE]
  /\ Goto("confirm")
  /\ UNCHANGED <<session, artifacts, receipt, retried, unsaved, plan, intr>>
  /\ UNCHANGED <<chat, answers, issued, crashes, interrupts>>

\* The marker appears within the wait, or the wait ends without it.  An
\* interruption ends it too.
Confirm ==
  /\ pc = "confirm"
  /\ \E seen \in MarkerSeen :
       Receipt(IF seen /\ intr = "none" THEN "submitted" ELSE "indeterminate", record)

-----------------------------------------------------------------------------
(* The adapter: resolveSubmission *)

\* Without a record only the marker can tell.
ResolveUnrecorded(seen) ==
  IF seen THEN [NoRecord EXCEPT !.base = MarkerBase, !.receipt = "submitted"]
          ELSE NoRecord

\* Mutant: no record is taken for the proof that nothing was sent.
ResolutionTrusting(seen) ==
  IF seen \/ record.receipt = "submitted" THEN "submitted"
  ELSE IF ~ record.activated THEN "not-submitted"
  ELSE "indeterminate"

Resolution(seen) ==
  IF seen \/ record.receipt = "submitted" THEN "submitted"
  ELSE IF record # NoRecord /\ ~ record.activated THEN "not-submitted"
  ELSE "indeterminate"

Resolved(seen) ==
  IF record = NoRecord THEN ResolveUnrecorded(seen)
  ELSE [record EXCEPT !.receipt = Resolution(seen)]

\* Another host or another conversation: nothing can be told.
ResolveElsewhere(p) ==
  record.receipt # "submitted" /\ Return("indeterminate", record, p)

\* startup: what is proven unsent is sent, anything else is a receipt
RecoverSubmission ==
  /\ pc = "recover" /\ intr = "none"
  /\ \/ \E seen \in MarkerSeen :
          Return(Resolution(seen), Resolved(seen),
                 IF Resolution(seen) = "not-submitted" THEN "submit" ELSE "receipt")
     \/ ResolveElsewhere("receipt")

\* resolveReceipt: one more look, and one more try if it proves nothing was sent
ResolveAgain ==
  /\ pc = "resolve" /\ intr = "none"
  /\ \/ \E seen \in MarkerSeen :
          Return(Resolution(seen), Resolved(seen),
                 IF Resolution(seen) = "not-submitted" THEN "submit" ELSE "receipt")
     \/ ResolveElsewhere("receipt")

-----------------------------------------------------------------------------
(* What the runtime does with a receipt *)

SetSubmission(s, p) ==
  /\ submission' = [submission EXCEPT !.state = s] /\ Goto(p)
  /\ UNCHANGED <<status, turn, queued, charged, repairs, artifacts, receipt, unsaved>>
  /\ UNCHANGED <<plan, intr, record, page, world>>

Delivered ==
  /\ pc = "receipt" /\ receipt = "submitted"
  /\ SetSubmission("submitted", "receive") /\ retried' = FALSE

Doubtful ==
  /\ pc = "receipt" /\ receipt = "indeterminate" /\ ~ retried
  /\ SetSubmission("indeterminate", "resolve") /\ retried' = TRUE

\* Mutant: a receipt that says not-submitted is tried again, and again.
UndeliveredRetried ==
  /\ pc = "receipt"
  /\ receipt = "not-submitted" \/ (receipt = "indeterminate" /\ retried)
  /\ GoOn(IF receipt = "not-submitted" THEN "submit" ELSE "halt")

\* The receipt names another exchange or another conversation, whatever it says.
Miscorrelated == pc = "receipt" /\ GoOn("halt")

\* TRANSPORT_INDETERMINATE: "could not be proven delivered"
Undelivered ==
  /\ pc = "receipt"
  /\ receipt = "not-submitted" \/ (receipt = "indeterminate" /\ retried)
  /\ GoOn("halt")

-----------------------------------------------------------------------------
(* The answer *)

\* The first answer after those counted when the prompt was sent.
AnswerReady == Len(answers) = record.base + 1
Answer == answers[record.base + 1]

\* Mutant: the latest answer on the page is taken, without counting.
ReceiveLatest ==
  /\ pc = "receive" /\ intr = "none" /\ Shown # {} /\ answers # <<>>
  /\ responses' = [responses EXCEPT ![turn] = answers[Len(answers)]] /\ Goto("answered")
  /\ UNCHANGED <<session, outbox, receipt, retried, unsaved, plan, intr, record>>
  /\ UNCHANGED <<page, world>>

Receive ==
  /\ pc = "receive" /\ intr = "none" /\ Shown # {} /\ AnswerReady
  /\ responses' = [responses EXCEPT ![turn] = Answer] /\ Goto("answered")
  /\ UNCHANGED <<session, outbox, receipt, retried, unsaved, plan, intr, record>>
  /\ UNCHANGED <<page, world>>

\* The wait ends without an answer, or with a page nothing can be told from.
ReceiveNothing ==
  /\ pc = "receive" /\ intr = "none"
  /\ HandleTransportResult("timed-out")

MarkAnswered ==
  /\ pc = "answered"
  /\ SetSubmission("answered", "unsend") /\ UNCHANGED retried

RemoveOutbound ==
  /\ pc = "unsend"
  /\ outbox' = outbox \ {Sent(submission.id)} /\ Goto("act")
  /\ UNCHANGED <<session, responses, receipt, retried, unsaved, plan, intr, record>>
  /\ UNCHANGED <<page, world>>

-----------------------------------------------------------------------------
(* Acting on the answer; what the answer asks for is the model's choice *)

\* The answer was stored, but the page showed its protocol block in a way that
\* the capture could not read safely.  It is kept, and asking again cannot help.
ActUnreadable ==
  /\ pc = "act" /\ intr = "none"
  /\ HandleTransportResult("indeterminate")

\* Tool results, a remark on progress, or a request for the operator's help.
ActMessage == pc = "act" /\ intr = "none" /\ \E w \in {"message", "help"} : Serialize(w, "queue")

\* An answer that cannot be parsed, while there is budget to ask for another.
ActRepair ==
  /\ pc = "act" /\ intr = "none" /\ repairs < MaxRepairs
  /\ Serialize("repair", "queue")

\* The operator's decision, and a refused completion: the message is charged
\* before the status moves, and the moves persist the charge.
ActDecision == pc = "act" /\ intr = "none" /\ Serialize("message", "decide")

PersistMoves ==
  /\ pc = "decide"
  /\ charged' = charged + unsaved /\ unsaved' = 0 /\ Goto("queue")
  /\ UNCHANGED <<status, turn, queued, submission, repairs, artifacts, receipt>>
  /\ UNCHANGED <<retried, plan, intr, record, page, world>>

\* Completed, blocked, or an answer that cannot be parsed and may not be repaired.
ActEnd == pc = "act" /\ intr = "none" /\ End

\* The page reports a state that waiting will not cure, or the kill switch is set.
ReceiveBlocked ==
  /\ pc = "receive" /\ intr = "none"
  /\ HandleTransportResult("blocked")

\* The page cannot be observed: indeterminate, which pauses the session, or
\* unavailable, which fails it.
ObservationFails ==
  /\ pc \in {"submit", "recover", "resolve"} /\ intr = "none"
  /\ GoOn("halt") \/ End

\* The turns budget is used up and not raised: the session is paused, and ended
\* when that happens twice in a row.
TurnsExhausted ==
  /\ pc = "turn" /\ queued = turn + 1 /\ turn = MaxTurn
  /\ GoOn("halt") \/ End

-----------------------------------------------------------------------------
(* Interruptions, crashes, the page *)

Interrupted == pc \in Checked /\ intr # "none" /\ GoOn("halt")

\* pauseWithInterruptionPriority and finishInterruption
Halt ==
  /\ pc = "halt"
  /\ status' = (IF intr = "abort" THEN "ended" ELSE "paused") /\ Gone
  /\ UNCHANGED <<turn, queued, submission, charged, repairs, artifacts, page, world>>

\* requestPause and emergencyStop; an abort is not replaced by a later pause
Interrupt ==
  /\ pc # "down" /\ interrupts < MaxInterrupts /\ interrupts' = interrupts + 1
  /\ \E why \in {"pause", "abort"} : intr' = (IF intr = "abort" THEN intr ELSE why)
  /\ UNCHANGED <<session, artifacts, pc, receipt, retried, unsaved, plan, record, page>>
  /\ UNCHANGED <<issued, crashes>>

Crash ==
  /\ pc # "down" /\ crashes < MaxCrashes /\ crashes' = crashes + 1
  /\ Gone
  /\ UNCHANGED <<session, artifacts, page, issued, interrupts>>

\* A click takes effect, or never does.
PageDelivers ==
  \E m \in inflight :
    /\ inflight' = inflight \ {m} /\ chat' = Append(chat, m)
    /\ UNCHANGED <<session, artifacts, process, answers, world>>

PageLoses ==
  \E m \in inflight :
    /\ inflight' = inflight \ {m}
    /\ UNCHANGED <<session, artifacts, process, chat, answers, world>>

ModelAnswers ==
  /\ Len(answers) < Len(chat)
  /\ answers' = Append(answers, chat[Len(answers) + 1].turn)
  /\ UNCHANGED <<session, artifacts, process, inflight, chat, world>>

Proceed ==
  \/ StartQueued \/ StartAnswered \/ StartRecovery \/ StartFresh
  \/ PutQueued \/ QueueOutbound \/ RemoveResponse \/ AccountTurn
  \/ PutOutbound \/ PersistIntent \/ RemoveQueued
  \/ SubmitNotReady \/ SubmitObserve \/ Fill \/ FillFails \/ ClickWithheld \/ Click
  \/ Confirm \/ RecoverSubmission \/ ResolveAgain
  \/ Delivered \/ Doubtful \/ Miscorrelated \/ Undelivered
  \/ Receive \/ ReceiveNothing \/ ReceiveBlocked \/ MarkAnswered \/ RemoveOutbound
  \/ ActUnreadable \/ ActMessage \/ ActRepair \/ ActDecision \/ PersistMoves \/ ActEnd
  \/ ObservationFails \/ TurnsExhausted
  \/ Interrupted \/ Halt

Environment ==
  Start \/ Interrupt \/ Crash \/ PageDelivers \/ PageLoses \/ ModelAnswers

Next == Proceed \/ Environment

\* The runtime is one asynchronous loop whose waits are all bounded; the page,
\* the model and the operator promise nothing.
Spec == Init /\ [][Next]_vars /\ WF_vars(Proceed)

-----------------------------------------------------------------------------
(* Properties *)

\* Wherever the process dies, the next one finds the artifact that the session
\* record sends it to: the queued message, the message of an unanswered
\* submission, or the answer of an answered one.
Recoverable ==
  IF queued # 0 THEN Queued(queued) \in outbox
  ELSE CASE submission.state = "none"     -> turn = 0
         [] submission.state = "answered" -> responses[submission.turn] # 0
         [] OTHER                         -> Sent(submission.id) \in outbox

\* A turn of the budget is spent on each prompt in the conversation and on at
\* most one that is not there yet, whatever crashes and resumes come between.
TurnsSpent == turn \in {Len(chat), Len(chat) + 1}

\* The answer stored for a turn is the answer to that turn's prompt, though
\* it is told from the others by counting only.
OwnAnswers == \A n \in 1..MaxTurn : responses[n] \in {0, n}

\* Nothing is in the conversation that the durable disclosure budget has not
\* been charged for.
DisclosureCovered == Len(chat) + Cardinality(inflight) <= charged

\* What the runtime has spent and what it has sent agree, at every crash.
BudgetsCover == TurnsSpent /\ DisclosureCovered

\* Turns whose answer the runtime acted on for good: the next one is queued,
\* or its exchange has begun.
Acted == IF queued # 0 THEN queued - 1
         ELSE IF submission.state = "none" THEN 0 ELSE submission.turn - 1

Conversation == INSTANCE Dialogue
  WITH prompts <- Len(chat), replies <- Len(answers), acted <- Acted

\* The runtime and the model take turns: no prompt reaches the conversation
\* twice or before the one ahead of it is dealt with, and no answer is acted on
\* twice or before it was given.
TakesTurns == Conversation!Spec

\* A process that runs comes to an end: no retry, repair or wait is unbounded.
Settles == (pc # "down") ~> (pc = "down")

====
