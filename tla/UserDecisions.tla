--------------------------- MODULE UserDecisions ----------------------------
(***************************************************************************)
(* What the operator is asked while a session runs, and what becomes of    *)
(* the answers: the approval of one call, the capability the model asks    *)
(* for, and the budget that is raised when it runs out                     *)
(* (orchestrator/agent-runtime.ts, cli/runtime-composition.ts).            *)
(*                                                                         *)
(* Three durable things carry a decision: the answer itself (an artifact   *)
(* named for the operation it was asked for), the grant (grant.json) and   *)
(* the session record with the hash of the grant and the limits.  They are *)
(* written one after the other and the process may die between any two.    *)
(*                                                                         *)
(* A reply asks for one thing.  The delivery of a prompt and of its answer *)
(* is one step here (TurnExchange has its parts), so is the execution of a *)
(* call (ToolExecution has its parts).  The clock is left out.             *)
(***************************************************************************)
EXTENDS RuntimePolicy

CONSTANTS
  Organization, Repository,   \* the two documents above the session
  Grant,                      \* the session layer the operator agreed to
  Mode,
  Calls,                      \* the calls the model may make
  Requests,                   \* the capabilities it may ask for
  NoticeBytes,                \* the size of a message without source text
  MaxTurns, MaxCrashes        \* bounds of the model

ASSUME DecisionAssumption ==
  /\ NoticeBytes \in Nat \ {0} /\ NoticeBytes <= Envelope
  /\ MaxTurns \in Nat /\ MaxCrashes \in Nat

VARIABLES
  session,    \* session.json
  file,       \* grant.json
  journal,    \* the operations with a record
  answers,    \* the decision artifacts
  pc,         \* where the process is, "down" when there is none
  grant,      \* the session layer in its memory
  verdict,    \* what was said of the call it is at
  decision,   \* what the operator said of it
  error,      \* the budget error it is handling
  active,     \* activeModelTurnId, 0 when there is none
  asking,     \* the question it puts on its own: a request or a raise
  past        \* what happened, for the properties

durable == <<session, file, journal, answers>>
process == <<pc, grant, verdict, decision, error, active, asking>>
vars == <<durable, process, past>>

-----------------------------------------------------------------------------
Terminal == {"completed", "blocked", "failed"}
Decisions == {"deny", "allow_once", "allow_session"}

EngineOf(g) ==
  [organization |-> Organization, repository |-> Repository, mode |-> Mode,
   session |-> [name |-> "session", default |-> "ask", caps |-> g.caps],
   approved |-> g.approved]

FirstGrant == [caps |-> Grant, approved |-> {}]
GrantOf(e) == [caps |-> e.session.caps, approved |-> e.approved]

(* sessionBudgetLimits *)
LimitsOf(g) == [m \in DOMAIN DefaultBudgets |-> Limit(EngineOf(g), m)]

NoError == [metric |-> "none", current |-> 0, limit |-> 0, minimum |-> 0,
            fixed |-> TRUE, queued |-> FALSE]
NoQuestion == << >>

Reply == session.reply[1]
CallId == <<"call", session.turn>>
RequestId == <<"ask", session.turn>>

Put(f, x, y) == With(f, x, y)

(* The state of a meter. *)
CanUse(metric, amount, once) ==
  session.used[metric] + amount <= Given(once, metric, session.limits[metric])

Fits(amounts, once) == \A m \in DOMAIN amounts : CanUse(m, amounts[m], once)

Plus(used, amounts) == [m \in DOMAIN used |-> used[m] + Given(amounts, m, 0)]

(* The most that a kind of message may bring the disclosed bytes to; what  *)
(* is missing is the room the messages that come after it need.            *)
Kept(kind) == CASE kind = "tool_result" -> ControlReserve
                [] kind = "emergency" -> 0
                [] OTHER -> EmergencyReserve

DisclosedLimit(once) == Given(once, "disclosed_bytes", session.limits["disclosed_bytes"])

Disclosable(kind, bytes, once) ==
  session.used["disclosed_bytes"] + bytes <= AtLeast(0, DisclosedLimit(once) - Kept(kind))

(* The shapes of BUDGET_EXCEEDED: minimum is 0 when it is not told, fixed  *)
(* says that raising the limit would not help, queued that a message was   *)
(* queued all the same.                                                    *)
OverLimit(metric) ==
  [metric |-> metric, current |-> session.used[metric], limit |-> session.limits[metric],
   minimum |-> 0, fixed |-> FALSE, queued |-> FALSE]

OverDisclosed(kind, bytes, once) ==
  [metric |-> "disclosed_bytes", current |-> session.used["disclosed_bytes"],
   limit |-> DisclosedLimit(once), fixed |-> FALSE, queued |-> FALSE,
   minimum |-> IF session.used["disclosed_bytes"] > DisclosedLimit(once) THEN 0
               ELSE session.used["disclosed_bytes"] + bytes + Kept(kind)]

OverReservation(bytes, planned) ==
  [metric |-> "disclosed_bytes", current |-> session.used["disclosed_bytes"],
   limit |-> planned, minimum |-> 0, fixed |-> TRUE, queued |-> FALSE]

-----------------------------------------------------------------------------
(* The records of the past. *)

(* The keys that the grant as it was agreed to asks for. *)
AskedOf(e, cut) ==
  {c.key : c \in {d \in Range(AllChecks(e, BuildOperation(e, cut, session.used, cut.lines))) :
                     d.decision = "ask"}}

AskedAtFirst(call) ==
  AskedOf(EngineOf(FirstGrant), EffectiveCall(EngineOf(FirstGrant), call))

Said(id, expansions, choice) ==
  IF choice = "deny" THEN {}
  ELSE {[id |-> id, choice |-> choice, what |-> expansions[i]] : i \in DOMAIN expansions}

Consented(id, expansions, choice) ==
  [past EXCEPT !.consents = @ \cup Said(id, expansions, choice)]

-----------------------------------------------------------------------------
Init ==
  /\ session = [status |-> "awaiting_model", used |-> [m \in DOMAIN DefaultBudgets |-> 0],
                limits |-> LimitsOf(FirstGrant), grant |-> FirstGrant, turn |-> 0, queue |-> 0,
                reply |-> << >>, pending |-> {}, done |-> {}, unreturned |-> {}, streak |-> 0]
  /\ file = FirstGrant
  /\ journal = << >> /\ answers = << >>
  /\ pc = "down" /\ grant = FirstGrant /\ verdict = Verdict("deny") /\ decision = "deny"
  /\ error = NoError /\ active = 0 /\ asking = NoQuestion
  /\ past = [consents |-> {}, ran |-> {}, slipped |-> {}, barren |-> 0, lost |-> FALSE,
             crashes |-> 0]

Idle ==
  /\ pc' = "down" /\ grant' = FirstGrant
  /\ verdict' = Verdict("deny") /\ decision' = "deny" /\ error' = NoError
  /\ active' = 0 /\ asking' = NoQuestion

(* The process stops with a status. *)
Stop(status) ==
  /\ session' = [session EXCEPT !.status = status]
  /\ Idle
  /\ UNCHANGED <<file, journal, answers>>

(* BUDGET_EXCEEDED is thrown with what was changed so far in memory. *)
Throw(e) == error' = e /\ pc' = "exhausted"

(* A budget that ran out may be raised in two places. *)
Exhausted(e, record) ==
  /\ Throw(e) /\ session' = record
  /\ UNCHANGED <<file, answers, grant, verdict, decision, active, asking, past>>

-----------------------------------------------------------------------------
(* Start and resume. *)

RaisePending == {id \in session.pending : id[1] = "raise"}

(* Mutant of Begin: a resume starts to count the pauses afresh. *)
BeginAfresh ==
  /\ pc = "down" /\ session.status \notin Terminal
  /\ file = session.grant
  /\ grant' = file
  /\ session' = [session EXCEPT !.status = "awaiting_model", !.streak = 0]
  /\ IF RaisePending = {} THEN pc' = "ready" /\ asking' = NoQuestion
     ELSE pc' = "reconcile" /\ asking' = CHOOSE id \in RaisePending : TRUE
  /\ UNCHANGED <<file, journal, answers, verdict, decision, error, active, past>>

Begin ==
  /\ pc = "down" /\ session.status \notin Terminal
  /\ file = session.grant
  /\ grant' = file
  /\ session' = [session EXCEPT !.status = "awaiting_model"]
  /\ IF RaisePending = {} THEN pc' = "ready" /\ asking' = NoQuestion
     ELSE pc' = "reconcile" /\ asking' = CHOOSE id \in RaisePending : TRUE
  /\ UNCHANGED <<file, journal, answers, verdict, decision, error, active, past>>

(* A raise that was asked for and not settled is asked for again, or its   *)
(* answer is found.                                                        *)
RaiseExpansion == <<[kind |-> "budget", metric |-> asking[2], limit |-> asking[3]]>>

Settled(record, id) ==
  [record EXCEPT !.pending = @ \ {id}, !.done = @ \cup {id}]

FindRaise ==
  /\ pc = "reconcile" /\ asking \in DOMAIN answers
  /\ decision' = answers[asking].choice /\ pc' = "found"
  /\ UNCHANGED <<durable, grant, verdict, error, active, asking, past>>

AskRaiseAgain ==
  /\ pc = "reconcile" /\ asking \notin DOMAIN answers
  /\ \E choice \in Decisions :
       /\ answers' = Put(answers, asking, [choice |-> choice, about |-> RaiseExpansion])
       /\ past' = Consented(asking, RaiseExpansion, choice)
       /\ decision' = choice
  /\ pc' = "found"
  /\ UNCHANGED <<session, file, journal, grant, verdict, error, active, asking>>

SettleFound ==
  /\ pc = "found"
  /\ journal' = Put(journal, asking, [status |-> "completed"]) /\ pc' = "reconciled"
  /\ UNCHANGED <<session, file, answers, grant, verdict, decision, error, active, asking, past>>

(* persistGrant: the file first, then the session record. *)
WriteGrant(to, next) ==
  /\ file' = to /\ grant' = grant /\ pc' = next
  /\ UNCHANGED <<session, journal, answers, verdict, error, active, asking, past>>

Adopted(record) == [record EXCEPT !.grant = file, !.limits = LimitsOf(file)]

ReconcileRaise ==
  /\ pc = "reconciled"
  /\ LET grown == Expanded(EngineOf(grant), RaiseExpansion, session.used)
     IN  IF decision = "allow_session" /\ grown.outcome = "expanded"
         THEN WriteGrant(GrantOf(grown.engine), "reconcile_adopt") /\ UNCHANGED decision
         ELSE /\ session' = Settled(session, asking) /\ pc' = "ready" /\ asking' = NoQuestion
              /\ decision' = "deny"
              /\ UNCHANGED <<file, journal, answers, grant, verdict, error, active, past>>

ReconcileAdopt ==
  /\ pc = "reconcile_adopt"
  /\ session' = Settled(Adopted(session), asking)
  /\ grant' = file /\ pc' = "ready" /\ asking' = NoQuestion /\ decision' = "deny"
  /\ UNCHANGED <<file, journal, answers, verdict, error, active, past>>

-----------------------------------------------------------------------------
(* The loop of runUntilBudgetBoundary. *)

Ready ==
  /\ pc = "ready"
  /\ \/ session.queue # 0 /\ pc' = "send" /\ UNCHANGED active
     \/ session.queue = 0 /\ session.reply # << >> /\ pc' = "act" /\ active' = session.turn
  /\ UNCHANGED <<durable, grant, verdict, decision, error, asking, past>>

(* The first prompt must leave the room that is kept for the control       *)
(* messages.                                                               *)
Bootstrap ==
  /\ pc = "ready" /\ session.queue = 0 /\ session.turn = 0
  /\ IF session.limits["disclosed_bytes"] < ControlReserve + NoticeBytes
     THEN Stop("failed") /\ UNCHANGED past
     ELSE IF ~Disclosable("bootstrap", NoticeBytes, << >>)
     THEN /\ Exhausted(OverDisclosed("bootstrap", NoticeBytes, << >>), session)
          /\ UNCHANGED journal
     ELSE /\ session' = [session EXCEPT !.queue = 1,
                           !.used = Plus(@, [disclosed_bytes |-> NoticeBytes])]
          /\ pc' = "send"
          /\ UNCHANGED <<file, journal, answers, grant, verdict, decision, error, active,
                         asking, past>>

(* A turn is charged once, also when the process dies before it is sent.   *)
Send ==
  /\ pc = "send" /\ active = 0
  /\ IF session.queue = session.turn
     THEN pc' = "exchange" /\ UNCHANGED <<session, file, answers, grant, verdict, decision,
                                          error, active, asking, past>>
     ELSE IF ~CanUse("turns", 1, << >>)
     THEN Exhausted(OverLimit("turns"), session)
     ELSE /\ session' = [session EXCEPT !.turn = @ + 1, !.used = Plus(@, [turns |-> 1])]
          /\ pc' = "exchange"
          /\ UNCHANGED <<file, answers, grant, verdict, decision, error, active, asking, past>>
  /\ UNCHANGED journal

Replies ==
  {[kind |-> "call", call |-> c] : c \in Calls}
  \cup {[kind |-> "request", what |-> x] : x \in Requests}
  \cup {[kind |-> "complete"]}

Exchange ==
  /\ pc = "exchange"
  /\ \E r \in Replies :
       /\ session.turn >= MaxTurns => r.kind = "complete"
       /\ session' = [session EXCEPT !.queue = 0, !.reply = <<r>>]
  /\ active' = session.turn /\ pc' = "act"
  /\ UNCHANGED <<file, journal, answers, grant, verdict, decision, error, asking, past>>

Complete ==
  /\ pc = "act" /\ Reply.kind = "complete"
  /\ Stop("completed") /\ UNCHANGED past

-----------------------------------------------------------------------------
(* executeCall, up to the execution. *)

Registered(id) == [session EXCEPT !.pending = @ \cup {id},
                     !.used = IF id \in session.pending \cup session.done THEN @
                              ELSE Plus(@, [operations |-> 1])]

Accounted(id) == id \in session.pending \cup session.done \/ CanUse("operations", 1, << >>)

Register ==
  /\ pc = "act" /\ Reply.kind = "call"
  /\ IF CallId \in DOMAIN journal THEN journal[CallId].status = "accepted" ELSE TRUE
  /\ journal' = Put(journal, CallId, [status |-> "accepted"])
  /\ IF ~Accounted(CallId)
     THEN Exhausted(OverLimit("operations"), [session EXCEPT !.status = "executing_tools"])
     ELSE /\ session' = [Registered(CallId) EXCEPT !.status = "executing_tools"]
          /\ pc' = "authorize"
          /\ UNCHANGED <<file, answers, grant, verdict, decision, error, active, asking, past>>

(* A call that was settled before a crash gives its result again.  Its     *)
(* result needs the room it needed then.                                   *)
Replay ==
  /\ pc = "act" /\ Reply.kind = "call"
  /\ CallId \in DOMAIN journal /\ journal[CallId].status # "accepted"
  /\ LET record == journal[CallId]
     IN  IF ~Disclosable("tool_result", record.planned, record.once)
         THEN Exhausted(OverDisclosed("tool_result", record.planned, record.once),
                        [session EXCEPT !.status = "executing_tools"])
         ELSE /\ session' = [session EXCEPT !.status = "executing_tools",
                               !.pending = @ \ {CallId}, !.done = @ \cup {CallId},
                               !.unreturned = @ \cup {CallId}]
              /\ pc' = "render"
              /\ verdict' = [Verdict("allow") EXCEPT !.planned = record.planned,
                                                     !.once = record.once]
              /\ UNCHANGED <<file, answers, grant, decision, error, active, asking, past>>
  /\ UNCHANGED journal

(* What the meter must have room for before a call runs. *)
Needed(call, v) ==
  [m \in (IF v.mutation = << >> THEN {} ELSE {"changed_files", "changed_lines"})
         \cup (IF RunsCommand(call) THEN {"commands"} ELSE {})
         \cup (IF call.tool = "read_file" THEN {"read_files"} ELSE {}) |->
     CASE m = "changed_files" -> v.mutation[1].files
       [] m = "changed_lines" -> v.mutation[1].lines
       [] OTHER -> 1]

Onward(v) == CASE v.outcome = "allow" -> "reserve" [] OTHER -> "refuse"

(* After an approval the budgets are looked at once more. *)
Approval(call, v) ==
  IF v.outcome = "allow" /\ ~Fits(Needed(call, v), v.once) THEN Verdict("deny") ELSE v

AuthorizeCall ==
  /\ pc = "authorize"
  /\ verdict' = Authorize(EngineOf(grant), Reply.call, session.used)
  /\ IF verdict'.outcome = "ask"
     THEN pc' = "prompt" /\ session' = [session EXCEPT !.status = "awaiting_user"]
     ELSE pc' = Onward(verdict') /\ UNCHANGED session
  /\ UNCHANGED <<file, journal, answers, grant, decision, error, active, asking, past>>

(* The answer is stored under the operation, without what it was asked     *)
(* about, and is found there by whoever asks for the same operation.       *)
Prompt ==
  /\ pc = "prompt" /\ CallId \notin DOMAIN answers
  /\ \/ \E choice \in Decisions :
          /\ answers' = Put(answers, CallId, [choice |-> choice, about |-> verdict.expansion])
          /\ past' = Consented(CallId, verdict.expansion, choice)
          /\ decision' = choice /\ pc' = "decided"
          /\ UNCHANGED <<session, file, journal, grant, verdict, error, active, asking>>
     \/ Stop("failed") /\ UNCHANGED past

Recall ==
  /\ pc = "prompt" /\ CallId \in DOMAIN answers
  /\ decision' = answers[CallId].choice /\ pc' = "decided"
  /\ past' = IF answers[CallId].about = verdict.expansion THEN past
             ELSE [past EXCEPT !.slipped = @ \cup
                     Said(CallId, verdict.expansion, answers[CallId].choice)]
  /\ UNCHANGED <<durable, grant, verdict, error, active, asking>>

Working == [session EXCEPT !.status = "executing_tools"]

(* Mutant of AllowOnce: what was approved for one call stays approved. *)
AllowOnceForGood ==
  /\ pc = "decided" /\ decision = "allow_once"
  /\ LET grown == Expanded(EngineOf(grant), verdict.expansion, session.used)
     IN  /\ grant' = IF grown.outcome = "expanded" THEN GrantOf(grown.engine) ELSE grant
         /\ verdict' = Approval(Reply.call, AuthorizeOnce(EngineOf(grant), verdict.expansion,
                                                          Reply.call, session.used))
  /\ pc' = Onward(verdict') /\ session' = Working
  /\ UNCHANGED <<file, journal, answers, decision, error, active, asking, past>>

AllowOnce ==
  /\ pc = "decided" /\ decision = "allow_once"
  /\ verdict' = Approval(Reply.call, AuthorizeOnce(EngineOf(grant), verdict.expansion,
                                                   Reply.call, session.used))
  /\ pc' = Onward(verdict') /\ session' = Working
  /\ UNCHANGED <<file, journal, answers, grant, decision, error, active, asking, past>>

Deny ==
  /\ pc = "decided" /\ decision = "deny"
  /\ pc' = "refuse" /\ session' = Working
  /\ UNCHANGED <<file, journal, answers, grant, verdict, decision, error, active, asking, past>>

AllowSession ==
  /\ pc = "decided" /\ decision = "allow_session"
  /\ LET grown == Expanded(EngineOf(grant), verdict.expansion, session.used)
     IN  IF grown.outcome = "expanded"
         THEN WriteGrant(GrantOf(grown.engine), "adopt") /\ UNCHANGED decision
         ELSE /\ verdict' = Verdict("deny") /\ pc' = "refuse" /\ session' = Working
              /\ UNCHANGED <<file, journal, answers, grant, decision, error, active, asking,
                             past>>

AdoptGrant ==
  /\ pc = "adopt"
  /\ session' = Adopted(session) /\ grant' = file /\ pc' = "reauthorize"
  /\ UNCHANGED <<file, journal, answers, verdict, decision, error, active, asking, past>>

(* A second question is not put: the call is refused. *)
Reauthorize ==
  /\ pc = "reauthorize"
  /\ verdict' = Approval(Reply.call, Authorize(EngineOf(grant), Reply.call, session.used))
  /\ pc' = Onward(verdict') /\ session' = Working
  /\ UNCHANGED <<file, journal, answers, grant, decision, error, active, asking, past>>

-----------------------------------------------------------------------------
(* From the permission to the result. *)

Ran(call) ==
  [past EXCEPT !.ran = @ \cup {[id |-> CallId, call |-> call, asked |-> AskedAtFirst(call)]}]

Record(status, success) ==
  [status |-> status, success |-> success, planned |-> verdict.planned, once |-> verdict.once]

Returning(record) ==
  [record EXCEPT !.pending = @ \ {CallId}, !.done = @ \cup {CallId},
                 !.unreturned = @ \cup {CallId}]

(* The room for the result is kept before the call runs; a reply has one    *)
(* call here, so nothing else is kept.                                      *)
Reservable == Disclosable("tool_result", verdict.planned, verdict.once)

Permitted == Fits(Needed(Reply.call, verdict), verdict.once) /\ Reservable

NotPermitted ==
  /\ pc = "reserve" /\ ~Permitted
  /\ verdict' = Verdict("deny") /\ pc' = "refuse"
  /\ UNCHANGED <<durable, grant, decision, error, active, asking, past>>

(* The output of a command is charged when it is there; that it no longer  *)
(* fits stops the session, the command being done.                         *)
Execute ==
  /\ pc = "reserve" /\ Permitted
  /\ LET call == Reply.call
         needed == Needed(call, verdict)
         effects == {"changed_files", "changed_lines"}
         before == [m \in DOMAIN needed \ effects |-> 1]
         Output(b) == IF call.tool = "run_command" THEN [command_output_bytes |-> b] ELSE << >>
     IN  \E success \in BOOLEAN :
           LET output == Output(IF success THEN call.command[1].output ELSE 0)
               after == IF success THEN needed @@ output ELSE before @@ output
           IN  /\ journal' = Put(journal, CallId, Record("completed", success))
               /\ past' = Ran(call)
               /\ IF Fits(output, verdict.once)
                  THEN /\ session' = Returning([session EXCEPT !.used = Plus(@, after)])
                       /\ pc' = "render" /\ UNCHANGED error
                  ELSE /\ session' = Returning([session EXCEPT !.used = Plus(@, before)])
                       /\ Throw(OverLimit("command_output_bytes"))
  /\ UNCHANGED <<file, answers, grant, verdict, decision, active, asking>>

Refuse ==
  /\ pc = "refuse"
  /\ journal' = Put(journal, CallId,
                    [status |-> "failed", success |-> FALSE, planned |-> Envelope, once |-> << >>])
  /\ verdict' = Verdict("deny") /\ pc' = "refused"
  /\ UNCHANGED <<session, file, answers, grant, decision, error, active, asking, past>>

Refused ==
  /\ pc = "refused"
  /\ session' = Returning(session) /\ pc' = "render"
  /\ UNCHANGED <<file, journal, answers, grant, verdict, decision, error, active, asking, past>>

(* A message is queued for the next turn. *)
Queued(bytes) ==
  [session EXCEPT !.queue = session.turn + 1, !.reply = << >>, !.status = "awaiting_model",
                  !.unreturned = @ \ {CallId},
                  !.used = Plus(@, [disclosed_bytes |-> bytes])]

ResultSizes ==
  IF journal[CallId].success THEN {NoticeBytes, verdict.planned, verdict.planned + 1}
  ELSE {NoticeBytes}

OverReserved(bytes) == verdict.planned > 0 /\ bytes > verdict.planned

Render ==
  /\ pc = "render"
  /\ \E bytes \in ResultSizes :
       /\ ~OverReserved(bytes) /\ Disclosable("tool_result", bytes, verdict.once)
       /\ session' = Queued(bytes)
       /\ past' = IF journal[CallId].success THEN [past EXCEPT !.barren = 0] ELSE past
  /\ pc' = IF journal[CallId].success THEN "returned" ELSE "after"
  /\ UNCHANGED <<file, journal, answers, grant, verdict, decision, error, active, asking>>

(* What the model is told in place of a result that does not fit: which     *)
(* budget left it out, and what it would have taken.                        *)
Omitted(bytes) ==
  LET over == IF OverReserved(bytes) THEN OverReservation(bytes, verdict.planned)
              ELSE OverDisclosed("tool_result", bytes, verdict.once)
  IN  [over EXCEPT !.queued = TRUE]

(* The model is told that the result does not fit, if that still fits. *)
RenderShort ==
  /\ pc = "render"
  /\ \E bytes \in ResultSizes :
       /\ OverReserved(bytes) \/ ~Disclosable("tool_result", bytes, verdict.once)
       /\ IF Disclosable("decision", NoticeBytes, verdict.once)
          THEN /\ session' = Queued(NoticeBytes) /\ pc' = "after"
               /\ error' = Omitted(bytes)
               /\ UNCHANGED <<file, answers, grant, verdict, decision, active, asking, past>>
          ELSE Exhausted(OverDisclosed("decision", NoticeBytes, verdict.once),
                         [session EXCEPT !.status = "returning_results"])
  /\ UNCHANGED journal

(* A result that went out forgives the pauses before it. *)
Forgive ==
  /\ pc = "returned"
  /\ session' = [session EXCEPT !.streak = 0] /\ pc' = "after"
  /\ UNCHANGED <<file, journal, answers, grant, verdict, decision, error, active, asking, past>>

After ==
  /\ pc = "after"
  /\ active' = 0 /\ verdict' = Verdict("deny") /\ decision' = "deny"
  /\ pc' = IF error = NoError THEN "send" ELSE "exhausted"
  /\ UNCHANGED <<durable, grant, error, asking, past>>


-----------------------------------------------------------------------------
(* executeUserDecision: a question of the model or one of the budget's.    *)

About == IF asking[1] = "raise" THEN RaiseExpansion ELSE Reply.what

StartRequest ==
  /\ pc = "act" /\ Reply.kind = "request"
  /\ session' = [session EXCEPT !.status = "awaiting_user"]
  /\ asking' = RequestId /\ pc' = "question"
  /\ UNCHANGED <<file, journal, answers, grant, verdict, decision, error, active, past>>

(* Only what the model asks counts as an operation. *)
Question ==
  /\ pc = "question"
  /\ asking \in DOMAIN journal => journal[asking].status = "accepted"
  /\ journal' = Put(journal, asking, [status |-> "accepted"])
  /\ IF asking[1] = "ask" /\ ~Accounted(asking)
     THEN Exhausted(OverLimit("operations"), session)
     ELSE /\ session' = IF asking[1] = "ask" THEN Registered(asking)
                        ELSE [session EXCEPT !.pending = @ \cup {asking}]
          /\ pc' = "put"
          /\ UNCHANGED <<file, answers, grant, verdict, decision, error, active, asking, past>>

(* What was answered once is the answer. *)
ReplayAnswer ==
  /\ pc = "question"
  /\ asking \in DOMAIN journal /\ journal[asking].status = "completed"
  /\ decision' = answers[asking].choice
  /\ session' = Settled(session, asking) /\ pc' = "answered"
  /\ UNCHANGED <<file, journal, answers, grant, verdict, error, active, asking, past>>

(* What cannot change anything is denied without the operator.  Where the  *)
(* operator cannot be reached the session fails; a raise is then denied.   *)
AskOperator ==
  /\ pc = "put" /\ asking \notin DOMAIN answers
  /\ LET pointless == /\ asking[1] = "ask"
                      /\ Assess(EngineOf(grant), About, session.used) # "change"
     IN  \/ \E choice \in IF pointless THEN {"deny"} ELSE Decisions :
              /\ answers' = Put(answers, asking, [choice |-> choice, about |-> About])
              /\ past' = Consented(asking, About, choice)
              /\ decision' = choice /\ pc' = "mark"
              /\ UNCHANGED <<session, file, journal, grant, verdict, error, active, asking>>
         \/ asking[1] = "ask" /\ ~pointless /\ Stop("failed") /\ UNCHANGED past

FindAnswer ==
  /\ pc = "put" /\ asking \in DOMAIN answers
  /\ decision' = answers[asking].choice /\ pc' = "mark"
  /\ UNCHANGED <<durable, grant, verdict, error, active, asking, past>>

Mark ==
  /\ pc = "mark"
  /\ journal' = Put(journal, asking, [status |-> "completed"]) /\ pc' = "settle"
  /\ UNCHANGED <<session, file, answers, grant, verdict, decision, error, active, asking, past>>

Settle ==
  /\ pc = "settle"
  /\ session' = Settled(session, asking) /\ pc' = "answered"
  /\ UNCHANGED <<file, journal, answers, grant, verdict, decision, error, active, asking, past>>

(* Mutant of Ineffective: a raise that was answered counts as made. *)
IneffectiveRaises == IF asking[1] = "raise" THEN "raised" ELSE "tell"

Ineffective == IF asking[1] = "raise" THEN "notraised" ELSE "tell"

(* An approval of one operation has none to bind to here. *)
ApplyAnswer ==
  /\ pc = "answered"
  /\ LET grown == Expanded(EngineOf(grant), About, session.used)
     IN  IF decision = "allow_session" /\ grown.outcome = "expanded"
         THEN WriteGrant(GrantOf(grown.engine), "granted")
         ELSE /\ pc' = Ineffective
              /\ UNCHANGED <<durable, grant, verdict, error, active, asking, past>>
  /\ UNCHANGED decision

AdoptAnswer ==
  /\ pc = "granted"
  /\ session' = Adopted(session) /\ grant' = file
  /\ pc' = IF asking[1] = "raise" THEN "raised" ELSE "tell"
  /\ UNCHANGED <<file, journal, answers, verdict, decision, error, active, asking, past>>

(* The model is told, which is charged before the message is queued. *)
Tell ==
  /\ pc = "tell"
  /\ IF ~Disclosable("decision", NoticeBytes, << >>)
     THEN Exhausted(OverDisclosed("decision", NoticeBytes, << >>), session)
     ELSE /\ session' = [session EXCEPT !.status = "awaiting_model",
                           !.used = Plus(@, [disclosed_bytes |-> NoticeBytes])]
          /\ pc' = "answer"
          /\ UNCHANGED <<file, answers, grant, verdict, decision, error, active, asking, past>>
  /\ UNCHANGED journal

QueueAnswer ==
  /\ pc = "answer"
  /\ session' = Queued(0)
  /\ active' = 0 /\ asking' = NoQuestion /\ decision' = "deny" /\ pc' = "send"
  /\ UNCHANGED <<file, journal, answers, grant, verdict, error, past>>

-----------------------------------------------------------------------------
(* recoverFromBudgetExhaustion. *)

(* budgetRecoveryCapability: the least that is known to help. *)
LeastLimit(e) == IF e.minimum > 0 THEN e.minimum ELSE AtLeast(e.current, e.limit) + 1

(* As much as the layers above allow is asked for, where they say.         *)
Recover ==
  /\ pc = "exhausted"
  /\ LET metric == error.metric
         least == LeastLimit(error)
         Helps(limit) ==
           Assess(EngineOf(grant), <<[kind |-> "budget", metric |-> metric, limit |-> limit]>>,
                  session.used) = "change"
         most == Ceiling(EngineOf(grant), metric, 0)
         limit == IF most > least /\ Helps(most) THEN most ELSE least
         turn == IF active # 0 THEN active ELSE session.turn
     IN  IF error.fixed \/ ~Helps(least)
         THEN pc' = "notraised" /\ asking' = NoQuestion
         ELSE pc' = "question" /\ asking' = <<"raise", metric, limit, turn>>
  /\ UNCHANGED <<durable, grant, verdict, decision, error, active, past>>

(* The session goes on, with the message that waits or from its record.    *)
Raised ==
  /\ pc = "raised"
  /\ session' = [session EXCEPT !.streak = 0, !.status = "awaiting_model"]
  /\ pc' = IF error.queued THEN "send" ELSE "ready"
  /\ active' = 0 /\ error' = NoError /\ asking' = NoQuestion
  /\ decision' = "deny" /\ verdict' = Verdict("deny")
  /\ past' = [past EXCEPT !.barren = 0]
  /\ UNCHANGED <<file, journal, answers, grant>>

(* Mutant of Noticeable: the notice is queued without its charge being     *)
(* checked.                                                                *)
NoticeableAlways ==
  session.queue = 0 /\ active # 0 /\ NoticeBytes <= EmergencyReserve

(* queueEmergencyBudgetNotice: the room kept for it is the last there is.  *)
Noticeable ==
  /\ session.queue = 0 /\ active # 0
  /\ NoticeBytes <= EmergencyReserve /\ Disclosable("emergency", NoticeBytes, << >>)

Notify ==
  /\ pc = "notraised"
  /\ session' = IF ~Noticeable THEN session
                ELSE [session EXCEPT !.status = "returning_results",
                        !.used = Plus(@, [disclosed_bytes |-> NoticeBytes])]
  /\ pc' = IF Noticeable THEN "notice" ELSE "pause"
  /\ UNCHANGED <<file, journal, answers, grant, verdict, decision, error, active, asking, past>>

QueueNotice ==
  /\ pc = "notice"
  /\ session' = [Queued(0) EXCEPT !.unreturned = {}]
  /\ active' = 0 /\ pc' = "pause"
  /\ UNCHANGED <<file, journal, answers, grant, verdict, decision, error, asking, past>>

(* pauseForBudget: the count is stored, and then the pause; the second one *)
(* in a row is stored with the block it leads to.                          *)
Pause ==
  /\ pc = "pause"
  /\ past' = [past EXCEPT !.barren = @ + 1]
  /\ IF session.streak + 1 >= 2
     THEN session' = [session EXCEPT !.streak = @ + 1, !.status = "blocked"] /\ Idle
     ELSE /\ session' = [session EXCEPT !.streak = @ + 1] /\ pc' = "paused"
          /\ UNCHANGED <<grant, verdict, decision, error, active, asking>>
  /\ UNCHANGED <<file, journal, answers>>

PauseCounted ==
  /\ pc = "paused"
  /\ session' = [session EXCEPT !.status = "paused"]
  /\ Idle
  /\ UNCHANGED <<file, journal, answers, past>>

-----------------------------------------------------------------------------
Crash ==
  /\ pc # "down" /\ past.crashes < MaxCrashes
  /\ Idle
  /\ past' = [past EXCEPT !.crashes = @ + 1, !.lost = @ \/ pc = "returned"]
  /\ UNCHANGED durable

Step ==
  \/ FindRaise \/ AskRaiseAgain \/ SettleFound \/ ReconcileRaise \/ ReconcileAdopt
  \/ Ready \/ Bootstrap \/ Send \/ Exchange \/ Complete
  \/ Register \/ Replay \/ AuthorizeCall \/ Prompt \/ Recall
  \/ AllowOnce \/ Deny \/ AllowSession \/ AdoptGrant \/ Reauthorize
  \/ NotPermitted \/ Execute \/ Refuse \/ Refused
  \/ Render \/ RenderShort \/ Forgive \/ After
  \/ StartRequest \/ Question \/ ReplayAnswer \/ AskOperator \/ FindAnswer
  \/ Mark \/ Settle \/ ApplyAnswer \/ AdoptAnswer \/ Tell \/ QueueAnswer
  \/ Recover \/ Raised \/ Notify \/ QueueNotice \/ Pause \/ PauseCounted

Next == Begin \/ Step \/ Crash

(* The process takes its next step as long as there is one: it is always   *)
(* at one place and each step leads to another.                            *)
Places ==
  {"down", "ready", "reconcile", "found", "reconciled", "reconcile_adopt", "send", "exchange",
   "act", "authorize", "prompt", "decided", "adopt", "reauthorize", "reserve", "refuse",
   "refused", "render", "returned", "after", "question", "put", "mark", "settle", "answered",
   "granted", "tell", "answer", "exhausted", "raised", "notraised", "notice", "pause",
   "paused"}

Moves == pc # "down" /\ pc' \in Places \ {pc}

Spec == Init /\ [][Next]_vars /\ WF_pc(Moves)

-----------------------------------------------------------------------------
(* Properties. *)

Metric == {Metrics[i] : i \in DOMAIN Metrics}

(* What an approval is taken to cover: its own key; a command brings the   *)
(* commands of its risk, a host the network.                               *)
Covers(x, key, call) ==
  \/ ExpansionKey(x) = key
  \/ x.kind = "command" /\ key[1] = "command" /\ call.command[1].risk = x.risk
  \/ x.kind = "network" /\ key[1] = "network"

CoveredBy(consents, run, key) ==
  \E c \in consents :
    /\ Covers(c.what, key, run.call)
    /\ c.choice = "allow_session" \/ c.id = run.id

(* No call runs that the agreed grant would have asked about unless the    *)
(* operator said yes to each question of it, for the session or for this   *)
(* very operation; over crashes, resumes, expansions and replayed answers. *)
(* What was slipped in by an answer to another question is set apart.      *)
RanWithConsent ==
  \A run \in past.ran : \A key \in run.asked :
    CoveredBy(past.consents \cup past.slipped, run, key)

(* docs/OPERATOR-GUIDE.md:128: a higher-layer ask requires the user's      *)
(* explicit scoped session approval: without the exception above.          *)
ConsentedOnly ==
  \A run \in past.ran : \A key \in run.asked : CoveredBy(past.consents, run, key)

(* No budget is used beyond what was agreed to at the start or raised by   *)
(* the operator, be it for one operation, and none is raised beyond what   *)
(* the layers above allow: however charges, overdrafts, emergency notices  *)
(* and crashes follow each other.                                          *)
UseWithinConsent ==
  \A m \in Metric :
    LET raises == {c.what.limit : c \in {d \in past.consents \cup past.slipped :
                      d.what.kind = "budget" /\ d.what.metric = m}}
    IN  /\ \E n \in {LimitsOf(FirstGrant)[m]} \cup raises : session.used[m] <= n
        /\ session.limits[m] <= Ceiling(EngineOf(FirstGrant), m, session.limits[m])

(* A session pauses for a budget at most twice between two results that    *)
(* went out, and is blocked then and not before; unless a crash fell       *)
(* between the message and the reset of the count.                         *)
PausesBounded ==
  /\ past.barren <= 2
  /\ past.barren = 2 => session.status = "blocked"
  /\ session.status = "blocked" => past.barren = 2 \/ past.lost

(* Every run of the process ends, in completion, a pause, a block or a     *)
(* failure: the raises do not keep it going without end.                   *)
EachRunEnds == pc # "down" ~> pc = "down"

=============================================================================
