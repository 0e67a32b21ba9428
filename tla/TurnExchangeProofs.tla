-------------------------- MODULE TurnExchangeProofs --------------------------
(***************************************************************************)
(* Proofs about TurnExchange, for any budget of turns and repairs and any  *)
(* number of crashes and interruptions: what a new process is sent to is   *)
(* there, what was spent covers what was sent, each stored answer is that  *)
(* of its own prompt, and the exchange implements Dialogue.                *)
(***************************************************************************)
EXTENDS TurnExchange, SequenceTheorems, FiniteSetTheorems, TLAPS

------------------------------------------------------------------------------
(* The inductive invariant. *)

Prompt == [id : Nat, turn : Nat, base : Nat]
States == {"none", "prepared", "submitted", "indeterminate", "answered"}
Receipts == {"none", "not-submitted", "submitted", "indeterminate"}

TypeOK ==
  /\ turn \in 0..MaxTurn /\ queued \in Nat
  /\ submission \in [state : States, turn : Nat, id : Nat]
  /\ charged \in Nat /\ unsaved \in Nat
  /\ responses \in [1..MaxTurn -> Nat]
  /\ receipt \in Receipts
  /\ record \in [base : Nat, activated : BOOLEAN, receipt : Receipts]
  /\ chat \in Seq(Prompt) /\ answers \in Seq(Nat)
  /\ issued \in Nat

\* An exchange is under way: its intent is stored, and no later message is queued.
Opened == queued = 0 /\ submission.state # "none"

\* Its turn is charged, and the message still queued.
Reopened == queued # 0 /\ queued = turn

\* What the records say of the turn.
Turns ==
  /\ queued \in {0, turn, turn + 1}
  /\ Opened => submission.turn = turn /\ turn # 0
  /\ ~ Opened => submission.state \in {"none", "answered"}
  /\ submission.state = "none" => IF Reopened THEN turn = 1 ELSE turn = 0
  /\ submission.id <= issued

\* The conversation: the prompts of the turns, in order, and their answers.
Talk ==
  /\ \A i \in 1..Len(chat) : chat[i].turn = i /\ chat[i].base = i - 1
  /\ \A i \in 1..Len(answers) : answers[i] = i
  /\ Len(answers) <= Len(chat)

\* Between two exchanges every prompt has its answer.
Quiet ==
  ~ Opened =>
    /\ inflight = {} /\ Len(answers) = Len(chat)
    /\ Len(chat) = IF Reopened THEN turn - 1 ELSE turn
    /\ \A i \in 1..Len(chat) : chat[i].id <= submission.id

\* The prompt of the exchange is in the conversation, or may be under way.
Prompted ==
  Opened =>
    /\ Len(chat) \in {turn - 1, turn} /\ turn - 1 <= Len(answers)
    /\ inflight \subseteq {[id |-> submission.id, turn |-> turn, base |-> turn - 1]}
    /\ Len(chat) = turn => inflight = {} /\ chat[turn].id = submission.id
    /\ \A i \in 1..(turn - 1) : chat[i].id < submission.id
    /\ submission.state = "answered" => Len(answers) = turn

Unsent == Len(chat) = turn - 1 /\ inflight = {}

\* Where the process is before an exchange, with the message it makes.
Making == {"decide", "queue", "queued"}
\* Where it is in the adapter.
Sending == {"submit", "fill", "click", "confirm", "receipt", "resolve", "receive", "recover"}

Course ==
  /\ pc \in Making \cup {"act"} =>
       queued = 0 /\ submission.state \in {"none", "answered"}
  /\ pc = "act" => submission.state = "answered"
  /\ pc = "queued" => Queued(turn + 1) \in outbox
  /\ pc = "unreply" => queued = turn + 1
  /\ pc = "turn" => queued # 0
  /\ pc \in {"exchange", "intent"} => Reopened
  /\ pc = "intent" => Sent(issued) \in outbox /\ submission.id < issued
  /\ pc = "unqueue" => Opened /\ submission.state # "answered" /\ Unsent
  /\ pc \in Sending => Opened /\ submission.state # "answered"
  /\ pc = "answered" =>
       Opened /\ submission.state # "answered" /\ responses[turn] = turn /\ Len(answers) = turn
  /\ pc = "unsend" => Opened /\ submission.state = "answered"

\* What the adapter's record is worth, where it is gone by.
Trusted ==
  \/ pc \in {"fill", "click", "confirm", "resolve", "recover", "receive"}
  \/ pc = "receipt" /\ receipt # "not-submitted"

Recording ==
  /\ pc \in {"submit", "fill", "click"} => Unsent
  /\ Trusted /\ record # NoRecord =>
       /\ record.base = turn - 1
       /\ ~ record.activated /\ record.receipt # "submitted" => Unsent
  /\ pc \in {"fill", "click"} => record # NoRecord /\ ~ record.activated
                                 /\ record.receipt # "submitted"
  /\ pc = "confirm" => record # NoRecord /\ record.activated
  /\ pc = "recover" => record = NoRecord
  /\ pc = "receipt" /\ receipt = "submitted" => record.receipt = "submitted"
  /\ pc = "receive" => record # NoRecord
  /\ pc \in {"down", "start"} => record = NoRecord

\* What has been charged.
Charges ==
  /\ turn <= charged
  /\ queued = turn + 1 => turn + 1 <= charged
  /\ pc \in Making => turn + 1 <= charged + unsaved

IInv == /\ TypeOK /\ Turns /\ Talk /\ Quiet /\ Prompted /\ Course /\ Recording /\ Charges
        /\ Recoverable /\ OwnAnswers

------------------------------------------------------------------------------
(* Facts. *)

\* A queued message and one that is being sent are stored under different keys.
LEMMA KeysDiffer == \A m, n : Queued(m) # Sent(n)
  BY DEF Queued, Sent

LEMMA Lengths ==
  ASSUME TypeOK
  PROVE  /\ Len(chat) \in Nat /\ DOMAIN chat = 1..Len(chat)
         /\ Len(answers) \in Nat /\ DOMAIN answers = 1..Len(answers)
         /\ \A i \in 1..Len(chat) : chat[i] \in Prompt
  <1>1. chat \in Seq(Prompt) /\ answers \in Seq(Nat)
    BY DEF TypeOK
  <1> QED
    BY <1>1, LenProperties, ElementOfSeq

\* The marker shows the prompt of the exchange under way and no other.
LEMMA ShownIs ==
  ASSUME IInv, Opened
  PROVE  /\ Shown = IF Len(chat) = turn THEN {turn} ELSE {}
         /\ Shown # {} => MarkerBase = turn - 1
         /\ \A seen \in MarkerSeen : seen \in BOOLEAN /\ (seen => Shown # {})
  <1> PICK n : n = Len(chat)
    OBVIOUS
  <1>1. n \in Nat /\ DOMAIN chat = 1..n /\ turn \in Nat /\ turn # 0
        /\ submission.id \in Nat /\ \A i \in 1..n : chat[i].id \in Nat
    BY Lengths DEF IInv, TypeOK, Turns, Prompt
  <1>2. /\ n \in {turn - 1, turn}
        /\ n = turn => chat[turn].id = submission.id
        /\ \A i \in 1..(turn - 1) : chat[i].id < submission.id
    BY DEF IInv, Prompted
  <1>3. ASSUME NEW i \in 1..n, i # turn
        PROVE  chat[i].id # submission.id
    <2>1. i \in 1..(turn - 1)
      BY <1>1, <1>2, <1>3
    <2>2. chat[i].id \in Nat /\ chat[i].id < submission.id
      BY <1>1, <1>2, <2>1
    <2> QED
      BY <1>1, <2>2
  <1>4. Shown = IF Len(chat) = turn THEN {turn} ELSE {}
    <2>1. Shown = {i \in 1..n : chat[i].id = submission.id}
      BY <1>1 DEF Shown
    <2>2. CASE n = turn
      BY <1>1, <1>2, <1>3, <2>1, <2>2
    <2>3. CASE n = turn - 1
      BY <1>1, <1>2, <1>3, <2>1, <2>3
    <2> QED
      BY <1>2, <2>2, <2>3
  <1>5. ASSUME Shown # {}
        PROVE  MarkerBase = turn - 1
    <2>1. (CHOOSE i \in Shown : TRUE) = turn /\ Len(chat) = turn
      BY <1>4, <1>5
    <2>2. chat[turn].base = turn - 1
      BY <1>1, <2>1 DEF IInv, Talk
    <2> QED
      BY <2>1, <2>2 DEF MarkerBase
  <1>6. \A seen \in MarkerSeen : seen \in BOOLEAN /\ (seen => Shown # {})
    BY DEF MarkerSeen
  <1> QED
    BY <1>4, <1>5, <1>6

------------------------------------------------------------------------------
(* The steps of the process that store nothing of the turn. *)

\* What is not about the process.
Standing == Turns /\ Talk /\ Quiet /\ Prompted /\ Recoverable /\ OwnAnswers

Remains ==
  UNCHANGED <<turn, queued, submission, responses, outbox, inflight, chat, answers, issued>>

LEMMA Stands ==
  ASSUME IInv, Remains
  PROVE  Standing'
  BY DEF IInv, Remains, Standing, Turns, Talk, Quiet, Prompted, Recoverable, OwnAnswers,
     Opened, Reopened

\* The process is gone, by itself or with a crash.
LEMMA GoneStep ==
  ASSUME IInv, Remains, UNCHANGED charged, Gone
  PROVE  IInv'
  <1>1. Standing'
    BY Stands
  <1>2. TypeOK'
    BY DEF Remains, Gone, Goto, IInv, TypeOK, Receipts, NoRecord
  <1>3. Course' /\ Recording' /\ Charges'
    BY DEF Remains, Gone, Goto, IInv, Course, Recording, Charges, Making, Sending, Trusted,
       Unsent, Opened, Reopened
  <1> QED
    BY <1>1, <1>2, <1>3 DEF IInv, Standing

\* It goes on to another place.
MovesTo(p) == Remains /\ pc' = p /\ UNCHANGED <<charged, unsaved, receipt, record>>

LEMMA GoOnStep ==
  ASSUME IInv, NEW p, MovesTo(p),
         p \in {"halt", "turn", "exchange", "act", "recover", "click", "start"},
         p = "turn" => queued # 0,
         p = "exchange" => Reopened,
         p = "act" => queued = 0 /\ submission.state = "answered",
         p = "recover" => Opened /\ submission.state # "answered" /\ record = NoRecord,
         p = "click" => pc = "fill",
         p = "start" => record = NoRecord
  PROVE  IInv'
  <1>1. /\ Remains /\ pc' = p
        /\ UNCHANGED <<charged, unsaved, receipt, record>>
    BY DEF MovesTo
  <1>2. Standing'
    BY <1>1, Stands
  <1>3. TypeOK'
    BY <1>1 DEF Remains, IInv, TypeOK
  <1>4. Course'
    BY <1>1 DEF Remains, IInv, Course, Making, Sending, Opened, Reopened, Unsent
  <1>5. Recording'
    BY <1>1 DEF Remains, IInv, Recording, Trusted, Unsent
  <1>6. Charges'
    BY <1>1 DEF Remains, IInv, Charges, Making
  <1> QED
    BY <1>2, <1>3, <1>4, <1>5, <1>6 DEF IInv, Standing

\* A message is made of the answer in hand, or the first of all.
LEMMA SerializeStep ==
  ASSUME IInv, NEW what, NEW p \in {"queue", "decide"}, Serialize(what, p),
         queued = 0, submission.state \in {"none", "answered"}
  PROVE  IInv'
  <1>1. /\ Remains /\ pc' = p /\ unsaved' = unsaved + 1
        /\ UNCHANGED <<charged, receipt, record>>
    BY DEF Serialize, Goto, Remains, session, artifacts, page, world
  <1>2. Standing'
    BY <1>1, Stands
  <1>3. TypeOK'
    BY <1>1 DEF Remains, IInv, TypeOK
  <1>4. Course'
    BY <1>1 DEF Remains, IInv, Course, Making, Sending, Opened, Reopened, Unsent
  <1>5. Recording'
    BY <1>1 DEF Remains, IInv, Recording, Trusted, Unsent
  <1>6. Charges'
    BY <1>1 DEF Remains, IInv, TypeOK, Charges, Making
  <1> QED
    BY <1>2, <1>3, <1>4, <1>5, <1>6 DEF IInv, Standing

\* The adapter answers with a receipt, or the prompt is to be sent once more.
LEMMA ReturnStep ==
  ASSUME IInv, NEW r \in Receipts, NEW rec, NEW p \in {"receipt", "submit"}, Return(r, rec, p),
         rec \in [base : Nat, activated : BOOLEAN, receipt : Receipts],
         Opened, submission.state # "answered",
         p = "submit" => Unsent,
         p = "receipt" /\ r # "not-submitted" /\ rec # NoRecord =>
           /\ rec.base = turn - 1
           /\ ~ rec.activated /\ rec.receipt # "submitted" => Unsent,
         p = "receipt" /\ r = "submitted" => rec.receipt = "submitted"
  PROVE  IInv'
  <1>1. /\ Remains /\ pc' = p /\ receipt' = r /\ record' = rec
        /\ UNCHANGED <<charged, unsaved>>
    BY DEF Return, Goto, Remains, session, artifacts, page
  <1>2. Standing'
    BY <1>1, Stands
  <1>3. TypeOK'
    BY <1>1 DEF Remains, IInv, TypeOK
  <1>4. Course'
    BY <1>1 DEF Remains, IInv, Course, Making, Sending, Opened, Reopened, Unsent
  <1>5. Recording'
    BY <1>1 DEF Remains, IInv, Recording, Trusted, Unsent, NoRecord
  <1>6. Charges'
    BY <1>1 DEF Remains, IInv, Charges, Making
  <1> QED
    BY <1>2, <1>3, <1>4, <1>5, <1>6 DEF IInv, Standing

\* Looking at the page again: what a resolution says and keeps.
LEMMA ResolveStep ==
  ASSUME IInv, pc \in {"recover", "resolve"}, NEW seen \in MarkerSeen,
         Return(Resolution(seen), Resolved(seen),
                IF Resolution(seen) = "not-submitted" THEN "submit" ELSE "receipt")
  PROVE  IInv'
  <1>1. Opened /\ submission.state # "answered"
    BY DEF IInv, Course, Sending
  <1>2. /\ seen \in BOOLEAN
        /\ seen => Shown # {}
        /\ Shown # {} => MarkerBase = turn - 1
        /\ turn \in Nat /\ turn # 0
    BY <1>1, ShownIs DEF IInv, TypeOK, Turns
  <1>3. PICK base : base = MarkerBase
    OBVIOUS
  <1>4. PICK rec : rec = Resolved(seen)
    OBVIOUS
  <1>5. PICK r : r = Resolution(seen)
    OBVIOUS
  <1>6. /\ record \in [base : Nat, activated : BOOLEAN, receipt : Receipts]
        /\ record # NoRecord =>
             /\ record.base = turn - 1
             /\ ~ record.activated /\ record.receipt # "submitted" => Unsent
    BY DEF IInv, TypeOK, Recording, Trusted
  <1>7. r \in Receipts
    BY <1>5 DEF Resolution, Receipts
  <1>8. CASE record = NoRecord
    <2>1. record.receipt = "none" /\ r = IF seen THEN "submitted" ELSE "indeterminate"
      BY <1>2, <1>5, <1>8 DEF Resolution, NoRecord
    <2>2. CASE seen
      <3>1. rec = [base |-> turn - 1, activated |-> FALSE, receipt |-> "submitted"]
        BY <1>2, <1>4, <1>8, <2>2 DEF Resolved, ResolveUnrecorded, NoRecord
      <3>2. /\ rec \in [base : Nat, activated : BOOLEAN, receipt : Receipts]
            /\ rec.base = turn - 1 /\ rec.receipt = "submitted" /\ r = "submitted"
        BY <1>2, <2>1, <2>2, <3>1 DEF Receipts
      <3> QED
        BY <1>1, <1>4, <1>5, <1>7, <3>2, ReturnStep
    <2>3. CASE ~ seen
      <3>1. rec = NoRecord
        BY <1>2, <1>4, <1>8, <2>3 DEF Resolved, ResolveUnrecorded
      <3>2. NoRecord \in [base : Nat, activated : BOOLEAN, receipt : Receipts]
        BY DEF NoRecord, Receipts
      <3> QED
        BY <1>1, <1>2, <1>4, <1>5, <1>7, <2>1, <2>3, <3>1, <3>2, ReturnStep
    <2> QED
      BY <1>2, <2>2, <2>3
  <1>9. CASE record # NoRecord
    <2>1. rec = [record EXCEPT !.receipt = r]
      BY <1>4, <1>5, <1>9 DEF Resolved
    <2>2. /\ rec \in [base : Nat, activated : BOOLEAN, receipt : Receipts]
          /\ rec.base = record.base /\ rec.activated = record.activated /\ rec.receipt = r
      BY <1>6, <1>7, <2>1
    <2>3. /\ r = "not-submitted" => ~ record.activated /\ record.receipt # "submitted"
          /\ ~ record.activated => r \in {"submitted", "not-submitted"}
      BY <1>2, <1>5, <1>9 DEF Resolution
    <2> QED
      BY <1>1, <1>4, <1>5, <1>6, <1>7, <1>9, <2>2, <2>3, ReturnStep
  <1> QED
    BY <1>8, <1>9

LEMMA ResolveElsewhereStep ==
  ASSUME IInv, pc \in {"recover", "resolve"}, ResolveElsewhere("receipt")
  PROVE  IInv'
  <1>1. Opened /\ submission.state # "answered"
    BY DEF IInv, Course, Sending
  <1>2. /\ record \in [base : Nat, activated : BOOLEAN, receipt : Receipts]
        /\ record # NoRecord =>
             /\ record.base = turn - 1
             /\ ~ record.activated /\ record.receipt # "submitted" => Unsent
    BY DEF IInv, TypeOK, Recording, Trusted
  <1>3. Return("indeterminate", record, "receipt") /\ "indeterminate" \in Receipts
    BY DEF ResolveElsewhere, Receipts
  <1> QED
    BY <1>1, <1>2, <1>3, ReturnStep

LEMMA ReceiptFromPage ==
  ASSUME IInv, pc \in {"fill", "click", "confirm"}, NEW r \in Receipts, Receipt(r, record),
         r # "none",
         r = "submitted" => pc = "confirm"
  PROVE  IInv'
  <1>1. Opened /\ submission.state # "answered"
    BY DEF IInv, Course, Sending
  <1>2. PICK rec : rec = [record EXCEPT !.receipt = r]
    OBVIOUS
  <1>3. /\ record \in [base : Nat, activated : BOOLEAN, receipt : Receipts]
        /\ record.base = turn - 1
        /\ ~ record.activated /\ record.receipt # "submitted" => Unsent
        /\ pc \in {"fill", "click"} => Unsent
    BY DEF IInv, TypeOK, Recording, Trusted
  <1>4. /\ rec \in [base : Nat, activated : BOOLEAN, receipt : Receipts]
        /\ rec.base = record.base /\ rec.activated = record.activated /\ rec.receipt = r
    BY <1>2, <1>3
  <1>5. Return(r, rec, "receipt")
    BY <1>2 DEF Receipt
  <1>6. pc = "confirm" => record.activated
    BY DEF IInv, Recording
  <1> QED
    BY <1>1, <1>3, <1>4, <1>5, <1>6, ReturnStep

LEMMA GoOnMoves == ASSUME NEW p, GoOn(p) PROVE MovesTo(p)
  BY DEF GoOn, Goto, MovesTo, Remains, session, artifacts, page, world

\* A process starts, finds its place, waits, and ends.
LEMMA StartSteps ==
  ASSUME IInv, Start \/ StartQueued \/ StartAnswered \/ StartRecovery \/ StartFresh
  PROVE  IInv'
  <1>1. CASE Start
    <2>1. MovesTo("start") /\ record = NoRecord
      BY <1>1 DEF Start, Goto, MovesTo, Remains, artifacts, page, world, IInv, Recording
    <2> QED
      BY <2>1, GoOnStep
  <1>2. CASE StartQueued
    <2>1. Queued(queued) \in outbox /\ queued # 0 /\ GoOn("turn")
      BY <1>2 DEF StartQueued, Needing, IInv, Recoverable
    <2> QED
      BY <2>1, GoOnMoves, GoOnStep
  <1>3. CASE StartAnswered
    <2>1. queued = 0 /\ submission.state = "answered" /\ (GoOn("act") \/ GoOn("halt"))
      BY <1>3 DEF StartAnswered
    <2> QED
      BY <2>1, GoOnMoves, GoOnStep
  <1>4. CASE StartRecovery
    <2>1. Opened /\ submission.state # "answered" /\ (GoOn("recover") \/ GoOn("halt"))
      BY <1>4 DEF StartRecovery, Needing, Opened
    <2>2. pc = "start"
      BY <1>4 DEF StartRecovery
    <2>3. record = NoRecord
      BY <2>2 DEF IInv, Recording
    <2> QED
      BY <2>1, <2>3, GoOnMoves, GoOnStep
  <1>5. CASE StartFresh
    <2>1. queued = 0 /\ turn = 0 /\ Serialize("message", "queue")
      BY <1>5 DEF StartFresh
    <2>2. submission.state = "none"
      BY <2>1 DEF IInv, Turns, Opened
    <2> QED
      BY <2>1, <2>2, SerializeStep
  <1> QED
    BY <1>1, <1>2, <1>3, <1>4, <1>5

\* The message is queued: its artifact first, then the session record.
LEMMA PutQueuedStep ==
  ASSUME IInv, PutQueued
  PROVE  IInv'
  <1>1. /\ pc = "queue" /\ pc' = "queued" /\ outbox' = outbox \cup {Queued(turn + 1)}
        /\ UNCHANGED <<turn, queued, submission, responses, inflight, chat, answers, issued,
                       charged, unsaved, receipt, record>>
    BY DEF PutQueued, Goto, session, page, world
  <1>2. Turns' /\ Talk' /\ Quiet' /\ Prompted' /\ OwnAnswers' /\ Recoverable'
    BY <1>1 DEF IInv, Turns, Talk, Quiet, Prompted, OwnAnswers, Recoverable, Opened, Reopened
  <1>3. TypeOK' /\ Charges' /\ Recording'
    BY <1>1 DEF IInv, TypeOK, Charges, Making, Recording, Trusted, Unsent
  <1>4. Course'
    BY <1>1 DEF IInv, Course, Making, Sending, Opened, Reopened, Unsent
  <1> QED
    BY <1>2, <1>3, <1>4 DEF IInv

LEMMA QueueOutboundStep ==
  ASSUME IInv, QueueOutbound
  PROVE  IInv' /\ Acted' = (IF turn = 0 THEN Acted ELSE Acted + 1)
         /\ Acted = (IF turn = 0 THEN 0 ELSE turn - 1) /\ (turn # 0 => Len(answers) = turn)
  <1>1. /\ pc = "queued" /\ pc' = "unreply" /\ queued' = turn + 1
        /\ charged' = charged + unsaved /\ unsaved' = 0
        /\ UNCHANGED <<turn, submission, responses, outbox, inflight, chat, answers, issued,
                       receipt, record>>
    BY DEF QueueOutbound, Goto, artifacts, page, world
  <1>2. queued = 0 /\ Queued(turn + 1) \in outbox /\ turn \in Nat /\ turn <= MaxTurn
        /\ submission.state \in {"none", "answered"} /\ turn + 1 <= charged + unsaved
        /\ charged \in Nat /\ unsaved \in Nat
    BY <1>1, BudgetAssumption DEF IInv, Course, Making, TypeOK, Charges
  <1>3. IF turn = 0 THEN submission.state = "none" ELSE submission.state = "answered"
    BY <1>2 DEF IInv, Turns, Opened, Reopened
  <1>4. /\ submission.id \in Nat /\ Len(chat) \in Nat
        /\ inflight = {} /\ Len(answers) = Len(chat) /\ Len(chat) = turn
        /\ \A i \in 1..Len(chat) : chat[i].id <= submission.id
    <2>1. CASE submission.state = "none"
      BY <1>2, <1>3, <2>1, Lengths DEF IInv, Quiet, Opened, Reopened, TypeOK
    <2>2. CASE submission.state = "answered"
      <3>1. Opened /\ turn # 0
        BY <1>2, <2>2 DEF Opened, IInv, Turns
      <3>2. Len(answers) = turn /\ Len(chat) = turn /\ inflight = {}
            /\ chat[turn].id = submission.id /\ \A i \in 1..(turn - 1) : chat[i].id < submission.id
        <4> PICK n, m : n = Len(chat) /\ m = Len(answers)
          OBVIOUS
        <4>1. n \in Nat /\ m = turn /\ m <= n /\ n \in {turn - 1, turn}
          BY <2>2, <3>1, Lengths DEF IInv, Prompted, Talk
        <4>2. n = turn
          BY <1>2, <4>1
        <4> QED
          BY <3>1, <4>1, <4>2 DEF IInv, Prompted
      <3>3. \A i \in 1..Len(chat) : chat[i].id \in Nat
        BY Lengths DEF IInv, Prompt
      <3>4. submission.id \in Nat
        BY DEF IInv, TypeOK
      <3>5. ASSUME NEW i \in 1..Len(chat)
            PROVE  chat[i].id <= submission.id
        <4>1. i = turn \/ i \in 1..(turn - 1)
          BY <1>2, <3>2
        <4> QED
          BY <3>2, <3>3, <3>4, <4>1
      <3> QED
        BY <1>2, <3>2, <3>4, <3>5
    <2> QED
      BY <1>2, <2>1, <2>2
  <1>5. ~ Opened' /\ ~ Reopened' /\ queued' # 0
    BY <1>1, <1>2 DEF Opened, Reopened
  <1>6. Turns' /\ Talk' /\ Quiet' /\ Prompted' /\ OwnAnswers' /\ Recoverable'
    BY <1>1, <1>2, <1>3, <1>4, <1>5 DEF IInv, Turns, Talk, Quiet, Prompted, OwnAnswers, Recoverable
  <1>7. TypeOK' /\ Charges' /\ Recording'
    BY <1>1, <1>2 DEF IInv, TypeOK, Charges, Making, Recording, Trusted
  <1>8. Course'
    BY <1>1, <1>2 DEF Course, Making, Sending
  <1>9. Acted' = turn /\ Acted = IF turn = 0 THEN 0 ELSE turn - 1
    BY <1>1, <1>2, <1>3, <1>5 DEF Acted, IInv, Turns, Opened
  <1> QED
    BY <1>2, <1>4, <1>6, <1>7, <1>8, <1>9 DEF IInv

LEMMA RemoveResponseStep ==
  ASSUME IInv, RemoveResponse
  PROVE  IInv' /\ UNCHANGED <<chat, answers, Acted>>
  <1>1. /\ pc = "unreply" /\ pc' \in {"halt", "turn"}
        /\ responses' = [n \in 1..MaxTurn |-> IF n = turn THEN 0 ELSE responses[n]]
        /\ UNCHANGED <<turn, queued, submission, outbox, inflight, chat, answers, issued,
                       charged, unsaved, receipt, record>>
    BY DEF RemoveResponse, Goto, session, page, world
  <1>2. queued = turn + 1 /\ turn \in Nat
    BY <1>1 DEF IInv, Course, TypeOK
  <1>3. Turns' /\ Talk' /\ Quiet' /\ Prompted' /\ OwnAnswers' /\ Recoverable'
    BY <1>1, <1>2 DEF IInv, Turns, Talk, Quiet, Prompted, OwnAnswers, Recoverable, Opened, Reopened
  <1>4. TypeOK' /\ Charges' /\ Recording'
    BY <1>1 DEF IInv, TypeOK, Charges, Making, Recording, Trusted, Unsent
  <1>5. Course'
    BY <1>1, <1>2 DEF Course, Making, Sending, Reopened
  <1>6. Acted' = Acted
    BY <1>1 DEF Acted
  <1> QED
    BY <1>1, <1>3, <1>4, <1>5, <1>6 DEF IInv

LEMMA SpendTurnStep ==
  ASSUME IInv, SpendTurn
  PROVE  IInv' /\ UNCHANGED <<chat, answers, Acted>>
  <1>1. /\ pc = "turn" /\ pc' = "exchange" /\ queued = turn + 1 /\ turn < MaxTurn
        /\ turn' = turn + 1
        /\ UNCHANGED <<queued, submission, responses, outbox, inflight, chat, answers, issued,
                       charged, unsaved, receipt, record>>
    BY DEF SpendTurn, Goto, artifacts, page, world
  <1>2. turn \in Nat /\ turn' \in 0..MaxTurn /\ ~ Opened /\ ~ Opened' /\ ~ Reopened /\ Reopened'
    BY <1>1, BudgetAssumption DEF IInv, TypeOK, Opened, Reopened
  <1>3. Turns' /\ Talk' /\ Quiet' /\ Prompted' /\ OwnAnswers' /\ Recoverable'
    BY <1>1, <1>2 DEF IInv, Turns, Talk, Quiet, Prompted, OwnAnswers, Recoverable
  <1>4. TypeOK' /\ Charges' /\ Recording'
    BY <1>1, <1>2 DEF IInv, TypeOK, Charges, Making, Recording, Trusted
  <1>5. Course'
    BY <1>1, <1>2 DEF Course, Making, Sending
  <1>6. Acted' = Acted
    BY <1>1 DEF Acted
  <1> QED
    BY <1>1, <1>3, <1>4, <1>5, <1>6 DEF IInv

\* The intent of the exchange: the artifact first, then the session record.
LEMMA PutOutboundStep ==
  ASSUME IInv, PutOutbound
  PROVE  IInv' /\ UNCHANGED <<chat, answers, Acted>>
  <1>1. /\ pc = "exchange" /\ pc' = "intent" /\ issued' = issued + 1
        /\ outbox' = outbox \cup {Sent(issued + 1)}
        /\ UNCHANGED <<turn, queued, submission, responses, inflight, chat, answers,
                       charged, unsaved, receipt, record>>
    BY DEF PutOutbound, Goto, session, page
  <1>2. issued \in Nat /\ submission.id \in Nat /\ submission.id <= issued /\ Reopened
    BY <1>1 DEF IInv, TypeOK, Turns, Course
  <1>3. Turns' /\ Talk' /\ Quiet' /\ Prompted' /\ OwnAnswers' /\ Recoverable'
    BY <1>1, <1>2 DEF IInv, Turns, Talk, Quiet, Prompted, OwnAnswers, Recoverable, Opened, Reopened
  <1>4. TypeOK' /\ Charges' /\ Recording'
    BY <1>1, <1>2 DEF IInv, TypeOK, Charges, Making, Recording, Trusted
  <1>5. Course'
    BY <1>1, <1>2 DEF Course, Making, Sending, Reopened
  <1>6. Acted' = Acted
    BY <1>1 DEF Acted
  <1> QED
    BY <1>1, <1>3, <1>4, <1>5, <1>6 DEF IInv

LEMMA PersistIntentStep ==
  ASSUME IInv, PersistIntent
  PROVE  IInv' /\ UNCHANGED <<chat, answers, Acted>>
  <1>1. /\ pc = "intent" /\ pc' = "unqueue" /\ queued' = 0
        /\ submission' = [state |-> "prepared", turn |-> turn, id |-> issued]
        /\ UNCHANGED <<turn, responses, outbox, inflight, chat, answers, issued,
                       charged, unsaved, receipt, record>>
    BY DEF PersistIntent, Goto, artifacts, page
  <1>2. /\ submission'.state = "prepared" /\ submission'.turn = turn /\ submission'.id = issued
        /\ issued \in Nat /\ submission.id \in Nat /\ submission.id < issued
        /\ Reopened /\ turn \in Nat /\ turn # 0 /\ queued = turn /\ Sent(issued) \in outbox
    BY <1>1 DEF IInv, TypeOK, Course, Reopened
  <1>3. Opened' /\ ~ Opened
    BY <1>1, <1>2 DEF Opened
  <1>4. /\ inflight = {} /\ Len(answers) = Len(chat) /\ Len(chat) = turn - 1
        /\ \A i \in 1..Len(chat) : chat[i].id <= submission.id
    BY <1>2, <1>3 DEF IInv, Quiet
  <1>5. \A i \in 1..(turn - 1) : chat[i].id < issued
    <2>1. \A i \in 1..(turn - 1) : chat[i].id \in Nat
      BY <1>4, Lengths DEF IInv, Prompt
    <2> QED
      BY <1>2, <1>4, <2>1
  <1>6. Unsent'
    BY <1>1, <1>4 DEF Unsent
  <1>7. Turns' /\ Talk' /\ Quiet' /\ OwnAnswers' /\ Recoverable'
    BY <1>1, <1>2, <1>3 DEF IInv, Turns, Talk, Quiet, OwnAnswers, Recoverable
  <1>8. Prompted'
    BY <1>1, <1>2, <1>4, <1>5 DEF Prompted
  <1>9. TypeOK' /\ Charges' /\ Recording'
    BY <1>1, <1>2 DEF IInv, TypeOK, States, Charges, Making, Recording, Trusted
  <1>10. Course'
    BY <1>1, <1>2, <1>3, <1>6 DEF Course, Making, Sending
  <1>11. Acted' = Acted
    BY <1>1, <1>2 DEF Acted
  <1> QED
    BY <1>1, <1>7, <1>8, <1>9, <1>10, <1>11 DEF IInv

LEMMA RemoveQueuedStep ==
  ASSUME IInv, RemoveQueued
  PROVE  IInv' /\ UNCHANGED <<chat, answers, Acted>>
  <1>1. /\ pc = "unqueue" /\ pc' = "submit" /\ outbox' = outbox \ {Queued(turn)}
        /\ UNCHANGED <<turn, queued, submission, responses, inflight, chat, answers, issued,
                       charged, unsaved, receipt, record>>
    BY DEF RemoveQueued, Goto, session, page, world
  <1>2. Opened /\ submission.state # "answered" /\ Unsent
    BY <1>1 DEF IInv, Course
  <1>3. Turns' /\ Talk' /\ Quiet' /\ Prompted' /\ OwnAnswers' /\ Recoverable'
    BY <1>1, <1>2, KeysDiffer
       DEF IInv, Turns, Talk, Quiet, Prompted, OwnAnswers, Recoverable, Opened, Reopened
  <1>4. TypeOK' /\ Charges' /\ Recording'
    BY <1>1, <1>2 DEF IInv, TypeOK, Charges, Making, Recording, Trusted, Unsent
  <1>5. Course'
    BY <1>1, <1>2 DEF Course, Making, Sending, Opened
  <1>6. Acted' = Acted
    BY <1>1 DEF Acted
  <1> QED
    BY <1>1, <1>3, <1>4, <1>5, <1>6 DEF IInv

------------------------------------------------------------------------------
(* The steps of the exchange. *)

LEMMA RemainsActed == Remains => UNCHANGED <<chat, answers, Acted>>
  BY DEF Remains, Acted

\* The adapter looks at the page, fills in the prompt, and clicks.
LEMMA SubmitSteps ==
  ASSUME IInv, SubmitNotReady \/ SubmitObserve \/ Fill \/ FillFails \/ ClickWithheld \/ Confirm
  PROVE  IInv'
  <1>1. CASE SubmitNotReady
    <2>1. Opened /\ submission.state # "answered"
      BY <1>1 DEF SubmitNotReady, IInv, Course, Sending
    <2>2. /\ record \in [base : Nat, activated : BOOLEAN, receipt : Receipts]
          /\ [NoRecord EXCEPT !.receipt = "not-submitted"]
               \in [base : Nat, activated : BOOLEAN, receipt : Receipts]
          /\ "not-submitted" \in Receipts
      BY DEF IInv, TypeOK, NoRecord, Receipts
    <2>3. \E rec \in {record, [NoRecord EXCEPT !.receipt = "not-submitted"]} :
            Return("not-submitted", rec, "receipt")
      BY <1>1 DEF SubmitNotReady, Receipt
    <2> QED
      BY <2>1, <2>2, <2>3, ReturnStep
  <1>2. CASE SubmitObserve
    <2>1. Opened /\ submission.state # "answered" /\ Unsent /\ turn \in Nat /\ turn # 0
      BY <1>2 DEF SubmitObserve, IInv, Course, Sending, Recording, TypeOK, Turns
    <2>2. Shown = {}
      BY <2>1, ShownIs DEF Unsent
    <2>3. Len(answers) = turn - 1
      <3>1. PICK m \in Nat, n \in Nat : m = Len(chat) /\ n = Len(answers)
        BY Lengths DEF IInv
      <3>2. n <= m
        BY <3>1 DEF IInv, Talk
      <3>3. turn - 1 <= n
        BY <2>1, <3>1 DEF IInv, Prompted
      <3>4. m = turn - 1
        BY <2>1, <3>1 DEF Unsent
      <3> QED
        BY <2>1, <3>1, <3>2, <3>3, <3>4
    <2> PICK rec : rec = [base |-> turn - 1, activated |-> FALSE, receipt |-> "not-submitted"]
      OBVIOUS
    <2>4. /\ pc' = "fill" /\ record' = rec /\ Remains
          /\ UNCHANGED <<charged, unsaved, receipt>>
      BY <1>2, <2>2, <2>3 DEF SubmitObserve, MarkerSeen, Goto, Remains, session, artifacts,
         page, world
    <2>5. /\ rec \in [base : Nat, activated : BOOLEAN, receipt : Receipts]
          /\ rec # NoRecord /\ rec.base = turn - 1 /\ ~ rec.activated /\ rec.receipt # "submitted"
      BY <2>1 DEF Receipts, NoRecord
    <2>6. Standing'
      BY <2>4, Stands
    <2>7. TypeOK' /\ Charges'
      BY <2>4, <2>5 DEF Remains, IInv, TypeOK, Charges, Making
    <2>8. Course'
      BY <2>1, <2>4 DEF Remains, Course, Making, Sending, Opened
    <2>9. Recording'
      BY <2>1, <2>4, <2>5 DEF Remains, Recording, Trusted, Unsent, NoRecord
    <2> QED
      BY <2>6, <2>7, <2>8, <2>9 DEF IInv, Standing
  <1>3. CASE Fill
    BY <1>3, GoOnMoves, GoOnStep DEF Fill
  <1>4. CASE FillFails \/ ClickWithheld \/ Confirm
    <2>1. \E r \in {"not-submitted", "submitted", "indeterminate"} :
            Receipt(r, record) /\ (r = "submitted" => pc = "confirm")
      BY <1>4 DEF FillFails, ClickWithheld, Confirm, NotSubmitted
    <2>2. pc \in {"fill", "click", "confirm"}
      BY <1>4 DEF FillFails, ClickWithheld, Confirm
    <2> QED
      BY <2>1, <2>2, ReceiptFromPage DEF Receipts
  <1> QED
    BY <1>1, <1>2, <1>3, <1>4

LEMMA ClickStep ==
  ASSUME IInv, Click
  PROVE  IInv' /\ UNCHANGED <<chat, answers, Acted>>
  <1> PICK m : m = [id |-> submission.id, turn |-> submission.turn, base |-> record.base]
    OBVIOUS
  <1>1. /\ pc = "click" /\ pc' = "confirm" /\ inflight' \in {inflight, inflight \cup {m}}
        /\ record' = [record EXCEPT !.activated = TRUE]
        /\ UNCHANGED <<turn, queued, submission, responses, outbox, chat, answers, issued,
                       charged, unsaved, receipt>>
    BY DEF Click, Goto, session, artifacts
  <1>2. /\ Opened /\ submission.state # "answered" /\ Unsent /\ submission.turn = turn
        /\ record \in [base : Nat, activated : BOOLEAN, receipt : Receipts]
        /\ record.base = turn - 1 /\ turn \in Nat /\ turn # 0
    BY <1>1 DEF IInv, Course, Sending, Recording, Trusted, TypeOK, Turns
  <1>3. /\ record' \in [base : Nat, activated : BOOLEAN, receipt : Receipts]
        /\ record'.base = turn - 1 /\ record'.activated /\ record'.receipt = record.receipt
    BY <1>1, <1>2
  <1>4. inflight' \subseteq {[id |-> submission.id, turn |-> turn, base |-> turn - 1]}
    BY <1>1, <1>2 DEF Unsent
  <1>5. Turns' /\ Talk' /\ Quiet' /\ OwnAnswers' /\ Recoverable'
    BY <1>1, <1>2 DEF IInv, Turns, Talk, Quiet, OwnAnswers, Recoverable, Opened, Reopened
  <1>6. Prompted'
    BY <1>1, <1>2, <1>4 DEF IInv, Prompted, Opened, Unsent
  <1>7. TypeOK' /\ Charges'
    BY <1>1, <1>3 DEF IInv, TypeOK, Charges, Making
  <1>8. Recording'
    BY <1>1, <1>3 DEF Recording, Trusted, NoRecord
  <1>9. Course'
    BY <1>1, <1>2 DEF Course, Making, Sending, Opened
  <1>10. Acted' = Acted
    BY <1>1 DEF Acted
  <1> QED
    BY <1>1, <1>5, <1>6, <1>7, <1>8, <1>9, <1>10 DEF IInv

\* A receipt becomes the state of the exchange.
LEMMA DeliveredStep ==
  ASSUME IInv, Delivered \/ Doubtful
  PROVE  IInv' /\ UNCHANGED <<chat, answers, Acted>>
  <1> PICK s \in {"submitted", "indeterminate"} : SetSubmission(s, pc')
    BY DEF Delivered, Doubtful, SetSubmission, Goto
  <1>1. /\ pc = "receipt"
        /\ \/ receipt = "submitted" /\ pc' = "receive"
           \/ receipt = "indeterminate" /\ pc' = "resolve"
        /\ submission' = [submission EXCEPT !.state = s]
        /\ UNCHANGED <<turn, queued, responses, outbox, inflight, chat, answers, issued,
                       charged, unsaved, receipt, record>>
    BY DEF Delivered, Doubtful, SetSubmission, Goto, artifacts, page, world
  <1>2. /\ Opened /\ submission.state # "answered" /\ submission.state # "none"
        /\ submission \in [state : States, turn : Nat, id : Nat]
    BY <1>1 DEF IInv, Course, Sending, Opened, TypeOK
  <1>3. /\ submission' \in [state : States, turn : Nat, id : Nat]
        /\ submission'.state = s /\ submission'.turn = submission.turn
        /\ submission'.id = submission.id
    BY <1>1, <1>2 DEF States
  <1>4. Opened'
    BY <1>1, <1>2, <1>3 DEF Opened
  <1>5. Turns' /\ Talk' /\ Quiet' /\ Prompted' /\ OwnAnswers' /\ Recoverable'
    BY <1>1, <1>2, <1>3, <1>4
       DEF IInv, Turns, Talk, Quiet, Prompted, OwnAnswers, Recoverable, Opened, Reopened
  <1>6. TypeOK' /\ Charges'
    BY <1>1, <1>3 DEF IInv, TypeOK, Charges, Making
  <1>7. Recording'
    BY <1>1 DEF IInv, Recording, Trusted, Unsent, NoRecord
  <1>8. Course'
    BY <1>1, <1>3, <1>4 DEF Course, Making, Sending
  <1>9. Acted' = Acted
    BY <1>1, <1>2, <1>3 DEF Acted, Opened
  <1> QED
    BY <1>1, <1>5, <1>6, <1>7, <1>8, <1>9 DEF IInv

\* The answer counted off is the answer to the prompt of the exchange.
LEMMA ReceiveStep ==
  ASSUME IInv, Receive
  PROVE  IInv' /\ UNCHANGED <<chat, answers, Acted>>
  <1>1. /\ pc = "receive" /\ pc' = "answered" /\ Len(answers) = record.base + 1
        /\ responses' = [responses EXCEPT ![turn] = answers[record.base + 1]]
        /\ UNCHANGED <<turn, queued, submission, outbox, inflight, chat, answers, issued,
                       charged, unsaved, receipt, record>>
    BY DEF Receive, AnswerReady, Answer, Goto, session, page, world
  <1>2. /\ Opened /\ submission.state # "answered" /\ record.base = turn - 1
        /\ turn \in 1..MaxTurn /\ responses \in [1..MaxTurn -> Nat]
    BY <1>1, BudgetAssumption DEF IInv, Course, Sending, Recording, Trusted, TypeOK, Turns
  <1>3. Len(answers) = turn /\ answers[turn] = turn
    BY <1>1, <1>2 DEF IInv, Talk
  <1>4. responses' = [responses EXCEPT ![turn] = turn]
    BY <1>1, <1>2, <1>3
  <1>5. Turns' /\ Talk' /\ Quiet' /\ Prompted' /\ OwnAnswers' /\ Recoverable'
    BY <1>1, <1>2, <1>4
       DEF IInv, Turns, Talk, Quiet, Prompted, OwnAnswers, Recoverable, Opened, Reopened
  <1>6. TypeOK' /\ Charges' /\ Recording'
    BY <1>1, <1>2, <1>4 DEF IInv, TypeOK, Charges, Making, Recording, Trusted
  <1>7. Course'
    BY <1>1, <1>2, <1>3, <1>4 DEF Course, Making, Sending, Opened
  <1>8. Acted' = Acted
    BY <1>1 DEF Acted
  <1> QED
    BY <1>1, <1>5, <1>6, <1>7, <1>8 DEF IInv

LEMMA MarkAnsweredStep ==
  ASSUME IInv, MarkAnswered
  PROVE  IInv' /\ UNCHANGED <<chat, answers, Acted>>
  <1>1. /\ pc = "answered" /\ pc' = "unsend"
        /\ submission' = [submission EXCEPT !.state = "answered"]
        /\ UNCHANGED <<turn, queued, responses, outbox, inflight, chat, answers, issued,
                       charged, unsaved, receipt, record>>
    BY DEF MarkAnswered, SetSubmission, Goto, artifacts, page, world
  <1>2. /\ Opened /\ submission.state # "answered" /\ submission.state # "none"
        /\ responses[turn] = turn /\ Len(answers) = turn /\ turn # 0 /\ submission.turn = turn
        /\ submission \in [state : States, turn : Nat, id : Nat]
    BY <1>1 DEF IInv, Course, Sending, Opened, TypeOK, Turns
  <1>3. /\ submission' \in [state : States, turn : Nat, id : Nat]
        /\ submission'.state = "answered" /\ submission'.turn = submission.turn
        /\ submission'.id = submission.id
    BY <1>1, <1>2 DEF States
  <1>4. Opened'
    BY <1>1, <1>2, <1>3 DEF Opened
  <1>5. Turns' /\ Talk' /\ Quiet' /\ Prompted' /\ OwnAnswers' /\ Recoverable'
    BY <1>1, <1>2, <1>3, <1>4
       DEF IInv, Turns, Talk, Quiet, Prompted, OwnAnswers, Recoverable, Opened, Reopened
  <1>6. TypeOK' /\ Charges'
    BY <1>1, <1>3 DEF IInv, TypeOK, Charges, Making
  <1>7. Recording'
    BY <1>1 DEF IInv, Recording, Trusted, Unsent
  <1>8. Course'
    BY <1>1, <1>3, <1>4 DEF Course, Making, Sending
  <1>9. Acted' = Acted
    BY <1>1, <1>2, <1>3 DEF Acted, Opened
  <1> QED
    BY <1>1, <1>5, <1>6, <1>7, <1>8, <1>9 DEF IInv

LEMMA RemoveOutboundStep ==
  ASSUME IInv, RemoveOutbound
  PROVE  IInv' /\ UNCHANGED <<chat, answers, Acted>>
  <1>1. /\ pc = "unsend" /\ pc' = "act" /\ outbox' = outbox \ {Sent(submission.id)}
        /\ UNCHANGED <<turn, queued, submission, responses, inflight, chat, answers, issued,
                       charged, unsaved, receipt, record>>
    BY DEF RemoveOutbound, Goto, session, page, world
  <1>2. Opened /\ submission.state = "answered"
    BY <1>1 DEF IInv, Course
  <1>3. Turns' /\ Talk' /\ Quiet' /\ Prompted' /\ OwnAnswers' /\ Recoverable'
    BY <1>1, <1>2
       DEF IInv, Turns, Talk, Quiet, Prompted, OwnAnswers, Recoverable, Opened, Reopened
  <1>4. TypeOK' /\ Charges' /\ Recording'
    BY <1>1 DEF IInv, TypeOK, Charges, Making, Recording, Trusted, Unsent
  <1>5. Course'
    BY <1>1, <1>2 DEF Course, Making, Sending, Opened
  <1>6. Acted' = Acted
    BY <1>1 DEF Acted
  <1> QED
    BY <1>1, <1>3, <1>4, <1>5, <1>6 DEF IInv

LEMMA PersistMovesStep ==
  ASSUME IInv, PersistMoves
  PROVE  IInv' /\ Remains
  <1>1. /\ pc = "decide" /\ pc' = "queue" /\ charged' = charged + unsaved /\ unsaved' = 0
        /\ Remains /\ UNCHANGED <<receipt, record>>
    BY DEF PersistMoves, Goto, Remains, artifacts, page, world
  <1>2. Standing'
    BY <1>1, Stands
  <1>3. TypeOK' /\ Recording'
    BY <1>1 DEF IInv, TypeOK, Recording, Trusted, Unsent, Remains
  <1>4. Course' /\ Charges'
    BY <1>1 DEF IInv, TypeOK, Course, Charges, Making, Sending, Opened, Reopened, Unsent, Remains
  <1> QED
    BY <1>1, <1>2, <1>3, <1>4 DEF IInv, Standing

------------------------------------------------------------------------------
(* Acting, interruptions and ends. *)

\* A step that ends in a halt or takes the process away keeps all records.
LEMMA EndSteps ==
  ASSUME IInv, \/ Undelivered \/ Miscorrelated \/ ReceiveNothing \/ ReceiveBlocked
               \/ ActUnreadable \/ ActEnd \/ ObservationFails \/ TurnsExhausted
               \/ Interrupted \/ Halt \/ Crash
  PROVE  IInv' /\ Remains
  <1>1. GoOn("halt") \/ End \/ Halt \/ Crash
    BY DEF Undelivered, Miscorrelated, ReceiveNothing, ReceiveBlocked, HandleTransportResult,
       ActUnreadable, ActEnd, ObservationFails, TurnsExhausted, Interrupted
  <1>2. CASE GoOn("halt")
    <2>1. MovesTo("halt")
      BY <1>2, GoOnMoves
    <2> QED
      BY <2>1, GoOnStep DEF MovesTo
  <1>3. CASE End \/ Halt \/ Crash
    <2>1. Remains /\ UNCHANGED charged /\ Gone
      BY <1>3 DEF End, Halt, Crash, Remains, session, artifacts, page, world
    <2> QED
      BY <2>1, GoneStep
  <1> QED
    BY <1>1, <1>2, <1>3

LEMMA ActSteps ==
  ASSUME IInv, ActMessage \/ ActRepair \/ ActDecision
  PROVE  IInv' /\ Remains
  <1>1. /\ pc = "act"
        /\ \E what \in {"message", "help", "repair"}, p \in {"queue", "decide"} : Serialize(what, p)
    BY DEF ActMessage, ActRepair, ActDecision
  <1>2. queued = 0 /\ submission.state = "answered"
    BY <1>1 DEF IInv, Course
  <1>3. Remains
    BY <1>1 DEF Serialize, Remains, session, artifacts, page, world
  <1> QED
    BY <1>1, <1>2, <1>3, SerializeStep

LEMMA InterruptStep ==
  ASSUME IInv, Interrupt
  PROVE  IInv' /\ Remains
  <1>1. Remains /\ UNCHANGED <<pc, charged, unsaved, receipt, record>>
    BY DEF Interrupt, Remains, session, artifacts, page
  <1>2. Standing'
    BY <1>1, Stands
  <1>3. TypeOK' /\ Charges' /\ Recording'
    BY <1>1 DEF IInv, TypeOK, Charges, Making, Recording, Trusted, Unsent, Remains
  <1>4. Course'
    BY <1>1 DEF IInv, Course, Making, Sending, Opened, Reopened, Unsent, Remains
  <1> QED
    BY <1>1, <1>2, <1>3, <1>4 DEF IInv, Standing

------------------------------------------------------------------------------
(* The page. *)

\* A click takes effect: the prompt is the next of the conversation.
LEMMA PageDeliversStep ==
  ASSUME IInv, PageDelivers
  PROVE  IInv' /\ Len(chat') = Len(chat) + 1 /\ Len(chat) = Acted
         /\ UNCHANGED <<answers, Acted>>
  <1> PICK m \in inflight : chat' = Append(chat, m)
    BY DEF PageDelivers
  <1> PICK n : n = Len(chat)
    OBVIOUS
  <1>1. /\ inflight' \subseteq inflight /\ m \notin inflight'
        /\ UNCHANGED <<turn, queued, submission, responses, outbox, answers, issued,
                       pc, charged, unsaved, receipt, record>>
    <2>1. PICK k \in inflight : inflight' = inflight \ {k} /\ chat' = Append(chat, k)
      BY DEF PageDelivers
    <2>2. Opened /\ inflight \subseteq {[id |-> submission.id, turn |-> turn, base |-> turn - 1]}
      BY DEF IInv, Quiet, Prompted
    <2>3. k = m
      BY <2>2
    <2> QED
      BY <2>1, <2>3 DEF PageDelivers, session, artifacts, process, world
  <1>2. /\ Opened /\ turn \in Nat /\ turn # 0 /\ submission.turn = turn /\ submission.id \in Nat
        /\ n \in Nat /\ n = turn - 1
        /\ m = [id |-> submission.id, turn |-> turn, base |-> turn - 1]
        /\ inflight' = {} /\ ~ Unsent
    <2>1. Opened
      BY DEF IInv, Quiet
    <2>2. /\ turn \in Nat /\ turn # 0 /\ submission.turn = turn /\ submission.id \in Nat /\ n \in Nat
      BY <2>1, Lengths DEF IInv, TypeOK, Turns
    <2>3. n = turn - 1 /\ m = [id |-> submission.id, turn |-> turn, base |-> turn - 1]
      BY <2>1 DEF IInv, Prompted
    <2>4. inflight' = {}
      BY <1>1, <2>1, <2>3 DEF IInv, Prompted
    <2> QED
      BY <2>1, <2>2, <2>3, <2>4 DEF Unsent
  <1>3. m \in Prompt /\ m.id = submission.id /\ m.turn = turn /\ m.base = turn - 1
    BY <1>2 DEF Prompt
  <1>4. /\ chat' \in Seq(Prompt) /\ Len(chat') = n + 1 /\ chat'[turn] = m
        /\ \A i \in 1..n : chat'[i] = chat[i]
    <2>1. chat \in Seq(Prompt)
      BY DEF IInv, TypeOK
    <2>2. turn = n + 1
      BY <1>2
    <2> QED
      BY <1>3, <2>1, <2>2, AppendProperties
  <1>5. Len(chat') = turn /\ 1..turn = (1..n) \cup {turn} /\ 1..(turn - 1) = 1..n
    BY <1>2, <1>4
  <1>6. Opened'
    BY <1>1, <1>2 DEF Opened
  <1>7. Turns' /\ Quiet' /\ OwnAnswers' /\ Recoverable'
    BY <1>1, <1>6 DEF IInv, Turns, Quiet, OwnAnswers, Recoverable, Opened, Reopened
  <1>8. Talk'
    <2>1. \A i \in 1..turn : chat'[i].turn = i /\ chat'[i].base = i - 1
      BY <1>3, <1>4, <1>5 DEF IInv, Talk
    <2>2. Len(answers') <= Len(chat')
      <3> PICK k : k = Len(answers)
        OBVIOUS
      <3>1. k \in Nat /\ k <= n
        BY Lengths DEF IInv, Talk
      <3> QED
        BY <1>1, <1>2, <1>5, <3>1
    <2> QED
      BY <1>1, <1>5, <2>1, <2>2 DEF IInv, Talk
  <1>9. Prompted'
    BY <1>1, <1>2, <1>3, <1>4, <1>5 DEF IInv, Prompted
  <1>10. TypeOK' /\ Charges'
    BY <1>1, <1>4 DEF IInv, TypeOK, Charges, Making
  <1>11. Recording'
    BY <1>1, <1>2 DEF IInv, Recording, Trusted
  <1>12. Course'
    BY <1>1, <1>2, <1>6 DEF IInv, Course, Making, Sending, Opened, Reopened
  <1>13. Acted' = Acted /\ Acted = n
    BY <1>1, <1>2 DEF Acted, Opened
  <1> QED
    BY <1>1, <1>4, <1>7, <1>8, <1>9, <1>10, <1>11, <1>12, <1>13 DEF IInv

LEMMA PageLosesStep ==
  ASSUME IInv, PageLoses
  PROVE  IInv' /\ UNCHANGED <<chat, answers, Acted>>
  <1>1. /\ inflight' \subseteq inflight
        /\ UNCHANGED <<turn, queued, submission, responses, outbox, chat, answers, issued,
                       pc, charged, unsaved, receipt, record>>
    BY DEF PageLoses, session, artifacts, process, world
  <1>2. Turns' /\ Talk' /\ Quiet' /\ Prompted' /\ OwnAnswers' /\ Recoverable'
    BY <1>1 DEF IInv, Turns, Talk, Quiet, Prompted, OwnAnswers, Recoverable, Opened, Reopened
  <1>3. TypeOK' /\ Charges'
    BY <1>1 DEF IInv, TypeOK, Charges, Making
  <1>4. (Unsent => Unsent') /\ (Opened' <=> Opened) /\ (Reopened' <=> Reopened)
    BY <1>1 DEF Unsent, Opened, Reopened
  <1>5. Recording'
    BY <1>1, <1>4 DEF IInv, Recording, Trusted
  <1>6. Course'
    BY <1>1, <1>4 DEF IInv, Course, Making, Sending
  <1>7. Acted' = Acted
    BY <1>1 DEF Acted
  <1> QED
    BY <1>1, <1>2, <1>3, <1>5, <1>6, <1>7 DEF IInv

\* The model answers the prompt of the exchange, the only one without an answer.
LEMMA ModelAnswersStep ==
  ASSUME IInv, ModelAnswers
  PROVE  IInv' /\ Len(answers) < Len(chat) /\ Len(answers') = Len(answers) + 1
         /\ UNCHANGED <<chat, Acted>>
  <1> PICK n, k : n = Len(chat) /\ k = Len(answers)
    OBVIOUS
  <1>1. /\ k < n /\ answers' = Append(answers, chat[k + 1].turn)
        /\ UNCHANGED <<turn, queued, submission, responses, outbox, inflight, chat, issued,
                       pc, charged, unsaved, receipt, record>>
    BY DEF ModelAnswers, session, artifacts, process, world
  <1>2. n \in Nat /\ k \in Nat
    BY Lengths DEF IInv
  <1>3. Opened /\ turn \in Nat /\ turn # 0 /\ n = turn /\ k = turn - 1
    <2>1. Opened
      BY <1>1, <1>2 DEF IInv, Quiet
    <2>2. turn \in Nat /\ turn # 0
      BY <2>1 DEF IInv, TypeOK, Turns
    <2>3. n \in {turn - 1, turn} /\ turn - 1 <= k
      BY <2>1 DEF IInv, Prompted
    <2> QED
      BY <1>1, <1>2, <2>1, <2>2, <2>3
  <1>4. chat[k + 1].turn = turn
    BY <1>3 DEF IInv, Talk
  <1>5. /\ answers' \in Seq(Nat) /\ Len(answers') = turn /\ answers'[turn] = turn
        /\ \A i \in 1..k : answers'[i] = answers[i]
    <2>1. answers \in Seq(Nat)
      BY DEF IInv, TypeOK
    <2>2. turn = k + 1 /\ turn \in Nat
      BY <1>3
    <2> QED
      BY <1>1, <1>4, <2>1, <2>2, AppendProperties
  <1>6. Turns' /\ Quiet' /\ OwnAnswers' /\ Recoverable'
    BY <1>1, <1>3 DEF IInv, Turns, Quiet, OwnAnswers, Recoverable, Opened, Reopened
  <1>7. Talk'
    <2>1. 1..turn = (1..k) \cup {turn}
      BY <1>3
    <2>2. \A i \in 1..turn : answers'[i] = i
      BY <1>5, <2>1 DEF IInv, Talk
    <2> QED
      BY <1>1, <1>3, <1>5, <2>2 DEF IInv, Talk
  <1>8. Prompted'
    BY <1>1, <1>3, <1>5 DEF IInv, Prompted, Opened
  <1>9. TypeOK' /\ Charges'
    BY <1>1, <1>5 DEF IInv, TypeOK, Charges, Making
  <1>10. Recording'
    BY <1>1 DEF IInv, Recording, Trusted, Unsent
  <1>11. Course'
    BY <1>1, <1>3, <1>5 DEF IInv, Course, Making, Sending, Opened, Reopened, Unsent
  <1>12. Acted' = Acted
    BY <1>1 DEF Acted
  <1> QED
    BY <1>1, <1>3, <1>5, <1>6, <1>7, <1>8, <1>9, <1>10, <1>11, <1>12 DEF IInv

------------------------------------------------------------------------------
(* The theorems. *)

LEMMA InitInv == Init => IInv
  <1> SUFFICES ASSUME Init PROVE IInv
    OBVIOUS
  <1>1. TypeOK
    BY BudgetAssumption DEF Init, TypeOK, NoSubmission, NoRecord, States, Receipts
  <1>2. Len(chat) = 0 /\ Len(answers) = 0
    BY DEF Init
  <1>3. Turns /\ Talk /\ Quiet /\ Prompted
    BY <1>2 DEF Init, NoSubmission, Turns, Talk, Quiet, Prompted, Opened, Reopened
  <1>4. Course /\ Recording /\ Charges
    BY DEF Init, Course, Making, Sending, Recording, Trusted, Charges
  <1>5. Recoverable /\ OwnAnswers
    BY DEF Init, NoSubmission, Recoverable, OwnAnswers
  <1> QED
    BY <1>1, <1>3, <1>4, <1>5 DEF IInv

\* A step of the abstract conversation, or none.
Talks ==
  \/ UNCHANGED <<chat, answers, Acted>>
  \/ /\ Len(chat) = Acted /\ Len(chat') = Len(chat) + 1 /\ UNCHANGED <<answers, Acted>>
  \/ /\ Len(answers) < Len(chat) /\ Len(answers') = Len(answers) + 1 /\ UNCHANGED <<chat, Acted>>
  \/ /\ Acted < Len(answers) /\ Acted' = Acted + 1 /\ UNCHANGED <<chat, answers>>

LEMMA ProceedStep ==
  ASSUME IInv, Proceed
  PROVE  IInv' /\ Talks
  <1>1. CASE StartQueued \/ StartAnswered \/ StartRecovery \/ StartFresh
    <2>1. Remains
      BY <1>1 DEF StartQueued, StartAnswered, StartRecovery, StartFresh, GoOn, Serialize, Remains,
         session, artifacts, page, world
    <2> QED
      BY <1>1, <2>1, StartSteps, RemainsActed DEF Talks
  <1>2. CASE PutQueued
    <2>1. UNCHANGED <<chat, answers, Acted>>
      BY <1>2 DEF PutQueued, session, page, Acted
    <2> QED
      BY <1>2, <2>1, PutQueuedStep DEF Talks
  <1>3. CASE QueueOutbound
    <2>1. /\ IInv' /\ Acted' = (IF turn = 0 THEN Acted ELSE Acted + 1)
          /\ Acted = (IF turn = 0 THEN 0 ELSE turn - 1) /\ (turn # 0 => Len(answers) = turn)
      BY <1>3, QueueOutboundStep
    <2>2. UNCHANGED <<chat, answers>> /\ turn \in Nat
      BY <1>3 DEF QueueOutbound, page, IInv, TypeOK
    <2> QED
      BY <2>1, <2>2 DEF Talks
  <1>4. CASE RemoveResponse
    BY <1>4, RemoveResponseStep DEF Talks
  <1>5. CASE AccountTurn
    <2>1. CASE ReuseTurn
      <3>1. GoOn("exchange") /\ Reopened
        BY <2>1 DEF ReuseTurn, Reopened, IInv, Course
      <3> QED
        BY <3>1, GoOnMoves, GoOnStep, RemainsActed DEF MovesTo, Talks
    <2>2. CASE SpendTurn
      BY <2>2, SpendTurnStep DEF Talks
    <2> QED
      BY <1>5, <2>1, <2>2 DEF AccountTurn
  <1>6. CASE PutOutbound \/ PersistIntent \/ RemoveQueued
    BY <1>6, PutOutboundStep, PersistIntentStep, RemoveQueuedStep DEF Talks
  <1>7. CASE SubmitNotReady \/ SubmitObserve \/ Fill \/ FillFails \/ ClickWithheld \/ Confirm
    <2>1. Remains
      BY <1>7 DEF SubmitNotReady, SubmitObserve, Fill, FillFails, ClickWithheld, Confirm,
         NotSubmitted, Receipt, Return, GoOn, Remains, session, artifacts, page, world
    <2> QED
      BY <1>7, <2>1, SubmitSteps, RemainsActed DEF Talks
  <1>8. CASE Click
    BY <1>8, ClickStep DEF Talks
  <1>9. CASE RecoverSubmission \/ ResolveAgain
    <2>1. pc \in {"recover", "resolve"}
      BY <1>9 DEF RecoverSubmission, ResolveAgain
    <2>2. \/ \E seen \in MarkerSeen :
               Return(Resolution(seen), Resolved(seen),
                      IF Resolution(seen) = "not-submitted" THEN "submit" ELSE "receipt")
          \/ ResolveElsewhere("receipt")
      BY <1>9 DEF RecoverSubmission, ResolveAgain
    <2>3. Remains
      BY <2>2 DEF ResolveElsewhere, Return, Remains, session, artifacts, page
    <2> QED
      BY <2>1, <2>2, <2>3, ResolveStep, ResolveElsewhereStep, RemainsActed DEF Talks
  <1>10. CASE Delivered \/ Doubtful
    BY <1>10, DeliveredStep DEF Talks
  <1>11. CASE Receive \/ MarkAnswered \/ RemoveOutbound
    BY <1>11, ReceiveStep, MarkAnsweredStep, RemoveOutboundStep DEF Talks
  <1>12. CASE ActMessage \/ ActRepair \/ ActDecision \/ PersistMoves
    BY <1>12, ActSteps, PersistMovesStep, RemainsActed DEF Talks
  <1>13. CASE \/ Undelivered \/ Miscorrelated \/ ReceiveNothing \/ ReceiveBlocked
              \/ ActUnreadable \/ ActEnd \/ ObservationFails \/ TurnsExhausted
              \/ Interrupted \/ Halt
    BY <1>13, EndSteps, RemainsActed DEF Talks
  <1> QED
    BY <1>1, <1>2, <1>3, <1>4, <1>5, <1>6, <1>7, <1>8, <1>9, <1>10, <1>11, <1>12, <1>13
       DEF Proceed

LEMMA NextStep ==
  ASSUME IInv, [Next]_vars
  PROVE  IInv' /\ Talks
  <1>1. CASE Proceed
    BY <1>1, ProceedStep
  <1>2. CASE Start
    <2>1. Remains
      BY <1>2 DEF Start, Remains, artifacts, page, world
    <2> QED
      BY <1>2, <2>1, StartSteps, RemainsActed DEF Talks
  <1>3. CASE Interrupt \/ Crash
    BY <1>3, InterruptStep, EndSteps, RemainsActed DEF Talks
  <1>4. CASE PageDelivers \/ PageLoses \/ ModelAnswers
    BY <1>4, PageDeliversStep, PageLosesStep, ModelAnswersStep DEF Talks
  <1>5. CASE UNCHANGED vars
    <2>1. Remains /\ UNCHANGED <<pc, charged, unsaved, receipt, record>>
      BY <1>5 DEF vars, Remains, session, artifacts, process, page, world
    <2>2. Standing'
      BY <2>1, Stands
    <2>3. TypeOK' /\ Charges' /\ Recording'
      BY <2>1 DEF IInv, TypeOK, Charges, Making, Recording, Trusted, Unsent, Remains
    <2>4. Course'
      BY <2>1 DEF IInv, Course, Making, Sending, Opened, Reopened, Unsent, Remains
    <2> QED
      BY <2>1, <2>2, <2>3, <2>4, RemainsActed DEF IInv, Standing, Talks
  <1> QED
    BY <1>1, <1>2, <1>3, <1>4, <1>5 DEF Next, Environment

\* The strengthening: what records, artifacts and the adapter's memory say of
\* the conversation, at every place where the process may be.
THEOREM Invariance == Spec => []IInv
  <1>1. IInv /\ [Next]_vars => IInv'
    BY NextStep
  <1> QED
    BY <1>1, InitInv, PTL DEF Spec

\* Wherever the process dies, the next one finds the artifact that the session
\* record sends it to (agent-runtime.ts, queueOutbound, exchange and startup).
THEOREM RecoverableHolds == Spec => []Recoverable
  <1>1. IInv => Recoverable
    BY DEF IInv
  <1> QED
    BY <1>1, Invariance, PTL

\* The answer stored for a turn is the answer to that turn's prompt, though it
\* is told from the others by counting only (copilot-browser-adapter.ts,
\* receive; agent-runtime.ts, exchange).
THEOREM OwnAnswersHolds == Spec => []OwnAnswers
  <1>1. IInv => OwnAnswers
    BY DEF IInv
  <1> QED
    BY <1>1, Invariance, PTL

\* A turn is spent on each prompt in the conversation and on at most one that
\* is not there yet, and nothing is in the conversation, or may come to be,
\* that the disclosure budget was not charged for (agent-runtime.ts, accounting
\* of turns and of outbound bytes).
THEOREM BudgetsHold == Spec => []BudgetsCover
  <1>1. ASSUME IInv
        PROVE  BudgetsCover
    <2> PICK n : n = Len(chat)
      OBVIOUS
    <2>1. n \in Nat /\ turn \in Nat /\ charged \in Nat /\ queued \in {0, turn, turn + 1}
          /\ turn <= charged /\ (queued = turn + 1 => turn + 1 <= charged)
      BY <1>1, Lengths DEF IInv, TypeOK, Turns, Charges
    <2>2. CASE Opened
      <3>1. n \in {turn - 1, turn} /\ (n = turn => inflight = {})
        BY <1>1, <2>2 DEF IInv, Prompted
      <3>2. PICK m : inflight \subseteq {m}
        BY <1>1, <2>2 DEF IInv, Prompted
      <3>3. inflight = {} \/ inflight = {m}
        BY <3>2
      <3>4. Cardinality(inflight) = IF inflight = {} THEN 0 ELSE 1
        BY <3>3, FS_EmptySet, FS_Singleton
      <3> QED
        BY <2>1, <3>1, <3>4 DEF BudgetsCover, TurnsSpent, DisclosureCovered
    <2>3. CASE ~ Opened
      <3>1. inflight = {} /\ n = IF Reopened THEN turn - 1 ELSE turn
        BY <1>1, <2>3 DEF IInv, Quiet
      <3>2. Cardinality(inflight) = 0
        BY <3>1, FS_EmptySet
      <3> QED
        BY <2>1, <3>1, <3>2 DEF BudgetsCover, TurnsSpent, DisclosureCovered
    <2> QED
      BY <2>2, <2>3
  <1> QED
    BY <1>1, Invariance, PTL

\* The exchange implements Dialogue: no prompt reaches the conversation twice
\* or before the one ahead of it is dealt with, and no answer is acted on twice
\* or before it was given, over all crashes, lost clicks and interruptions.
THEOREM Implements == Spec => TakesTurns
  <1>1. Init => Conversation!Init
    <2>1. ASSUME Init
          PROVE  Conversation!Init
      <3>1. Len(chat) = 0 /\ Len(answers) = 0 /\ Acted = 0
        BY <2>1 DEF Init, Acted, NoSubmission
      <3> QED
        BY <3>1 DEF Conversation!Init
    <2> QED
      BY <2>1
  <1>2. IInv /\ [Next]_vars => [Conversation!Next]_(Conversation!vars)
    <2>1. ASSUME IInv, [Next]_vars
          PROVE  [Conversation!Next]_(Conversation!vars)
      <3>1. Talks
        BY <2>1, NextStep
      <3> QED
        BY <3>1 DEF Talks, Conversation!Next, Conversation!Prompt, Conversation!Reply,
           Conversation!Act, Conversation!vars
    <2> QED
      BY <2>1
  <1> QED
    BY <1>1, <1>2, Invariance, PTL DEF Spec, TakesTurns, Conversation!Spec

================================================================================
