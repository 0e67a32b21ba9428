------------------------ MODULE SessionCommandsProofs ------------------------
(***************************************************************************)
(* Proofs about SessionCommands and the workspace lock below it, for any   *)
(* number of processes, troubles and edits.                                *)
(*                                                                         *)
(* The lock keeps all owners but one out because the process that removes  *)
(* a lock file has read a dead owner in it, and the file of a live owner   *)
(* names that owner (LockInv).  That the owner works on what is on disk    *)
(* needs to know, besides, where each command stands when it has the lock  *)
(* (InStep).                                                               *)
(***************************************************************************)
EXTENDS SessionCommands, TLAPS, FiniteSetTheorems

\* The places of an owner once it has the lock and until it gives it back.
Working ==
  {"write", "append", "clear", "announce", "invalidate", "conclude", "done", "failed",
   "stop", "created", "preflight", "granted", "approve", "approved", "recovered",
   "declined", "launch", "thrown", "startup", "work", "claimed", "inspect", "save",
   "saved", "verified", "rejected", "answer", "caught", "halted", "finish", "result",
   "unwind", "report"}

Place == Outside \cup {"record", "locked", "release"} \cup Working
Writing == {"write", "append", "clear"}
Handler == {"failed", "thrown", "caught", "unwind"}
Asked == {"none", "pause", "abort"}
Name == {"run", "resume", "pause", "abort", "rollback", "status"}
LogState == {"none", "new", "fresh", "stale"}

Session == [status : Status \cup {"none"}, report : Version \cup {None},
            base : Version, claim : BOOLEAN]

\* Where the process goes, and which write it is in.
FlowTyped ==
  /\ pc \in [Proc -> Place]
  /\ cmd \in [Proc -> Name \cup {"none"}]
  /\ handler \in [Proc -> Handler \cup {"none"}]
  /\ goal \in [Proc -> [to : Status \cup {"none", "note", "undone", "ended"},
                        then : (Working \ Writing) \cup {"none"}]]
  /\ \A p \in Proc :
       /\ pc[p] \in Working => handler[p] # "none"
       /\ pc[p] \in Writing => goal[p].then # "none"
       /\ pc[p] = "write" => goal[p].to \in Status
       /\ pc[p] \in {"ask", "rename", "wait"} => cmd[p] \in {"pause", "abort"}
       /\ cmd[p] # "none" => cmd[p] \in Commands[p]

DataTyped ==
  /\ mem \in [Proc -> Session]
  /\ disk \in Session
  /\ handoff \in Version \cup {None}
  /\ tree \in Version
  /\ edits \in 0 .. MaxEdits /\ troubles \in Nat

ControlTyped ==
  /\ ctl \in [Proc -> [req : Asked, intr : Asked, late : BOOLEAN,
                       mon : {"off", "idle", "pause", "abort", "done"}]]
  /\ request \in Asked
  /\ log \in [Proc -> [cli : LogState, rt : LogState]]
  /\ told \in [Proc -> {"none", "ok", "one", "two", "error"}]
  /\ trail \in [chain : {"whole", "cut", "forked"}, from : Status \cup {"none"},
                undos : Nat, ended : BOOLEAN]
  /\ restored \in BOOLEAN /\ manifest \in BOOLEAN

TypeOK == FlowTyped /\ DataTyped /\ ControlTyped

------------------------------------------------------------------------------
(* The lock. *)

Over(q) == q = Gone \/ (q \in Proc /\ pc[q] \in {"exited", "dead"})

LockTyped ==
  /\ lock \in [owner : Proc \cup {Gone, None}, whole : BOOLEAN]
  /\ judged \in [Proc -> Proc \cup {Gone, None}]
  /\ stolen \in BOOLEAN
  /\ lock.whole => lock.owner # None

\* An owner has its name in the file, and who removes a file has read the name
\* of a process that is over.
LockInv ==
  /\ LockTyped
  /\ lock.owner \in Proc => pc[lock.owner] # "idle"
  /\ \A p \in Proc : judged[p] # None => Over(judged[p])
  /\ \A p \in Proc : pc[p] = "unlink" => judged[p] # None
  /\ ~ stolen => \A p \in Owners : lock.owner = p

------------------------------------------------------------------------------
(* What an owner has in memory. *)

\* run makes the session; every other command has found one.  A process has
\* nothing in memory before it owns the workspace.
Found ==
  /\ disk.status = "none" => disk = NoSession
  /\ \A p \in Proc :
       /\ cmd[p] \notin {"none", "run"} => disk.status # "none"
       /\ cmd[p] = "none" => pc[p] \in {"idle", "exited", "dead"}
       /\ pc[p] \in Outside \cup {"record", "locked"} => mem[p] = NoSession
       /\ pc[p] \in Working \ {"failed", "stop"} => mem[p].status # "none"

InStep ==
  ~ stolen =>
    /\ \A p \in Proc :
         cmd[p] = "run" /\ pc[p] \in {"open", "judge", "unlink", "record", "locked"}
           => disk = NoSession
    /\ \A p \in Proc :
         pc[p] \in Working \cup {"release"} => mem[p].status = disk.status

IInv == TypeOK /\ Found /\ LockInv /\ InStep

------------------------------------------------------------------------------
(* Types. *)

HandlerKept(p) == handler' = handler \/ \E h \in Handler : Handle(p, h)

\* A move that the state machine allows leads to a status.
LEMMA TransitionTyped ==
  ASSUME NEW s \in Status, NEW to, CanTransition(s, to)
  PROVE  to \in Status
BY DEF CanTransition, Transitions, Status, TerminalStatus, Stoppable

LEMMA MovedTyped ==
  ASSUME NEW s \in Session, NEW to \in Status
  PROVE  Moved(s, to) \in Session /\ Moved(s, to).status = to
<1> DEFINE report == IF to \in TerminalStatus \ {"completed"} THEN None ELSE s.report
<1>1. Moved(s, to) = [s EXCEPT !.status = to, !.report = report]
  BY Zenon DEF Moved
<1>2. report \in Version \cup {None}
  BY DEF Session
<1> HIDE DEF report
<1> QED
  BY <1>1, <1>2 DEF Session

LEMMA PersistTyped ==
  ASSUME DataTyped, NEW p \in Proc, NEW s \in Session, NEW then, Persist(p, s, then)
  PROVE  mem' \in [Proc -> Session] /\ disk' \in Session /\ troubles' \in Nat
BY DEF DataTyped, Persist, Trouble

LEMMA AppendedTyped ==
  ASSUME ControlTyped, DataTyped, NEW p \in Proc
  PROVE  Appended(p) \in [chain : {"whole", "cut", "forked"}, from : Status \cup {"none"},
                          undos : Nat, ended : BOOLEAN]
<1> DEFINE chain == IF trail.chain = "whole" /\ log[p][Log(p)] = "stale" THEN "forked" ELSE trail.chain
           from == IF goal[p].to = "undone" THEN mem[p].status ELSE trail.from
           undos == IF goal[p].to = "undone" THEN trail.undos + 1 ELSE trail.undos
           ended == trail.ended \/ goal[p].to \in {"rolled_back", "ended"}
<1>1. Appended(p) = [trail EXCEPT !.chain = chain, !.from = from, !.undos = undos, !.ended = ended]
  BY Zenon DEF Appended
<1>2. chain \in {"whole", "cut", "forked"} /\ undos \in Nat
  BY DEF ControlTyped
<1>3. from \in Status \cup {"none"} /\ ended \in BOOLEAN
  BY DEF ControlTyped, DataTyped, Session
<1> HIDE DEF chain, from, undos, ended
<1> QED
  BY <1>1, <1>2, <1>3 DEF ControlTyped

LEMMA WorkPlaces ==
  /\ Working \subseteq Place /\ Handler \subseteq Working \ Writing
  /\ \A x \in Working \ Writing : x \notin {"write", "ask", "rename", "wait"}
BY DEF Place, Working, Writing, Handler

\* The ways an owner goes on: to another place, to a write, out of its work.
LEMMA ToWork ==
  ASSUME FlowTyped, NEW p \in Proc, NEW x \in Working \ Writing, Go(p, x),
         UNCHANGED <<cmd, goal>>, HandlerKept(p), handler'[p] # "none"
  PROVE  FlowTyped'
BY WorkPlaces DEF FlowTyped, Go, Handle, HandlerKept

LEMMA ToWrite ==
  ASSUME FlowTyped, NEW p \in Proc, NEW to \in Status, NEW then \in Working \ Writing,
         Go(p, "write"), goal' = [goal EXCEPT ![p] = [to |-> to, then |-> then]],
         UNCHANGED cmd, HandlerKept(p), handler'[p] # "none"
  PROVE  FlowTyped'
<1>1. "write" \in Place \cap Working /\ then # "none"
  BY DEF Place, Working
<1> QED
  BY <1>1, WorkPlaces DEF FlowTyped, Go, Handle, HandlerKept

LEMMA ToMove ==
  ASSUME FlowTyped, NEW p \in Proc, NEW to, mem[p].status \in Status,
         NEW then \in Working \ Writing, Move(p, to, then),
         UNCHANGED cmd, HandlerKept(p), handler'[p] # "none"
  PROVE  FlowTyped'
BY TransitionTyped, ToWrite DEF Move

LEMMA ToNote ==
  ASSUME FlowTyped, NEW p \in Proc, NEW event \in {"note", "undone", "ended"},
         NEW then \in Working \ Writing, Note(p, event, then),
         UNCHANGED cmd, HandlerKept(p), handler'[p] # "none"
  PROVE  FlowTyped'
<1>1. "append" \in Place \cap Working /\ then # "none"
  BY DEF Place, Working
<1> QED
  BY <1>1, WorkPlaces DEF FlowTyped, Go, Handle, HandlerKept, Note

LEMMA ToOut ==
  ASSUME FlowTyped, NEW p \in Proc, NEW x \in Place \ (Working \cup {"ask", "rename", "wait"}),
         Go(p, x), UNCHANGED <<cmd, goal, handler>>
  PROVE  FlowTyped'
BY DEF FlowTyped, Go, Working, Writing

\* Before its answer, an owner has a session in memory, and where it goes when
\* something fails.
LEMMA OwnerReady ==
  ASSUME FlowTyped, DataTyped, Found, NEW p \in Proc, pc[p] \in Working \ {"failed", "stop"},
         UNCHANGED cmd,
         UNCHANGED handler \/ \E h \in Handler : Handle(p, h)
  PROVE  mem[p].status \in Status /\ HandlerKept(p) /\ handler'[p] # "none" /\ UNCHANGED cmd
<1>1. mem[p].status \in Status
  BY DEF Found, DataTyped, Session
<1>2. handler[p] # "none" /\ HandlerKept(p)
  BY DEF FlowTyped, HandlerKept
<1>3. handler'[p] # "none"
  <2>1. CASE UNCHANGED handler
    BY <1>2, <2>1
  <2>2. CASE \E h \in Handler : Handle(p, h)
    BY <2>2 DEF Handle, Handler, FlowTyped
  <2> QED
    BY <2>1, <2>2
<1> QED
  BY <1>1, <1>2, <1>3

LEMMA ThrowTyped ==
  ASSUME FlowTyped, NEW p \in Proc, pc[p] \in Working, Throw(p), UNCHANGED <<cmd, handler, goal>>
  PROVE  FlowTyped'
<1>1. handler[p] \in Handler
  BY DEF FlowTyped
<1>2. handler[p] \in Working \ Writing /\ handler[p] # "none"
  BY <1>1, WorkPlaces DEF Handler
<1> QED
  BY <1>2, ToWork DEF Throw, HandlerKept

LEMMA WriteTypes ==
  ASSUME TypeOK, NEW p \in Proc, Write(p)
  PROVE  TypeOK'
<1> USE LockAssumption DEF TypeOK, FlowTyped, DataTyped, ControlTyped, At, Go, Place, Working, Handler, Writing
<1>1. CASE WriteState(p)
  <2>1. Moved(mem[p], goal[p].to) \in Session
    BY <1>1, MovedTyped DEF WriteState
  <2> QED
    BY <1>1, <2>1 DEF WriteState, counts
<1>2. CASE WriteFails(p)
  BY <1>2 DEF WriteFails, Throw, Trouble, local, files, lockVars
<1>3. CASE AppendEvent(p)
  <2>1. log' \in [Proc -> [cli : LogState, rt : LogState]]
    BY <1>3 DEF AppendEvent, Behind, LogState
  <2>2. trail' \in [chain : {"whole", "cut", "forked"}, from : Status \cup {"none"},
                    undos : Nat, ended : BOOLEAN]
    BY <1>3, AppendedTyped DEF AppendEvent
  <2>3. FlowTyped'
    BY <1>3 DEF AppendEvent
  <2>4. DataTyped' /\ ControlTyped'
    BY <1>3, <2>1, <2>2 DEF AppendEvent, counts
  <2> QED
    BY <2>3, <2>4
<1>4. CASE AppendFails(p)
  <2>1. trail' \in [chain : {"whole", "cut", "forked"}, from : Status \cup {"none"},
                    undos : Nat, ended : BOOLEAN]
    <3>1. trail' = trail \/ trail' = [trail EXCEPT !.chain = "cut"]
      BY <1>4 DEF AppendFails
    <3> QED
      BY <3>1
  <2>2. troubles' \in Nat
    BY <1>4 DEF AppendFails, Trouble
  <2>3. FlowTyped'
    BY <1>4 DEF AppendFails
  <2>4. DataTyped' /\ ControlTyped'
    BY <1>4, <2>1, <2>2 DEF AppendFails
  <2> QED
    BY <2>3, <2>4
<1>5. CASE Clear(p)
  <2> HIDE DEF FlowTyped, Go
  <2>1. FlowTyped'
    <3>1. CASE Throw(p)
      BY <1>5, <3>1, ThrowTyped DEF Clear, local
    <3>2. CASE Go(p, goal[p].then)
      <4>1. goal[p].then \in Working \ Writing /\ handler[p] # "none"
        BY <1>5 DEF Clear, FlowTyped
      <4> QED
        BY <1>5, <3>2, <4>1, ToWork DEF Clear, local, HandlerKept
    <3> QED
      BY <1>5, <3>1, <3>2 DEF Clear
  <2>2. DataTyped' /\ ControlTyped'
    BY <1>5 DEF Clear, Trouble, local
  <2> QED
    BY <2>1, <2>2
<1> HIDE DEF TypeOK
<1> QED
  BY <1>1, <1>2, <1>3, <1>4, <1>5 DEF Write

\* The steps of pause, abort and rollback.
LEMMA ControlTypes ==
  ASSUME TypeOK, Found, NEW p \in Proc, Control(p)
  PROVE  TypeOK'
<1> USE LockAssumption DEF TypeOK, At, Owned, Alone, Stop
<1>1. CASE ControlOwned(p)
  <2>1. FlowTyped'
    <3>1. CASE Go(p, "stop") /\ UNCHANGED goal
      BY <1>1, <3>1, ToWork DEF ControlOwned, Handle, Handler, HandlerKept, FlowTyped, Working, Writing
    <3>2. CASE Go(p, "failed") /\ UNCHANGED goal
      BY <1>1, <3>2, ToWork DEF ControlOwned, Handle, Handler, HandlerKept, FlowTyped, Working, Writing
    <3>3. CASE Go(p, "write")
      <4>1. PICK to \in {"paused", "aborted"} :
              goal' = [goal EXCEPT ![p] = [to |-> to, then |-> "done"]]
        BY <1>1, <3>3 DEF ControlOwned, Go, FlowTyped
      <4>2. to \in Status /\ "done" \in Working \ Writing
        BY DEF Status, TerminalStatus, Working, Writing
      <4>3. HandlerKept(p) /\ handler'[p] # "none" /\ UNCHANGED cmd
        BY <1>1 DEF ControlOwned, Handle, Handler, HandlerKept, FlowTyped
      <4> QED
        BY <3>3, <4>1, <4>2, <4>3, ToWrite
    <3> QED
      BY <1>1, <3>1, <3>2, <3>3 DEF ControlOwned
  <2>2. DataTyped' /\ ControlTyped'
    BY <1>1 DEF ControlOwned, Reread, NewLog, Swept, EndedCode, counts, LogState, DataTyped, ControlTyped
  <2> QED
    BY <2>1, <2>2
<1>2. CASE RollbackOwned(p)
  <2>1. FlowTyped'
    BY <1>2, ToWork
    DEF RollbackOwned, HandlerKept, Handle, Handler, FlowTyped, Working, Writing
  <2>2. DataTyped' /\ ControlTyped'
    BY <1>2 DEF RollbackOwned, Reread, NewLog, Swept, counts, LogState, DataTyped, ControlTyped
  <2> QED
    BY <2>1, <2>2
<1>3. CASE Announce(p)
  <2>1. FlowTyped'
    BY <1>3, ToWork, ToNote
    DEF Announce, HandlerKept, Handle, Handler, FlowTyped, Working, Writing
  <2>2. DataTyped' /\ ControlTyped'
    BY <1>3 DEF Announce, counts, DataTyped, ControlTyped
  <2> QED
    BY <2>1, <2>2
<1>4. CASE Invalidate(p)
  <2>1. FlowTyped'
    <3>1. mem[p].status \in Status /\ HandlerKept(p) /\ handler'[p] # "none" /\ UNCHANGED cmd
      BY <1>4, OwnerReady DEF Invalidate, Working
    <3> QED
      BY <1>4, <3>1, ToWork, ToMove DEF Invalidate, Working, Writing
  <2>2. DataTyped' /\ ControlTyped'
    BY <1>4 DEF Invalidate, counts, DataTyped, ControlTyped
  <2> QED
    BY <2>1, <2>2
<1>5. CASE Conclude(p)
  <2>1. FlowTyped'
    BY <1>5, ToWork, ToNote
    DEF Conclude, HandlerKept, Handle, Handler, FlowTyped, Working, Writing
  <2>2. DataTyped' /\ ControlTyped'
    BY <1>5 DEF Conclude, counts, DataTyped, ControlTyped
  <2> QED
    BY <2>1, <2>2
<1>6. CASE Done(p)
  <2>1. FlowTyped'
    BY <1>6, ToWork
    DEF Done, HandlerKept, Handle, Handler, FlowTyped, Working, Writing
  <2>2. DataTyped' /\ ControlTyped'
    BY <1>6 DEF Done, counts, DataTyped, ControlTyped
  <2> QED
    BY <2>1, <2>2
<1> HIDE DEF TypeOK
<1> QED
  BY <1>1, <1>2, <1>3, <1>4, <1>5, <1>6 DEF Control


\* The steps of run and resume up to the runtime.
LEMMA ComposeTypes ==
  ASSUME TypeOK, Found, NEW p \in Proc, Compose(p)
  PROVE  TypeOK'
<1> USE LockAssumption DEF TypeOK, At, Owned, Kept, Stop
<1>1. CASE RunOwned(p)
  <2>1. FlowTyped'
    BY <1>1, ToWork, ToNote
    DEF RunOwned, HandlerKept, Handle, Handler, FlowTyped, Working, Writing
  <2>2. [NoSession EXCEPT !.status = "created"] \in Session
    <3>1. 0 \in Version /\ "created" \in Status
      BY BoundAssumption DEF Version, Status
    <3> QED
      BY <3>1 DEF Session, NoSession
  <2>3. DataTyped'
    BY <1>1, <2>2 DEF RunOwned, Trouble, DataTyped
  <2>4. ControlTyped'
    BY <1>1 DEF RunOwned, NewLog, LogState, ControlTyped
  <2> QED
    BY <2>1, <2>3, <2>4
<1>2. CASE Publish(p)
  <2>1. FlowTyped'
    <3>1. mem[p].status \in Status /\ HandlerKept(p) /\ handler'[p] # "none" /\ UNCHANGED cmd
      BY <1>2, OwnerReady DEF Publish, Working
    <3> QED
      BY <1>2, <3>1, ToWork, ToMove DEF Publish, Working, Writing
  <2>2. DataTyped' /\ ControlTyped'
    BY <1>2 DEF Publish, DataTyped, ControlTyped
  <2> QED
    BY <2>1, <2>2
<1>3. CASE ResumeOwned(p)
  <2>1. FlowTyped'
    BY <1>3, ToWork, ToNote
    DEF ResumeOwned, HandlerKept, Handle, Handler, FlowTyped, Working, Writing
  <2>2. DataTyped' /\ ControlTyped'
    BY <1>3 DEF ResumeOwned, Reread, NewLog, Swept, LogState, DataTyped, ControlTyped
  <2> QED
    BY <2>1, <2>2
<1>4. CASE ApproveGrant(p)
  <2>1. FlowTyped'
    <3>1. mem[p].status \in Status /\ HandlerKept(p) /\ handler'[p] # "none" /\ UNCHANGED cmd
      BY <1>4, OwnerReady DEF ApproveGrant, Working
    <3> QED
      BY <1>4, <3>1, ToNote, ToMove DEF ApproveGrant, Working, Writing
  <2>2. DataTyped' /\ ControlTyped'
    BY <1>4 DEF ApproveGrant, DataTyped, ControlTyped
  <2> QED
    BY <2>1, <2>2
<1>5. CASE Declined(p)
  <2>1. FlowTyped'
    BY <1>5, ToWork
    DEF Declined, HandlerKept, Handle, Handler, FlowTyped, Working, Writing
  <2>2. DataTyped' /\ ControlTyped'
    BY <1>5 DEF Declined, DataTyped, ControlTyped
  <2> QED
    BY <2>1, <2>2
<1>6. CASE Launch(p)
  <2>1. FlowTyped'
    <3>1. UNCHANGED <<cmd, goal>>
      BY <1>6 DEF Launch
    <3>2. CASE UNCHANGED <<pc, handler>>
      BY <3>1, <3>2 DEF FlowTyped
    <3>3. CASE Handle(p, "caught") /\ Go(p, "startup")
      <4>1. HandlerKept(p) /\ handler'[p] # "none"
        BY <1>6, <3>3 DEF Handle, HandlerKept, Handler, FlowTyped
      <4> QED
        BY <3>1, <3>3, <4>1, ToWork DEF Working, Writing
    <3>4. CASE Go(p, "thrown") /\ UNCHANGED handler
      <4>1. HandlerKept(p) /\ handler'[p] # "none"
        BY <1>6, <3>4 DEF Launch, HandlerKept, FlowTyped, Working
      <4> QED
        BY <3>1, <3>4, <4>1, ToWork DEF Working, Writing
    <3> QED
      BY <1>6, <3>2, <3>3, <3>4 DEF Launch
  <2>2. log' \in [Proc -> [cli : LogState, rt : LogState]]
    BY <1>6 DEF Launch, LogState, ControlTyped
  <2>3. ctl' = ctl \/ ctl' = [ctl EXCEPT ![p].mon = "idle"]
                   \/ ctl' = [ctl EXCEPT ![p].intr = ctl[p].req]
    BY <1>6 DEF Launch
  <2>4. ctl' \in [Proc -> [req : Asked, intr : Asked, late : BOOLEAN,
                          mon : {"off", "idle", "pause", "abort", "done"}]]
    BY <2>3 DEF ControlTyped, Asked
  <2>5. DataTyped' /\ ControlTyped'
    BY <1>6, <2>2, <2>4 DEF Launch, DataTyped, ControlTyped
  <2> QED
    BY <2>1, <2>5
<1>7. CASE Thrown(p)
  <2>1. FlowTyped'
    <3>1. mem[p].status \in Status
      BY <1>7 DEF Thrown, Found, DataTyped, Session, Working
    <3> QED
      BY <1>7, <3>1, ToWork, ToMove
      DEF Thrown, HandlerKept, Handle, Handler, FlowTyped, Working, Writing
  <2>2. log' = log \/ log' = [log EXCEPT ![p].cli = "new"]
    BY <1>7 DEF Thrown, FreshForCatch
  <2>3. log' \in [Proc -> [cli : LogState, rt : LogState]]
    BY <2>2 DEF LogState, ControlTyped
  <2>4. DataTyped' /\ ControlTyped'
    BY <1>7, <2>3 DEF Thrown, DataTyped, ControlTyped
  <2> QED
    BY <2>1, <2>4
<1>8. CASE Failed(p)
  <2>1. FlowTyped'
    BY <1>8, ToWork
    DEF Failed, HandlerKept, Handle, Handler, FlowTyped, Working, Writing
  <2>2. DataTyped' /\ ControlTyped'
    BY <1>8 DEF Failed, DataTyped, ControlTyped
  <2> QED
    BY <2>1, <2>2
<1>9. CASE StopMonitor(p)
  <2>1. FlowTyped'
    BY <1>9, ToOut
    DEF StopMonitor, Place, HandlerKept, Handle, Handler, FlowTyped, Working, Writing
  <2>2. ctl' \in [Proc -> [req : Asked, intr : Asked, late : BOOLEAN,
                          mon : {"off", "idle", "pause", "abort", "done"}]]
    BY <1>9 DEF StopMonitor, ControlTyped
  <2>3. ControlTyped'
    BY <1>9, <2>2 DEF StopMonitor, ControlTyped
  <2>4. DataTyped'
    BY <1>9 DEF StopMonitor, DataTyped
  <2> QED
    BY <2>1, <2>3, <2>4
<1> HIDE DEF TypeOK
<1> QED
  BY <1>1, <1>2, <1>3, <1>4, <1>5, <1>6, <1>7, <1>8, <1>9 DEF Compose


\* The steps of the runtime.
LEMMA RuntimeTypes ==
  ASSUME TypeOK, Found, NEW p \in Proc, Runtime(p)
  PROVE  TypeOK'
<1> USE LockAssumption DEF TypeOK, At, Kept, Inside, FinishNow, Stop
<1>1. CASE Startup(p)
  <2>1. FlowTyped'
    <3>1. mem[p].status \in Status /\ HandlerKept(p) /\ handler'[p] # "none" /\ UNCHANGED cmd
      BY <1>1, OwnerReady DEF Startup, Working
    <3> QED
      BY <1>1, <3>1, ToWork, ToMove DEF Startup, Working, Writing
  <2>2. DataTyped' /\ ControlTyped'
    BY <1>1 DEF Startup, DataTyped, ControlTyped
  <2> QED
    BY <2>1, <2>2
<1>2. CASE Work(p)
  <2>1. FlowTyped'
    <3>1. mem[p].status \in Status /\ HandlerKept(p) /\ handler'[p] # "none" /\ UNCHANGED cmd
      BY <1>2, OwnerReady DEF Work, Working
    <3>2. pc[p] \in Working /\ {"work", "result", "caught", "halted"} \subseteq Working \ Writing
      BY <1>2 DEF Work, Working, Writing
    <3>3. CASE \E t \in Session : Persist(p, t, "work") /\ UNCHANGED goal
      <4>1. UNCHANGED <<cmd, handler, goal>>
        BY <1>2, <3>3 DEF Work
      <4> QED
        BY <3>1, <3>2, <3>3, <4>1, ToWork, ThrowTyped DEF Persist
    <3>4. CASE Move(p, "blocked", "result")
      BY <3>1, <3>2, <3>4, ToMove
    <3>5. CASE \E error \in {"caught", "halted"} : Go(p, error) /\ UNCHANGED goal
      BY <3>1, <3>2, <3>5, ToWork
    <3>6. [mem[p] EXCEPT !.base = tree] \in Session /\ [mem[p] EXCEPT !.claim = TRUE] \in Session
      BY DEF DataTyped, Session
    <3> QED
      BY <1>2, <3>3, <3>4, <3>5, <3>6 DEF Work
  <2>2. DataTyped' /\ ControlTyped'
    <3>1. [mem[p] EXCEPT !.base = tree] \in Session /\ [mem[p] EXCEPT !.claim = TRUE] \in Session
      BY DEF DataTyped, Session
    <3>2. CASE UNCHANGED <<mem, disk, troubles>>
      BY <1>2, <3>2 DEF Work, DataTyped, ControlTyped
    <3>3. CASE \E t \in Session : Persist(p, t, "work")
      BY <1>2, <3>3, PersistTyped DEF Work, DataTyped, ControlTyped
    <3> QED
      BY <1>2, <3>1, <3>2, <3>3 DEF Work
  <2> QED
    BY <2>1, <2>2
<1>3. CASE Claim(p)
  <2>1. FlowTyped'
    <3>1. mem[p].status \in Status /\ HandlerKept(p) /\ handler'[p] # "none" /\ UNCHANGED cmd
      BY <1>3, OwnerReady DEF Claim, Working
    <3> QED
      BY <1>3, <3>1, ToMove DEF Claim, Working, Writing
  <2>2. DataTyped' /\ ControlTyped'
    BY <1>3 DEF Claim, DataTyped, ControlTyped
  <2> QED
    BY <2>1, <2>2
<1>4. CASE Inspect(p)
  <2>1. FlowTyped'
    BY <1>4, ToWork, ToNote
    DEF Inspect, HandlerKept, Handle, Handler, FlowTyped, Working, Writing
  <2>2. DataTyped' /\ ControlTyped'
    <3>1. mem' = mem \/ mem' = [mem EXCEPT ![p].report = None]
      BY <1>4 DEF Inspect
    <3>2. mem' \in [Proc -> Session]
      BY <3>1 DEF DataTyped, Session
    <3> QED
      BY <1>4, <3>2 DEF Inspect, DataTyped, ControlTyped
  <2> QED
    BY <2>1, <2>2
<1>5. CASE SaveReport(p)
  <2>1. FlowTyped'
    BY <1>5, ToWork, ThrowTyped
    DEF SaveReport, HandlerKept, Handle, Handler, FlowTyped, Working, Writing
  <2>2. DataTyped' /\ ControlTyped'
    <3>1. mem' = mem \/ mem' = [mem EXCEPT ![p].report = mem[p].base]
      BY <1>5 DEF SaveReport
    <3>2. mem' \in [Proc -> Session]
      BY <3>1 DEF DataTyped, Session
    <3>3. handoff' \in Version \cup {None} /\ troubles' \in Nat
      BY <1>5 DEF SaveReport, DataTyped, Session, Trouble
    <3> QED
      BY <1>5, <3>2, <3>3 DEF SaveReport, DataTyped, ControlTyped
  <2> QED
    BY <2>1, <2>2
<1>6. CASE Conclusion(p)
  <2>1. FlowTyped'
    <3>1. mem[p].status \in Status /\ HandlerKept(p) /\ handler'[p] # "none" /\ UNCHANGED cmd
      BY <1>6, OwnerReady DEF Conclusion, Working
    <3> QED
      BY <1>6, <3>1, ToWork, ToNote, ToMove DEF Conclusion, Working, Writing
  <2>2. DataTyped' /\ ControlTyped'
    BY <1>6 DEF Conclusion, DataTyped, ControlTyped
  <2> QED
    BY <2>1, <2>2
<1>7. CASE Answer(p)
  <2>1. FlowTyped'
    BY <1>7, ToWork, ThrowTyped
    DEF Answer, HandlerKept, Handle, Handler, FlowTyped, Working, Writing, Persist
  <2>2. DataTyped' /\ ControlTyped'
    <3>1. [mem[p] EXCEPT !.claim = FALSE] \in Session
      BY DEF DataTyped, Session
    <3> QED
      BY <1>7, <3>1, PersistTyped DEF Answer, DataTyped, ControlTyped
  <2> QED
    BY <2>1, <2>2
<1>8. CASE Caught(p)
  <2>1. FlowTyped'
    <3>1. mem[p].status \in Status /\ HandlerKept(p) /\ handler'[p] # "none" /\ UNCHANGED cmd
      BY <1>8, OwnerReady DEF Caught, Handler, Working
    <3> QED
      BY <1>8, <3>1, ToWork, ToMove DEF Caught, Working, Writing
  <2>2. DataTyped' /\ ControlTyped'
    BY <1>8 DEF Caught, DataTyped, ControlTyped
  <2> QED
    BY <2>1, <2>2
<1>9. CASE Finish(p)
  <2>1. FlowTyped'
    <3>1. mem[p].status \in Status /\ HandlerKept(p) /\ handler'[p] # "none" /\ UNCHANGED cmd
      BY <1>9, OwnerReady DEF Finish, Working
    <3> QED
      BY <1>9, <3>1, ToWork, ToMove DEF Finish, Working, Writing
  <2>2. DataTyped' /\ ControlTyped'
    BY <1>9 DEF Finish, DataTyped, ControlTyped
  <2> QED
    BY <2>1, <2>2
<1>10. CASE Stopping(p)
  <2>1. FlowTyped'
    BY <1>10, ToWork
    DEF Stopping, HandlerKept, Handle, Handler, FlowTyped, Working, Writing
  <2>2. DataTyped' /\ ControlTyped'
    BY <1>10 DEF Stopping, DataTyped, ControlTyped
  <2> QED
    BY <2>1, <2>2
<1>11. CASE Leave(p)
  <2>1. FlowTyped'
    <3>1. CASE Go(p, "clear")
      <4>1. PICK to \in {"report", "thrown"} : goal' = [goal EXCEPT ![p].then = to]
        BY <1>11, <3>1 DEF Leave, Go, FlowTyped
      <4>2. to \in Working \ Writing /\ "clear" \in Working \cap Place
        BY DEF Working, Writing, Place
      <4>3. "thrown" \in Handler
        BY DEF Handler
      <4> QED
        BY <1>11, <3>1, <4>1, <4>2, <4>3 DEF Leave, Go, Handle, FlowTyped
    <3>2. CASE ~Go(p, "clear")
      BY <1>11, <3>2, ToWork
      DEF Leave, HandlerKept, Handle, Handler, FlowTyped, Working, Writing
    <3> QED
      BY <3>1, <3>2
  <2>2. DataTyped' /\ ControlTyped'
    BY <1>11 DEF Leave, DataTyped, ControlTyped
  <2> QED
    BY <2>1, <2>2
<1>12. CASE Report(p)
  <2>1. FlowTyped'
    BY <1>12, ToWork
    DEF Report, HandlerKept, Handle, Handler, FlowTyped, Working, Writing
  <2>2. DataTyped' /\ ControlTyped'
    BY <1>12 DEF Report, DataTyped, ControlTyped
  <2> QED
    BY <2>1, <2>2
<1> HIDE DEF TypeOK
<1> QED
  BY <1>1, <1>2, <1>3, <1>4, <1>5, <1>6, <1>7, <1>8, <1>9, <1>10, <1>11, <1>12 DEF Runtime

LEMMA BeginTyped ==
  ASSUME FlowTyped, NEW p \in Proc, NEW c, NEW x \in {"open", "exited"},
         Begin(p, c), Go(p, x), UNCHANGED <<goal, handler>>
  PROVE  FlowTyped'
<1>1. c \in Name /\ c # "none"
  BY BoundAssumption DEF Begin, Name
<1>2. x \in Place \ (Working \cup {"ask", "rename", "wait"})
  BY DEF Place, Outside, Working
<1>3. \A y \in Working : y \notin {"open", "exited"}
  BY DEF Working
<1> QED
  BY <1>1, <1>2, <1>3 DEF FlowTyped, Go, Begin, Writing

\* The steps of a command before it has the lock, and of one that was refused.
LEMMA StartTypes ==
  ASSUME TypeOK, NEW p \in Proc, Start(p)
  PROVE  TypeOK'
<1> USE LockAssumption DEF TypeOK, Begun, Exit, Look, Swept, EndedCode
<1>1. CASE StartRun(p)
  <2>1. FlowTyped'
    BY <1>1, BeginTyped DEF StartRun
  <2>2. DataTyped' /\ ControlTyped'
    BY <1>1 DEF StartRun, counts, DataTyped, ControlTyped
  <2> QED
    BY <2>1, <2>2
<1>2. CASE StartResume(p)
  <2>1. FlowTyped'
    BY <1>2, BeginTyped DEF StartResume
  <2>2. DataTyped' /\ ControlTyped'
    BY <1>2 DEF StartResume, counts, DataTyped, ControlTyped
  <2> QED
    BY <2>1, <2>2
<1>3. CASE StartControl(p)
  <2>1. FlowTyped'
    BY <1>3, BeginTyped DEF StartControl
  <2>2. DataTyped' /\ ControlTyped'
    BY <1>3 DEF StartControl, counts, DataTyped, ControlTyped
  <2> QED
    BY <2>1, <2>2
<1>4. CASE StartRollback(p)
  <2>1. FlowTyped'
    BY <1>4, BeginTyped DEF StartRollback
  <2>2. DataTyped' /\ ControlTyped'
    BY <1>4 DEF StartRollback, counts, DataTyped, ControlTyped
  <2> QED
    BY <2>1, <2>2
<1>5. CASE ShowStatus(p)
  <2>1. FlowTyped'
    BY <1>5, BeginTyped DEF ShowStatus
  <2>2. DataTyped' /\ ControlTyped'
    BY <1>5 DEF ShowStatus, counts, DataTyped, ControlTyped
  <2> QED
    BY <2>1, <2>2
<1>6. CASE Refused(p)
  <2>1. FlowTyped'
    <3>1. CASE Go(p, "ask") /\ cmd[p] \in {"pause", "abort"}
      <4>1. "ask" \in Place \ Working /\ "ask" \notin Writing
        BY DEF Place, Outside, Working, Writing
      <4> QED
        BY <1>6, <3>1, <4>1 DEF Refused, FlowTyped, Go
    <3>2. CASE Go(p, "exited")
      BY <1>6, <3>2, ToOut DEF Refused, Place, Outside, Working
    <3> QED
      BY <1>6, <3>1, <3>2 DEF Refused
  <2>2. DataTyped' /\ ControlTyped'
    BY <1>6 DEF Refused, files, counts, DataTyped, ControlTyped
  <2> QED
    BY <2>1, <2>2
<1> HIDE DEF TypeOK
<1> QED
  BY <1>1, <1>2, <1>3, <1>4, <1>5, <1>6 DEF Start

\* The steps of pause and abort that ask the owner, and wait for an answer.
LEMMA RequestTypes ==
  ASSUME TypeOK, NEW p \in Proc, WriteRequest(p) \/ RenameRequest(p) \/ AwaitResult(p)
  PROVE  TypeOK'
<1> USE LockAssumption DEF TypeOK, At
<1>1. CASE WriteRequest(p)
  <2>1. FlowTyped'
    BY <1>1 DEF WriteRequest, Go, local, FlowTyped, Place, Outside, Working, Writing
  <2>2. DataTyped' /\ ControlTyped'
    BY <1>1 DEF WriteRequest, local, files, counts, DataTyped, ControlTyped
  <2> QED
    BY <2>1, <2>2
<1>2. CASE RenameRequest(p)
  <2>1. FlowTyped'
    BY <1>2 DEF RenameRequest, Go, local, FlowTyped, Place, Outside, Working, Writing
  <2>2. DataTyped' /\ ControlTyped'
    BY <1>2 DEF RenameRequest, local, counts, DataTyped, ControlTyped, FlowTyped, Asked
  <2> QED
    BY <2>1, <2>2
<1>3. CASE AwaitResult(p)
  <2>1. FlowTyped'
    BY <1>3, ToOut DEF AwaitResult, Exit, Place, Outside, Working
  <2>2. DataTyped' /\ ControlTyped'
    BY <1>3 DEF AwaitResult, Exit, Swept, counts, DataTyped, ControlTyped
  <2> QED
    BY <2>1, <2>2
<1> HIDE DEF TypeOK
<1> QED
  BY <1>1, <1>2, <1>3

\* The steps at the lock.
LEMMA LockingTypes ==
  ASSUME TypeOK, NEW p \in Proc, Acquire(p), UNCHANGED <<local, files, counts>>
  PROVE  TypeOK'
<1>1. \E x \in {"record", "judge", "locked", "stopped", "refused", "unlink", "open"} : Go(p, x)
  BY DEF Acquire, OpenLock, RecordOwner, JudgeOwner, UnlinkStale
<1>2. FlowTyped'
  BY <1>1, ToOut DEF TypeOK, local, Place, Outside, Working
<1>3. DataTyped' /\ ControlTyped'
  BY DEF TypeOK, local, files, counts, DataTyped, ControlTyped
<1> QED
  BY <1>2, <1>3 DEF TypeOK

LEMMA ForgetTyped ==
  ASSUME TypeOK, NEW p \in Proc, Forget(p), UNCHANGED <<files, edits>>, troubles' \in Nat,
         NEW x \in {"exited", "dead"}, Go(p, x)
  PROVE  TypeOK'
<1>1. FlowTyped'
  <2>1. x \in Place \ (Working \cup {"ask", "rename", "wait"}) /\ x \notin Writing
    BY DEF Place, Outside, Working, Writing
  <2> QED
    BY <2>1 DEF TypeOK, FlowTyped, Forget, Go, NoGoal
<1>2. NoSession \in Session
  BY BoundAssumption DEF NoSession, Session, Version
<1>3. DataTyped'
  BY <1>2 DEF TypeOK, DataTyped, Forget, files
<1>4. ControlTyped'
  BY DEF TypeOK, ControlTyped, Forget, files, NoLogs, Unasked, Asked, LogState
<1> QED
  BY <1>1, <1>3, <1>4 DEF TypeOK

LEMMA AskTyped ==
  ASSUME ControlTyped, NEW p \in Proc, NEW what \in {"pause", "abort"},
         NEW mon \in {"off", "idle", "pause", "abort", "done"}, Ask(p, what, mon)
  PROVE  ctl' \in [Proc -> [req : Asked, intr : Asked, late : BOOLEAN,
                           mon : {"off", "idle", "pause", "abort", "done"}]]
<1> DEFINE req == IF ctl[p].req = "abort" THEN ctl[p].req ELSE what
           intr == IF Bound(p) /\ (ctl[p].req # "abort" \/ what = "abort")
                     THEN Recorded(ctl[p].intr, what) ELSE ctl[p].intr
           late == ctl[p].late \/ (what = "abort" /\ Settled(p))
<1>1. ctl' = [ctl EXCEPT ![p] = [req |-> req, intr |-> intr, mon |-> mon, late |-> late]]
  BY Zenon DEF Ask
<1>2. req \in Asked /\ intr \in Asked /\ late \in BOOLEAN
  BY DEF ControlTyped, Asked, Recorded
<1> HIDE DEF req, intr, late
<1> QED
  BY <1>1, <1>2 DEF ControlTyped

\* The steps of the monitor of an owner, and a signal.
LEMMA MonitorTypes ==
  ASSUME TypeOK, NEW p \in Proc, Monitor(p) \/ Signal(p)
  PROVE  TypeOK'
<1>1. UNCHANGED <<pc, cmd, handler, goal>>
  BY DEF Monitor, Signal, ReadRequest, Deliver, DropRequest, lockVars
<1>2. FlowTyped'
  BY <1>1 DEF TypeOK, FlowTyped
<1>3. DataTyped'
  BY DEF Monitor, Signal, ReadRequest, Deliver, DropRequest, files, counts, Trouble, TypeOK, DataTyped
<1>4. ctl' \in [Proc -> [req : Asked, intr : Asked, late : BOOLEAN,
                        mon : {"off", "idle", "pause", "abort", "done"}]]
  <2>1. CASE Deliver(p)
    BY <2>1, AskTyped DEF Deliver, TypeOK
  <2>2. CASE Signal(p)
    BY <2>2, AskTyped DEF Signal, TypeOK, ControlTyped
  <2>3. CASE ReadRequest(p) \/ DropRequest(p)
    <3>1. PICK mon \in {"idle", "pause", "abort"} : ctl' = [ctl EXCEPT ![p].mon = mon]
      BY <2>3 DEF ReadRequest, DropRequest, TypeOK, ControlTyped, Asked
    <3> QED
      BY <3>1 DEF TypeOK, ControlTyped
  <2> QED
    BY <2>1, <2>2, <2>3 DEF Monitor
<1>5. ControlTyped'
  BY <1>4 DEF Monitor, Signal, ReadRequest, Deliver, DropRequest, files, TypeOK, ControlTyped, Asked
<1> QED
  BY <1>2, <1>3, <1>5 DEF TypeOK

LEMMA EditTypes ==
  ASSUME TypeOK, Edit
  PROVE  TypeOK'
<1>1. edits' \in 0 .. MaxEdits /\ tree' \in Version
  BY BoundAssumption DEF Edit, TypeOK, DataTyped, Version
<1>2. FlowTyped' /\ DataTyped' /\ ControlTyped'
  BY <1>1 DEF Edit, lockVars, local, TypeOK, FlowTyped, DataTyped, ControlTyped
<1> QED
  BY <1>2 DEF TypeOK

------------------------------------------------------------------------------
(* What an owner does. *)

\* An owner leaves the lock and the memory of the others alone; it reads the
\* session, writes it, or keeps its status.
OwnerStep(p) ==
  /\ pc[p] \in Working \cup {"locked"}
  /\ \E x \in Working \cup {"release"} : Go(p, x)
  /\ UNCHANGED <<lock, judged, stolen, cmd>>
  /\ \A q \in Proc \ {p} : mem'[q] = mem[q]
  /\ \/ disk' = mem'[p] /\ disk'.status # "none"
     \/ disk' = disk /\ mem'[p] = disk
     \/ /\ disk' = disk /\ mem'[p].status = mem[p].status
        /\ pc[p] \in Working \/ cmd[p] = "run"
  /\ mem'[p].status # "none" \/ \E x \in {"failed", "stop", "release"} : Go(p, x)

LEMMA WriteOwns ==
  ASSUME TypeOK, Found, NEW p \in Proc, Write(p)
  PROVE  OwnerStep(p)
<1>1. pc[p] \in Working \ {"failed", "stop"} /\ mem[p].status # "none"
  BY DEF Write, WriteState, WriteFails, AppendEvent, AppendFails, Clear, At, Working, Found
<1>2. handler[p] \in Working /\ (pc[p] \in Writing => goal[p].then \in Working)
  BY <1>1, WorkPlaces DEF TypeOK, FlowTyped
<1>3. pc[p] \in Writing /\ "append" \in Working /\ "clear" \in Working
  BY DEF Write, WriteState, WriteFails, AppendEvent, AppendFails, Clear, At, Working, Writing
<1>4. CASE WriteState(p)
  <2>1. mem' = [mem EXCEPT ![p] = Moved(mem[p], goal[p].to)] /\ disk' = mem'[p]
    BY <1>4 DEF WriteState
  <2>2. disk'.status = goal[p].to /\ goal[p].to \in Status
    BY <1>4, <2>1, MovedTyped DEF WriteState, At, TypeOK, FlowTyped, DataTyped
  <2>3. disk'.status # "none"
    BY <2>2 DEF Status, TerminalStatus
  <2> QED
    BY <1>1, <1>3, <1>4, <2>1, <2>3 DEF WriteState, OwnerStep, TypeOK, DataTyped
<1>5. CASE WriteFails(p)
  BY <1>1, <1>2, <1>5 DEF WriteFails, Throw, local, files, OwnerStep
<1>6. CASE AppendEvent(p)
  BY <1>1, <1>2, <1>3, <1>6 DEF AppendEvent, OwnerStep
<1>7. CASE AppendFails(p)
  BY <1>1, <1>2, <1>3, <1>7 DEF AppendFails, OwnerStep
<1>8. CASE Clear(p)
  BY <1>1, <1>2, <1>3, <1>8 DEF Clear, Throw, local, OwnerStep
<1> QED
  BY <1>4, <1>5, <1>6, <1>7, <1>8 DEF Write


LEMMA ControlOwns ==
  ASSUME TypeOK, Found, NEW p \in Proc, Control(p)
  PROVE  OwnerStep(p)
<1> USE DEF At, Owned, Alone, Stop, OwnerStep
<1>0. pc[p] \in Working \ {"failed", "stop"} => mem[p].status # "none"
  BY DEF Found
<1>1. CASE ControlOwned(p)
  BY <1>0, <1>1 DEF ControlOwned, Reread, Found, TypeOK, DataTyped, Working
<1>2. CASE RollbackOwned(p)
  BY <1>0, <1>2 DEF RollbackOwned, Reread, Found, TypeOK, DataTyped, Working
<1>3. CASE Announce(p)
  BY <1>0, <1>3 DEF Announce, Note, TypeOK, DataTyped, Working
<1>4. CASE Invalidate(p)
  BY <1>0, <1>4 DEF Invalidate, Move, TypeOK, DataTyped, Working
<1>5. CASE Conclude(p)
  BY <1>0, <1>5 DEF Conclude, Note, TypeOK, DataTyped, Working
<1>6. CASE Done(p)
  BY <1>0, <1>6 DEF Done, TypeOK, DataTyped, Working
<1> QED
  BY <1>1, <1>2, <1>3, <1>4, <1>5, <1>6 DEF Control


LEMMA ComposeOwns ==
  ASSUME TypeOK, Found, NEW p \in Proc, Compose(p)
  PROVE  OwnerStep(p)
<1> USE DEF At, Owned, Kept, Stop, OwnerStep
<1>0. pc[p] \in Working \ {"failed", "stop"} => mem[p].status # "none"
  BY DEF Found
<1>1. CASE RunOwned(p)
  BY <1>0, <1>1 DEF RunOwned, NoSession, Note, TypeOK, DataTyped, Working
<1>2. CASE Publish(p)
  BY <1>0, <1>2 DEF Publish, Move, TypeOK, DataTyped, Working
<1>3. CASE ResumeOwned(p)
  BY <1>0, <1>3 DEF ResumeOwned, Reread, Note, Found, TypeOK, DataTyped, Working
<1>4. CASE ApproveGrant(p)
  BY <1>0, <1>4 DEF ApproveGrant, Note, Move, TypeOK, DataTyped, Working
<1>5. CASE Declined(p)
  BY <1>0, <1>5 DEF Declined, TypeOK, DataTyped, Working
<1>6. CASE Launch(p)
  <2>1. CASE UNCHANGED pc
    <3>1. Go(p, "launch")
      BY <1>6, <2>1 DEF Launch, Go, TypeOK, FlowTyped
    <3> QED
      BY <1>0, <1>6, <3>1 DEF Launch, Working
  <2>2. CASE ~ UNCHANGED pc
    BY <1>0, <1>6, <2>2 DEF Launch, Working
  <2> QED
    BY <2>1, <2>2
<1>7. CASE Thrown(p)
  BY <1>0, <1>7 DEF Thrown, Move, TypeOK, DataTyped, Working
<1>8. CASE Failed(p)
  BY <1>0, <1>8 DEF Failed, TypeOK, DataTyped, Working
<1>9. CASE StopMonitor(p)
  BY <1>0, <1>9 DEF StopMonitor, TypeOK, DataTyped, Working
<1> QED
  BY <1>1, <1>2, <1>3, <1>4, <1>5, <1>6, <1>7, <1>8, <1>9 DEF Compose


LEMMA RuntimeOwns ==
  ASSUME TypeOK, Found, NEW p \in Proc, Runtime(p)
  PROVE  OwnerStep(p)
<1> USE DEF At, Kept, Inside, FinishNow, Stop, OwnerStep
<1>0. pc[p] \in Working \ {"failed", "stop"} => mem[p].status # "none"
  BY DEF Found
<1>t. handler[p] # "none" => handler[p] \in Working
  BY WorkPlaces DEF TypeOK, FlowTyped
<1>h. pc[p] \in Working => handler[p] # "none"
  BY DEF TypeOK, FlowTyped
<1>m. mem \in [Proc -> Session]
  BY DEF TypeOK, DataTyped
<1>1. CASE Startup(p)
  BY <1>0, <1>1 DEF Startup, Move, TypeOK, DataTyped, Working
<1>2. CASE Work(p)
  <2>1. ASSUME NEW s, s.status = mem[p].status, Persist(p, s, "work")
        PROVE  OwnerStep(p)
    <3>1. pc[p] \in Working \ {"failed", "stop"} /\ "work" \in Working
      BY <1>2 DEF Work, Working
    <3>2. UNCHANGED <<lock, judged, stolen, cmd>>
      BY <1>2 DEF Work
    <3> QED
      BY <1>0, <1>t, <1>h, <1>m, <2>1, <3>1, <3>2 DEF Persist, Throw
  <2>2. [mem[p] EXCEPT !.base = tree].status = mem[p].status
        /\ [mem[p] EXCEPT !.claim = TRUE].status = mem[p].status
    BY <1>m DEF Session
  <2>3. CASE \E x \in {"write", "caught", "halted"} : Go(p, x) /\ UNCHANGED <<mem, disk>>
    BY <1>0, <1>2, <2>3 DEF Work, Working
  <2> QED
    BY <1>2, <2>1, <2>2, <2>3 DEF Work, Move
<1>3. CASE Claim(p)
  BY <1>0, <1>3 DEF Claim, Move, TypeOK, DataTyped, Working
<1>4. CASE Inspect(p)
  <2>1. mem' = mem \/ mem' = [mem EXCEPT ![p].report = None]
    BY <1>4 DEF Inspect
  <2>2. mem'[p].status = mem[p].status /\ \A q \in Proc \ {p} : mem'[q] = mem[q]
    BY <1>m, <2>1 DEF Session
  <2> QED
    BY <1>0, <1>4, <2>2 DEF Inspect, Note, Working
<1>5. CASE SaveReport(p)
  <2>1. mem' = mem \/ mem' = [mem EXCEPT ![p].report = mem[p].base]
    BY <1>5 DEF SaveReport
  <2>2. mem'[p].status = mem[p].status /\ \A q \in Proc \ {p} : mem'[q] = mem[q]
    BY <1>m, <2>1 DEF Session
  <2>3. \E x \in Working : Go(p, x)
    BY <1>t, <1>h, <1>5 DEF SaveReport, Throw, Working
  <2>4. pc[p] \in Working \ {"failed", "stop"} /\ UNCHANGED <<lock, judged, stolen, cmd, disk>>
    BY <1>5 DEF SaveReport, Working
  <2> QED
    BY <1>0, <2>2, <2>3, <2>4
<1>6. CASE Conclusion(p)
  BY <1>0, <1>6 DEF Conclusion, Note, Move, TypeOK, DataTyped, Working
<1>7. CASE Answer(p)
  <2>1. [mem[p] EXCEPT !.claim = FALSE].status = mem[p].status
    BY <1>m DEF Session
  <2>2. pc[p] \in Working \ {"failed", "stop"} /\ "work" \in Working
    BY <1>7 DEF Answer, Working
  <2> QED
    BY <1>0, <1>t, <1>h, <1>m, <1>7, <2>1, <2>2 DEF Answer, Persist, Throw
<1>8. CASE Caught(p)
  BY <1>0, <1>8 DEF Caught, Move, TypeOK, DataTyped, Working
<1>9. CASE Finish(p)
  BY <1>0, <1>9 DEF Finish, Move, TypeOK, DataTyped, Working
<1>10. CASE Stopping(p)
  BY <1>0, <1>10 DEF Stopping, TypeOK, DataTyped, Working
<1>11. CASE Leave(p)
  BY <1>0, <1>11 DEF Leave, TypeOK, DataTyped, Working
<1>12. CASE Report(p)
  BY <1>0, <1>12 DEF Report, TypeOK, DataTyped, Working
<1> QED
  BY <1>1, <1>2, <1>3, <1>4, <1>5, <1>6, <1>7, <1>8, <1>9, <1>10, <1>11, <1>12 DEF Runtime

------------------------------------------------------------------------------
(* The lock and the session, kept. *)

LEMMA OneOwnerFits ==
  ASSUME LockInv, ~ stolen, NEW p \in Proc, NEW q \in Proc, pc[p] \notin Outside, pc[q] \notin Outside
  PROVE  p = q
BY DEF LockInv, Owners

LEMMA OwnerPlaces ==
  \A x \in Working \cup {"release", "locked", "record"} : x \notin Outside
BY DEF Working, Outside

\* Before the session is there only the run that will make it does anything.
LEMMA RunAlone ==
  ASSUME TypeOK, Found, disk = NoSession, NEW p \in Proc, cmd[p] = "run",
         NEW q \in Proc, pc[q] \notin {"idle", "exited", "dead"}
  PROVE  p = q
<1>1. cmd[q] = "run"
  BY DEF Found, NoSession
<1> QED
  BY <1>1, OneRunAssumption, BoundAssumption DEF TypeOK, FlowTyped

LEMMA OwnerKeeps ==
  ASSUME TypeOK, Found, LockInv, InStep, NEW p \in Proc, OwnerStep(p)
  PROVE  Found' /\ LockInv' /\ InStep'
<1>1. PICK x \in Working \cup {"release"} : pc' = [pc EXCEPT ![p] = x]
  BY DEF OwnerStep, Go
<1>2. /\ pc'[p] = x /\ \A q \in Proc \ {p} : pc'[q] = pc[q]
      /\ pc[p] \notin Outside /\ x \notin Outside
  BY <1>1, OwnerPlaces DEF OwnerStep, TypeOK, FlowTyped
<1>3. LockInv'
  <2>1. LockTyped' /\ Owners' = Owners
    BY <1>2 DEF OwnerStep, LockInv, LockTyped, Owners
  <2>2. \A q \in Proc \cup {Gone, None} : Over(q) => Over(q)'
    BY <1>2, LockAssumption DEF Over, Outside
  <2>3. x # "idle" /\ x # "unlink"
    BY <1>2 DEF Outside
  <2> QED
    BY <1>2, <2>1, <2>2, <2>3 DEF LockInv, LockTyped, OwnerStep
<1>4. disk'.status = "none" => disk' = disk /\ disk.status = "none"
  BY DEF OwnerStep
<1>5. Found'
  <2>1. x \notin {"record", "locked"}
    BY <1>1 DEF Working
  <2>2. mem'[p].status # "none" \/ x \in {"failed", "stop", "release"}
    <3>1. ASSUME NEW y, Go(p, y)
          PROVE  y = x
      BY <1>2, <3>1 DEF Go, TypeOK, FlowTyped
    <3> QED
      BY <3>1 DEF OwnerStep
  <2>3. "release" \notin Working
    BY DEF Working
  <2>4. cmd[p] # "none"
    BY <1>2 DEF Found, Outside
  <2> QED
    BY <1>2, <1>4, <2>1, <2>2, <2>3, <2>4 DEF Found, OwnerStep
<1>6. InStep'
  <2> SUFFICES ASSUME ~ stolen PROVE InStep'
    BY DEF InStep, OwnerStep
  <2>1. \A q \in Proc : q # p => pc'[q] \in Outside
    BY <1>2, OneOwnerFits
  <2>2. \A q \in Proc : cmd'[q] = "run" /\ pc'[q] \in {"open", "judge", "unlink", "record", "locked"}
                          => disk' = NoSession
    <3> SUFFICES ASSUME NEW q \in Proc, cmd'[q] = "run",
                        pc'[q] \in {"open", "judge", "unlink", "record", "locked"}
                 PROVE  FALSE
      OBVIOUS
    <3>1. q # p
      BY <1>1, <1>2 DEF Outside, Working
    <3>2. disk = NoSession
      BY <1>2, <3>1 DEF InStep, OwnerStep
    <3>3. pc[p] \notin {"idle", "exited", "dead"}
      BY <1>2 DEF Outside
    <3> QED
      BY <3>1, <3>2, <3>3, RunAlone DEF OwnerStep
  <2>3. mem'[p].status = disk'.status
    <3>1. CASE pc[p] \in Working
      BY <3>1 DEF OwnerStep, InStep
    <3>2. CASE pc[p] = "locked" /\ cmd[p] = "run"
      BY <3>2 DEF OwnerStep, InStep, Found
    <3> QED
      BY <3>1, <3>2 DEF OwnerStep
  <2> QED
    BY <2>1, <2>2, <2>3, OwnerPlaces DEF InStep
<1> QED
  BY <1>3, <1>5, <1>6

\* The steps that concern neither the lock nor the session.
LEMMA QuietKeeps ==
  ASSUME Found, LockInv, InStep, UNCHANGED <<pc, lock, judged, stolen, cmd, mem, disk>>
  PROVE  Found' /\ LockInv' /\ InStep'
BY DEF Found, LockInv, LockTyped, InStep, Over, Owners

\* A process that does not own the workspace, and does not come to own it: a
\* command begins, or one goes on that does not try the lock again.
OutsideStep(p) ==
  /\ pc[p] \in Outside \ {"exited", "dead"}
  /\ \E x \in Outside \ {"idle", "unlink"} : Go(p, x)
  /\ UNCHANGED <<lock, judged, stolen, mem, disk>>
  /\ \/ cmd' = cmd /\ pc[p] # "idle" /\ \A x \in {"open", "judge"} : ~ Go(p, x)
     \/ \E c \in Name :
          /\ cmd' = [cmd EXCEPT ![p] = c]
          /\ c = "run" => disk = NoSession
          /\ c # "run" => disk.status # "none"

LEMMA StartOutside ==
  ASSUME TypeOK, Found, NEW p \in Proc, Start(p)
  PROVE  OutsideStep(p)
<1> USE DEF Begin, Begun, At, Exit, Look, OutsideStep
<1>0. /\ disk # NoSession => disk.status # "none"
      /\ {"open", "exited", "ask"} \subseteq Outside \ {"idle", "unlink"}
      /\ {"idle", "refused", "stopped"} \subseteq Outside \ {"exited", "dead"}
      /\ {"run", "resume", "pause", "abort", "rollback", "status"} \subseteq Name
  BY DEF Found, Outside, Name
<1>1. CASE StartRun(p)
  BY <1>0, <1>1 DEF StartRun
<1>2. CASE StartResume(p)
  BY <1>0, <1>2 DEF StartResume
<1>3. CASE StartControl(p)
  BY <1>0, <1>3 DEF StartControl
<1>4. CASE StartRollback(p)
  BY <1>0, <1>4 DEF StartRollback
<1>5. CASE ShowStatus(p)
  BY <1>0, <1>5 DEF ShowStatus
<1>6. CASE Refused(p)
  <2>1. pc \in [Proc -> Place] /\ UNCHANGED <<cmd, disk>>
    BY <1>6 DEF Refused, files, TypeOK, FlowTyped
  <2>2. \A x \in {"open", "judge"} : ~ Go(p, x)
    BY <1>6, <2>1 DEF Refused, Go
  <2> QED
    BY <1>0, <1>6, <2>1, <2>2 DEF Refused
<1> QED
  BY <1>1, <1>2, <1>3, <1>4, <1>5, <1>6 DEF Start

LEMMA RequestOutside ==
  ASSUME TypeOK, NEW p \in Proc, WriteRequest(p) \/ RenameRequest(p) \/ AwaitResult(p)
  PROVE  OutsideStep(p)
<1>1. /\ {"rename", "wait", "exited"} \subseteq Outside \ {"idle", "unlink"}
      /\ {"ask", "rename", "wait"} \subseteq Outside \ {"exited", "dead"}
  BY DEF Outside
<1>2. \A x \in {"open", "judge"} : ~ Go(p, x)
  BY DEF WriteRequest, RenameRequest, AwaitResult, Exit, Go, TypeOK, FlowTyped
<1> QED
  BY <1>1, <1>2 DEF WriteRequest, RenameRequest, AwaitResult, At, Exit, local, files, OutsideStep

LEMMA OutsideKeeps ==
  ASSUME TypeOK, Found, LockInv, InStep, NEW p \in Proc, OutsideStep(p)
  PROVE  Found' /\ LockInv' /\ InStep'
<1>1. PICK x \in Outside \ {"idle", "unlink"} : pc' = [pc EXCEPT ![p] = x]
  BY DEF OutsideStep, Go
<1>2. /\ pc'[p] = x /\ \A q \in Proc \ {p} : pc'[q] = pc[q]
      /\ pc[p] \in Outside /\ pc[p] \notin {"exited", "dead"}
  BY <1>1 DEF OutsideStep, TypeOK, FlowTyped
<1>3. LockInv'
  <2>1. LockTyped' /\ Owners' = Owners
    BY <1>2 DEF OutsideStep, LockInv, LockTyped, Owners
  <2>2. \A q \in Proc \cup {Gone, None} : Over(q) => Over(q)'
    BY <1>2, LockAssumption DEF Over
  <2> QED
    BY <1>2, <2>1, <2>2 DEF LockInv, LockTyped, OutsideStep
<1>4. x \notin Working \cup {"release", "record", "locked"} /\ "idle" \in Outside
  BY OwnerPlaces DEF Outside
<1>5. /\ \A q \in Proc \ {p} : cmd'[q] = cmd[q]
      /\ cmd'[p] \in Name
      /\ cmd'[p] # "run" => disk.status # "none"
      /\ cmd'[p] = "run" /\ x \in {"open", "judge"} => disk = NoSession
  <2>1. CASE cmd' = cmd /\ pc[p] # "idle" /\ \A y \in {"open", "judge"} : ~ Go(p, y)
    <3>1. x \notin {"open", "judge"}
      BY <1>1, <2>1 DEF Go
    <3>2. cmd[p] # "none" => cmd[p] \in Name
      BY DEF TypeOK, FlowTyped
    <3>3. cmd[p] # "none"
      BY <1>2, <2>1 DEF Found
    <3> QED
      BY <2>1, <3>1, <3>2, <3>3 DEF Found
  <2>2. CASE cmd' # cmd \/ pc[p] = "idle" \/ \E y \in {"open", "judge"} : Go(p, y)
    BY <2>2 DEF OutsideStep, TypeOK, FlowTyped
  <2> QED
    BY <2>1, <2>2
<1>6. Found'
  <2>1. "none" \notin Name
    BY DEF Name
  <2> QED
    BY <1>2, <1>4, <1>5, <2>1 DEF Found, OutsideStep
<1>7. InStep'
  <2>1. x \notin {"unlink", "record", "locked"}
    BY <1>1, <1>4
  <2> QED
    BY <1>2, <1>4, <1>5, <2>1 DEF InStep, OutsideStep
<1> QED
  BY <1>3, <1>6, <1>7

------------------------------------------------------------------------------
(* The steps at the lock. *)

LEMMA AcquireKeeps ==
  ASSUME TypeOK, Found, LockInv, InStep, NEW p \in Proc, Acquire(p),
         UNCHANGED <<local, files, counts>>
  PROVE  Found' /\ LockInv' /\ InStep'
<1> USE DEF At, Go
<1>0. UNCHANGED <<cmd, mem, disk>> /\ cmd[p] # "none"
  BY DEF local, files, Found, Acquire, OpenLock, RecordOwner, JudgeOwner, UnlinkStale
<1>1. PICK x \in {"record", "judge", "locked", "stopped", "refused", "unlink", "open"} :
        pc' = [pc EXCEPT ![p] = x]
  BY DEF Acquire, OpenLock, RecordOwner, JudgeOwner, UnlinkStale
<1>2. /\ pc'[p] = x /\ \A q \in Proc \ {p} : pc'[q] = pc[q]
      /\ x \notin Working \cup {"release"}
      /\ pc[p] \in {"open", "record", "judge", "unlink"}
  BY <1>1 DEF TypeOK, FlowTyped, Working, Acquire, OpenLock, RecordOwner, JudgeOwner, UnlinkStale
<1>3. \A q \in Proc \cup {Gone, None} : Over(q) => Over(q)'
  BY <1>2, LockAssumption DEF Over
<1>4. Found'
  <2>1. pc[p] \in Outside \cup {"record", "locked"}
    BY <1>2 DEF Outside
  <2> QED
    BY <1>0, <1>2, <2>1 DEF Found
<1>5. LockInv'
  <2>1. CASE OpenLock(p)
    <3>1. CASE lock = Free
      <4>1. x = "record" /\ lock' = [owner |-> p, whole |-> FALSE] /\ UNCHANGED <<judged, stolen>>
        BY <1>2, <2>1, <3>1 DEF OpenLock, TypeOK, FlowTyped
      <4>2. ~ stolen => Owners = {}
        BY <3>1, LockAssumption DEF LockInv, Free, Owners
      <4>3. ~ stolen => \A q \in Owners' : q = p
        BY <1>2, <4>2 DEF Owners
      <4>4. LockTyped'
        BY <4>1, LockAssumption DEF LockInv, LockTyped
      <4> QED
        BY <1>2, <1>3, <4>1, <4>3, <4>4 DEF LockInv, LockTyped
    <3>2. CASE lock # Free
      <4>1. x = "judge" /\ UNCHANGED <<lock, judged, stolen>>
        BY <1>2, <2>1, <3>2 DEF OpenLock, TypeOK, FlowTyped
      <4>2. Owners' = Owners
        BY <1>2, <2>1, <4>1 DEF OpenLock, Owners, Outside
      <4> QED
        BY <1>2, <1>3, <4>1, <4>2 DEF LockInv, LockTyped
    <3> QED
      BY <3>1, <3>2
  <2>2. CASE RecordOwner(p)
    <3>0. lock' = lock \/ (lock' = [lock EXCEPT !.whole = TRUE] /\ lock.owner = p)
      BY <2>2 DEF RecordOwner
    <3>1. x = "locked" /\ UNCHANGED <<judged, stolen>> /\ lock'.owner = lock.owner /\ LockTyped'
      <4>1. x = "locked" /\ UNCHANGED <<judged, stolen>>
        BY <1>2, <2>2 DEF RecordOwner, TypeOK, FlowTyped
      <4>2. lock' \in [owner : Proc \cup {Gone, None}, whole : BOOLEAN] /\ lock'.owner = lock.owner
        BY <3>0 DEF LockInv, LockTyped
      <4>3. lock'.whole => lock'.owner # None
        BY <3>0, <4>2, LockAssumption DEF LockInv, LockTyped
      <4> QED
        BY <4>1, <4>2, <4>3 DEF LockInv, LockTyped
    <3>2. Owners' = Owners
      BY <1>2, <2>2, <3>1 DEF RecordOwner, Owners, Outside
    <3> QED
      BY <1>2, <1>3, <3>1, <3>2 DEF LockInv, LockTyped
  <2>3. CASE JudgeOwner(p)
    <3>1. Owners' = Owners /\ UNCHANGED <<lock, stolen>>
      BY <1>2, <2>3 DEF JudgeOwner, Owners, Outside, TypeOK, FlowTyped
    <3>2. CASE x # "unlink"
      <4>1. UNCHANGED judged
        BY <1>2, <2>3, <3>2 DEF JudgeOwner, TypeOK, FlowTyped
      <4> QED
        BY <1>2, <1>3, <3>1, <3>2, <4>1 DEF LockInv, LockTyped, JudgeOwner
    <3>3. CASE x = "unlink"
      <4>1. /\ lock.whole /\ ~ Alive(lock.owner)
            /\ judged' = [judged EXCEPT ![p] = lock.owner]
        BY <1>2, <2>3, <3>3 DEF JudgeOwner, TypeOK, FlowTyped
      <4>2. lock.owner # None /\ Over(lock.owner)
        BY <4>1 DEF LockInv, LockTyped, Alive, Over
      <4> QED
        BY <1>2, <1>3, <3>1, <3>3, <4>1, <4>2 DEF LockInv, LockTyped
    <3> QED
      BY <3>2, <3>3
  <2>4. CASE UnlinkStale(p)
    <3>1. /\ lock' = Free /\ judged' = [judged EXCEPT ![p] = None] /\ x \in {"stopped", "open"}
          /\ stolen' = (stolen \/ lock.owner \notin {None, judged[p]})
      BY <1>2, <2>4 DEF UnlinkStale, TypeOK, FlowTyped
    <3>2. Owners' = Owners
      BY <1>2, <2>4, <3>1 DEF UnlinkStale, Owners, Outside
    <3>3. ~ stolen' => Owners = {}
      <4> SUFFICES ASSUME ~ stolen', NEW q \in Owners PROVE FALSE
        BY DEF Owners
      <4>1. lock.owner = q /\ q \in Proc /\ pc[q] \notin {"exited", "dead"}
        BY <3>1 DEF LockInv, Owners, Outside
      <4>2. judged[p] = q
        BY <3>1, <4>1, LockAssumption
      <4> QED
        BY <4>1, <4>2, LockAssumption DEF LockInv, Over
    <3>4. LockTyped'
      BY <3>1, LockAssumption DEF LockInv, LockTyped, Free
    <3> QED
      BY <1>2, <1>3, <3>1, <3>2, <3>3, <3>4, LockAssumption DEF LockInv, LockTyped, Free
  <2> QED
    BY <2>1, <2>2, <2>3, <2>4 DEF Acquire
<1>6. InStep'
  <2>1. ~ stolen' => ~ stolen
    BY DEF Acquire, OpenLock, RecordOwner, JudgeOwner, UnlinkStale, LockInv, LockTyped
  <2> QED
    BY <1>0, <1>2, <2>1 DEF InStep
<1> QED
  BY <1>4, <1>5, <1>6

\* A process ends: it gives the lock back, or dies with it.
LEMMA EndKeeps ==
  ASSUME TypeOK, Found, LockInv, InStep, NEW p \in Proc, NEW x \in {"exited", "dead"},
         pc[p] # "idle", Go(p, x), Forget(p), UNCHANGED <<stolen, files>>,
         lock' = lock \/ (lock' = Free /\ pc[p] \notin Outside),
         \A q \in Proc \ {p} : judged'[q] = judged[q], judged'[p] \in {judged[p], None},
         judged' \in [Proc -> Proc \cup {Gone, None}]
  PROVE  Found' /\ LockInv' /\ InStep'
<1>1. /\ pc'[p] = x /\ \A q \in Proc \ {p} : pc'[q] = pc[q]
      /\ cmd'[p] = "none" /\ \A q \in Proc \ {p} : cmd'[q] = cmd[q]
      /\ mem'[p] = NoSession /\ \A q \in Proc \ {p} : mem'[q] = mem[q]
      /\ UNCHANGED <<disk, stolen>>
  BY DEF Go, Forget, TypeOK, FlowTyped, DataTyped, files
<1>2. x \in Outside /\ x \notin Working \cup {"release", "record", "locked"}
  BY OwnerPlaces DEF Outside
<1>3. Found'
  BY <1>1, <1>2 DEF Found
<1>4. InStep'
  BY <1>1, <1>2 DEF InStep
<1>5. LockInv'
  <2>1. Owners' = Owners \ {p}
    BY <1>1, <1>2 DEF Owners
  <2>2. \A q \in Proc \cup {Gone, None} : Over(q) => Over(q)'
    BY <1>1, LockAssumption DEF Over
  <2>3. LockTyped'
    <3>1. Free \in [owner : Proc \cup {Gone, None}, whole : BOOLEAN] /\ ~ Free.whole
      BY DEF Free
    <3> QED
      BY <1>1, <3>1 DEF LockInv, LockTyped
  <2>4. (\A q \in Proc : judged[q] # None => Over(judged[q]))'
    <3>1. \A q \in Proc : judged'[q] # None => judged'[q] = judged[q]
      OBVIOUS
    <3> QED
      BY <1>1, <3>1 DEF LockInv, LockTyped, Over
  <2>5. \A q \in Proc : pc'[q] = "unlink" => judged'[q] # None
    BY <1>1 DEF LockInv
  <2>6. /\ lock'.owner \in Proc => pc'[lock'.owner] # "idle"
        /\ ~ stolen' => \A q \in Owners' : lock'.owner = q
    <3>1. CASE lock' = lock
      BY <1>1, <2>1, <3>1 DEF LockInv
    <3>2. CASE lock' = Free /\ pc[p] \notin Outside
      <4>1. ~ stolen => Owners = {p}
        BY <3>2 DEF LockInv, Owners
      <4> QED
        BY <1>1, <2>1, <3>2, <4>1, LockAssumption DEF Free
    <3> QED
      BY <3>1, <3>2
  <2> QED
    BY <2>3, <2>4, <2>5, <2>6 DEF LockInv
<1> QED
  BY <1>3, <1>4, <1>5

------------------------------------------------------------------------------
(* The invariant. *)

LEMMA LeftRecord ==
  ASSUME NEW status
  PROVE  Left(status) = [status |-> status, report |-> IF status = "completed" THEN 0 ELSE None,
                         base |-> 0, claim |-> status = "completed"]
<1> DEFINE report == IF status = "completed" THEN 0 ELSE None
           claim == status = "completed"
<1>1. Left(status) = [NoSession EXCEPT !.status = status, !.report = report, !.claim = claim]
  BY Zenon DEF Left
<1> HIDE DEF report, claim
<1>2. Left(status) = [status |-> status, report |-> report, base |-> 0, claim |-> claim]
  BY <1>1 DEF NoSession
<1> QED
  BY <1>2, Zenon DEF report, claim

LEMMA InitInv ==
  ASSUME Init
  PROVE  IInv
<1>1. PICK status \in Resumables \cup {"none"} :
        /\ disk = Left(status)
        /\ lock \in {Free, [owner |-> Gone, whole |-> TRUE]} /\ manifest \in BOOLEAN
  <2>1. NoSession = Left("none")
    BY LeftRecord DEF NoSession
  <2> QED
    BY <2>1 DEF Init
<1>2. 0 \in Version /\ status \in Status \cup {"none"}
  BY BoundAssumption DEF Version
<1>3. /\ Left(status) \in Session /\ Left(status).status = status
      /\ status = "none" => Left(status) = NoSession
      /\ NoSession \in Session
  BY <1>2, LeftRecord DEF Session, NoSession
<1>4. FlowTyped
  <2>1. "idle" \in Place \ Working /\ "idle" \notin Writing
    BY DEF Place, Outside, Working, Writing
  <2> QED
    BY <2>1 DEF Init, FlowTyped, NoGoal
<1>5. DataTyped
  BY <1>1, <1>2, <1>3, BoundAssumption DEF Init, DataTyped, Session
<1>6. ControlTyped
  BY <1>1 DEF Init, ControlTyped, Unasked, Asked, NoLogs, LogState
<1>7. "idle" \in Outside /\ "idle" \notin Working \cup {"release", "unlink"}
  BY DEF Outside, Working
<1>8. Found
  BY <1>1, <1>3, <1>7 DEF Init, Found
<1>9. LockInv
  <2>1. LockTyped /\ lock.owner \in {Gone, None} /\ lock.owner \notin Proc
    <3>1. CASE lock = Free
      BY <3>1, LockAssumption DEF Init, LockTyped, Free
    <3>2. CASE lock = [owner |-> Gone, whole |-> TRUE]
      BY <3>2, LockAssumption DEF Init, LockTyped
    <3> QED
      BY <1>1, <3>1, <3>2
  <2> QED
    BY <1>7, <2>1 DEF Init, LockInv, Owners
<1>10. InStep
  BY <1>7 DEF Init, InStep
<1> QED
  BY <1>4, <1>5, <1>6, <1>8, <1>9, <1>10 DEF IInv, TypeOK

LEMMA NextInv ==
  ASSUME IInv, [Next]_vars
  PROVE  IInv'
<1> USE DEF IInv
<1>1. CASE UNCHANGED vars
  <2>1. TypeOK'
    BY <1>1 DEF vars, lockVars, local, files, counts, TypeOK, FlowTyped, DataTyped, ControlTyped
  <2> QED
    BY <1>1, <2>1, QuietKeeps DEF vars, lockVars, local, files
<1>2. ASSUME NEW p \in Proc, Write(p) \/ Control(p) \/ Compose(p) \/ Runtime(p)
      PROVE  IInv'
  BY <1>2, WriteTypes, ControlTypes, ComposeTypes, RuntimeTypes,
     WriteOwns, ControlOwns, ComposeOwns, RuntimeOwns, OwnerKeeps
<1>3. ASSUME NEW p \in Proc, Start(p)
      PROVE  IInv'
  BY <1>3, StartTypes, StartOutside, OutsideKeeps
<1>4. ASSUME NEW p \in Proc, WriteRequest(p) \/ RenameRequest(p) \/ AwaitResult(p)
      PROVE  IInv'
  BY <1>4, RequestTypes, RequestOutside, OutsideKeeps
<1>5. ASSUME NEW p \in Proc, Acquire(p), UNCHANGED <<local, files, counts>>
      PROVE  IInv'
  BY <1>5, LockingTypes, AcquireKeeps
<1>6. ASSUME NEW p \in Proc, ReleaseLock(p), Forget(p), UNCHANGED <<files, counts>>
      PROVE  IInv'
  <2>1. troubles' \in Nat /\ UNCHANGED edits
    BY <1>6 DEF counts, TypeOK, DataTyped
  <2>2. /\ pc[p] \notin Outside /\ pc[p] # "idle" /\ lock' = Free
        /\ UNCHANGED <<judged, stolen>> /\ Go(p, "exited")
    BY <1>6 DEF ReleaseLock, At, Outside
  <2>3. TypeOK'
    BY <1>6, <2>1, <2>2, ForgetTyped
  <2>4. judged' \in [Proc -> Proc \cup {Gone, None}]
    BY <2>2 DEF LockInv, LockTyped
  <2> QED
    BY <1>6, <2>2, <2>3, <2>4, EndKeeps
<1>7. ASSUME NEW p \in Proc, Crash(p)
      PROVE  IInv'
  <2>1. /\ troubles' \in Nat /\ Go(p, "dead") /\ Forget(p) /\ pc[p] # "idle"
        /\ UNCHANGED <<lock, stolen, files, edits>>
        /\ judged' = [judged EXCEPT ![p] = None]
    BY <1>7 DEF Crash, Trouble, Alive, TypeOK, DataTyped
  <2>2. TypeOK'
    BY <2>1, ForgetTyped
  <2>3. /\ judged' \in [Proc -> Proc \cup {Gone, None}] /\ judged'[p] = None
        /\ \A q \in Proc \ {p} : judged'[q] = judged[q]
    BY <2>1 DEF LockInv, LockTyped
  <2> QED
    BY <2>1, <2>2, <2>3, EndKeeps
<1>8. ASSUME NEW p \in Proc, Monitor(p) \/ Signal(p)
      PROVE  IInv'
  <2>1. UNCHANGED <<pc, lock, judged, stolen, cmd, mem, disk>>
    BY <1>8 DEF Monitor, Signal, ReadRequest, Deliver, DropRequest, lockVars, files
  <2> QED
    BY <1>8, <2>1, MonitorTypes, QuietKeeps
<1>9. CASE Edit
  <2>1. UNCHANGED <<pc, lock, judged, stolen, cmd, mem, disk>>
    BY <1>9 DEF Edit, lockVars, local
  <2> QED
    BY <1>9, <2>1, EditTypes, QuietKeeps
<1> QED
  BY <1>1, <1>2, <1>3, <1>4, <1>5, <1>6, <1>7, <1>8, <1>9 DEF Next, Step, Locking

\* The invariant holds throughout.
THEOREM Invariance == Spec => []IInv
BY InitInv, NextInv, PTL DEF Spec

\* Every variable keeps its type, and a process has the handler and the goal its
\* place asks for.
THEOREM TypeCorrect == Spec => []TypeOK
BY Invariance, PTL DEF IInv

LEMMA OwnershipFollows ==
  ASSUME IInv
  PROVE  Ownership
<1>1. OneOwner
  <2> SUFFICES ASSUME ~ stolen PROVE Cardinality(Owners) <= 1
    BY DEF OneOwner
  <2>1. Owners \subseteq {lock.owner}
    BY DEF IInv, LockInv
  <2>2. IsFiniteSet({lock.owner}) /\ Cardinality({lock.owner}) = 1
    BY FS_Singleton
  <2>3. Cardinality(Owners) <= Cardinality({lock.owner})
    BY <2>1, <2>2, FS_Subset
  <2> QED
    BY <2>2, <2>3
<1>2. OwnerInStep
  BY DEF OwnerInStep, IInv, InStep, Owners, At, TypeOK, FlowTyped, Place
<1> QED
  BY <1>1, <1>2 DEF Ownership

\* As long as no lock is removed in place of the stale one that was judged, at
\* most one process owns the workspace, and what it moves is the session that
\* is on disk (store.ts:205-247, commands.ts), for any number of processes.
THEOREM OwnershipHolds == Spec => []Ownership
BY Invariance, OwnershipFollows, PTL
==============================================================================
