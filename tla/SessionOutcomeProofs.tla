------------------------- MODULE SessionOutcomeProofs -------------------------
(***************************************************************************)
(* Proofs about what the commands of SessionCommands bring about: an abort *)
(* decides the session, a rollback that reports success has happened, the  *)
(* audit chain does not fork, and a completed session has its report.      *)
(***************************************************************************)
EXTENDS SessionCommandsProofs

\* The place a process is at or, while it writes, the one it goes on to.
Going(p) == IF pc[p] \in Writing THEN goal[p].then ELSE pc[p]

\* The status it has or is about to write.
Fate(p) == IF pc[p] = "write" THEN goal[p].to ELSE mem[p].status

Opening == {"created", "preflight", "granted", "approve", "approved", "recovered", "declined"}
Running == {"startup", "work", "claimed", "inspect", "save", "saved", "verified", "rejected",
            "answer", "caught", "halted", "finish", "result", "unwind"}

\* Each command has its places.
Role(x, c) ==
  /\ x \in {"announce", "invalidate", "conclude"} => c = "rollback"
  /\ x = "done" => c \in {"pause", "abort", "rollback"}
  /\ x \in Opening \cup Running \cup {"launch", "thrown", "report"} => c \in {"run", "resume"}

Placed(p) ==
  pc[p] \in Working =>
    /\ Role(Going(p), cmd[p]) /\ Role(handler[p], cmd[p])
    /\ Going(p) \in Running <=> InRuntime(p)
    /\ handler[p] = "failed" =>
         Going(p) \in {"announce", "invalidate", "conclude", "done", "failed", "stop"}
    /\ cmd[p] = "rollback" => handler[p] = "failed"

\* What the write in progress is about.
Written(p) ==
  /\ pc[p] = "append" /\ goal[p].to \in Status => mem[p].status = goal[p].to
  /\ pc[p] = "clear" => Ended(mem[p])
  /\ pc[p] \in Writing =>
       /\ goal[p].then \in {"result", "report"} => Fate(p) \in TerminalStatus
       /\ goal[p].then = "failed" => Fate(p) \in TerminalStatus \cup {"paused"}
       /\ goal[p].then # "stop"

------------------------------------------------------------------------------
(* An abort. *)

InTime(p) == ctl[p].req = "abort" /\ ~ ctl[p].late

Monitored(p) ==
  /\ ctl[p].mon = "off" /\ pc[p] # "release" => ctl[p].req # "abort"
  /\ ctl[p].mon # "off" =>
       Going(p) \in Running \cup {"launch", "thrown", "report", "failed", "stop"}

\* What an abort that came in time has brought about so far.
AbortKept(p) ==
  InTime(p) =>
    /\ InRuntime(p) => ctl[p].intr = "abort"
    /\ pc[p] # "release" /\ Ended(mem[p]) => mem[p].status = "aborted"
    /\ pc[p] # "release" /\ Fate(p) \in TerminalStatus => Fate(p) = "aborted"
    /\ Going(p) \in {"result", "report"} => Fate(p) = "aborted"
    /\ Going(p) \in {"failed", "stop"} => Fate(p) \in {"aborted", "paused"} \/ troubles > 0
    /\ Going(p) = "stop" => mem[p].status = "aborted" \/ told[p] = "error"

Fits(p) == Placed(p) /\ Written(p) /\ Monitored(p) /\ AbortKept(p)

AbortInv == \A p \in Proc : Fits(p)

------------------------------------------------------------------------------
(* The three ways an owner goes on. *)

LEMMA GoesOn ==
  ASSUME TypeOK, NEW p \in Proc, NEW x \in Working \ Writing, Go(p, x)
  PROVE  /\ Going(p)' = x /\ Fate(p)' = mem'[p].status
         /\ pc'[p] = x /\ pc'[p] \notin Writing /\ Written(p)'
<1>1. pc'[p] = x /\ x \notin {"write", "append", "clear"}
  BY DEF TypeOK, FlowTyped, Go, Writing
<1> QED
  BY <1>1 DEF Going, Fate, Written, Writing

LEMMA MovesOn ==
  ASSUME TypeOK, NEW p \in Proc, NEW to, NEW then, Move(p, to, then)
  PROVE  /\ Going(p)' = then /\ Fate(p)' = to
         /\ pc'[p] = "write" /\ goal'[p] = [to |-> to, then |-> then]
         /\ CanTransition(mem[p].status, to)
BY DEF TypeOK, FlowTyped, Go, Writing, Move, Going, Fate

LEMMA NotesOn ==
  ASSUME TypeOK, NEW p \in Proc, NEW event \in {"note", "undone", "ended"}, NEW then,
         Note(p, event, then)
  PROVE  /\ Going(p)' = then /\ Fate(p)' = mem'[p].status
         /\ pc'[p] = "append" /\ goal'[p] = [to |-> event, then |-> then]
         /\ goal'[p].to \notin Status
BY DEF TypeOK, FlowTyped, Go, Writing, Note, Going, Fate, Status, TerminalStatus


------------------------------------------------------------------------------
(* In the runtime. *)

LEMMA RunPlaces ==
  /\ Running \subseteq Working \ Writing /\ {"result", "caught", "unwind"} \subseteq Running
  /\ \A x \in Running : x \notin {"announce", "invalidate", "conclude", "done", "report",
                                 "failed", "stop", "release", "write", "append", "clear"}
BY DEF Running, Working, Writing

LEMMA RunRole ==
  ASSUME NEW p \in Proc, Fits(p), pc[p] \in Running, TypeOK
  PROVE  /\ Going(p) = pc[p] /\ Fate(p) = mem[p].status
         /\ cmd[p] \in {"run", "resume"} /\ InRuntime(p) /\ handler[p] \in {"caught", "unwind"}
         /\ \A x \in Running : Role(x, cmd[p])
<1>1. pc[p] \in Working \ Writing /\ pc[p] \notin {"write"}
  BY RunPlaces
<1>2. Going(p) = pc[p] /\ Fate(p) = mem[p].status
  BY <1>1 DEF Going, Fate
<1> QED
  BY <1>1, <1>2, RunPlaces DEF Fits, Placed, Role, InRuntime

\* Within the runtime a step keeps the fit if it does not pass over an abort.
LEMMA RunGo ==
  ASSUME TypeOK, NEW p \in Proc, Fits(p), pc[p] \in Running,
         NEW x \in Running, Go(p, x), x = "result" /\ InTime(p) => mem[p].status = "aborted",
         UNCHANGED <<cmd, ctl, told>>, handler' = handler \/ Handle(p, "unwind"),
         mem'[p].status = mem[p].status, troubles' >= troubles, troubles \in Nat, troubles' \in Nat
  PROVE  Fits(p)'
<1>1. /\ Going(p)' = x /\ Fate(p)' = mem[p].status /\ pc'[p] = x /\ pc'[p] \notin Writing /\ Written(p)'
  BY RunPlaces, GoesOn
<1>2. handler'[p] \in {"caught", "unwind"} /\ InRuntime(p)' /\ InTime(p)' = InTime(p)
  BY RunRole DEF Handle, TypeOK, FlowTyped, InRuntime, InTime
<1>3. Placed(p)'
  BY <1>1, <1>2, RunPlaces, RunRole DEF Placed
<1>4. Monitored(p)'
  BY <1>1, RunPlaces, RunRole DEF Monitored, Fits
<1>5. AbortKept(p)'
  BY <1>1, <1>2, RunPlaces, RunRole DEF AbortKept, Fits, Ended
<1> QED
  BY <1>1, <1>3, <1>4, <1>5 DEF Fits

LEMMA RunMove ==
  ASSUME TypeOK, Found, NEW p \in Proc, Fits(p), pc[p] \in Running,
         NEW to, NEW then \in Running, Move(p, to, then),
         to \in TerminalStatus /\ InTime(p) => to = "aborted",
         then = "result" => to \in TerminalStatus,
         UNCHANGED <<cmd, ctl, told, mem, troubles>>, handler' = handler \/ Handle(p, "unwind")
  PROVE  Fits(p)'
<1>1. /\ Going(p)' = then /\ Fate(p)' = to /\ pc'[p] = "write" /\ goal'[p] = [to |-> to, then |-> then]
  BY MovesOn
<1>2. handler'[p] \in {"caught", "unwind"} /\ InRuntime(p)' /\ InTime(p)' = InTime(p)
  BY RunRole DEF Handle, TypeOK, FlowTyped, InRuntime, InTime
<1>3. Placed(p)'
  BY <1>1, <1>2, RunPlaces, RunRole DEF Placed
<1>4. Monitored(p)'
  BY <1>1, RunPlaces, RunRole DEF Monitored, Fits
<1>5. AbortKept(p)'
  BY <1>1, <1>2, RunPlaces, RunRole DEF AbortKept, Fits
<1>6. Written(p)'
  BY <1>1, RunPlaces DEF Written
<1> QED
  BY <1>3, <1>4, <1>5, <1>6 DEF Fits

LEMMA RunNote ==
  ASSUME TypeOK, NEW p \in Proc, Fits(p), pc[p] \in Running,
         NEW then \in Running \ {"result"}, Note(p, "note", then),
         UNCHANGED <<cmd, ctl, told, mem, handler, troubles>>
  PROVE  Fits(p)'
<1>1. /\ Going(p)' = then /\ Fate(p)' = mem[p].status /\ pc'[p] = "append"
      /\ goal'[p] = [to |-> "note", then |-> then] /\ "note" \notin Status
  BY NotesOn
<1>2. InRuntime(p)' /\ InTime(p)' = InTime(p)
  BY RunRole DEF InRuntime, InTime
<1>3. Placed(p)'
  BY <1>1, <1>2, RunPlaces, RunRole DEF Placed
<1>4. Monitored(p)'
  BY <1>1, RunPlaces, RunRole DEF Monitored, Fits
<1>5. AbortKept(p)'
  BY <1>1, <1>2, RunPlaces, RunRole DEF AbortKept, Fits, Ended
<1>6. Written(p)'
  BY <1>1, RunPlaces DEF Written
<1> QED
  BY <1>3, <1>4, <1>5, <1>6 DEF Fits

LEMMA RunThrow ==
  ASSUME TypeOK, NEW p \in Proc, Fits(p), pc[p] \in Running, Throw(p),
         UNCHANGED <<cmd, ctl, told, handler>>,
         mem'[p].status = mem[p].status, troubles' >= troubles, troubles \in Nat, troubles' \in Nat
  PROVE  Fits(p)'
<1>1. handler[p] \in Running \ {"result"}
  BY RunRole, RunPlaces
<1> QED
  BY <1>1, RunGo DEF Throw

------------------------------------------------------------------------------
(* Outside the runtime. *)

LEMMA PlainGo ==
  ASSUME TypeOK, NEW p \in Proc, NEW x \in (Working \ Writing) \ Running, Go(p, x),
         ~ InRuntime(p)', Role(x, cmd'[p]), Role(handler'[p], cmd'[p]),
         cmd'[p] = "rollback" => handler'[p] = "failed",
         handler'[p] = "failed" => x \in {"announce", "invalidate", "conclude", "done", "failed", "stop"},
         ctl'[p].mon = "off" => ctl'[p].req # "abort",
         ctl'[p].mon # "off" => x \in {"launch", "thrown", "report", "failed", "stop"},
         InTime(p)' => /\ Ended(mem[p])' => mem'[p].status = "aborted"
                       /\ x = "report" => mem'[p].status = "aborted"
                       /\ x \in {"failed", "stop"} => mem'[p].status \in {"aborted", "paused"} \/ troubles' > 0
                       /\ x = "stop" => mem'[p].status = "aborted" \/ told'[p] = "error"
  PROVE  Fits(p)'
<1>1. Going(p)' = x /\ Fate(p)' = mem'[p].status /\ pc'[p] = x /\ pc'[p] \notin Writing /\ Written(p)'
  BY GoesOn
<1>2. x # "result"
  BY DEF Running
<1>3. Placed(p)'
  BY <1>1 DEF Placed
<1>4. Monitored(p)'
  BY <1>1 DEF Monitored
<1>5. AbortKept(p)'
  BY <1>1, <1>2 DEF AbortKept, Ended
<1> QED
  BY <1>1, <1>3, <1>4, <1>5 DEF Fits

LEMMA PlainMove ==
  ASSUME TypeOK, NEW p \in Proc, NEW to, NEW then \in (Working \ Writing) \ Running,
         Go(p, "write"), goal' = [goal EXCEPT ![p] = [to |-> to, then |-> then]],
         ~ InRuntime(p)', Role(then, cmd'[p]), Role(handler'[p], cmd'[p]),
         cmd'[p] = "rollback" => handler'[p] = "failed",
         handler'[p] = "failed" => then \in {"invalidate", "conclude", "done", "failed"},
         then \notin {"report", "stop"}, then = "failed" => to \in TerminalStatus \cup {"paused"},
         ctl'[p].mon = "off" => ctl'[p].req # "abort",
         ctl'[p].mon # "off" => then = "failed",
         InTime(p)' => to = "aborted" /\ ~ Ended(mem[p])'
  PROVE  Fits(p)'
<1>1. /\ Going(p)' = then /\ Fate(p)' = to /\ pc'[p] = "write" /\ pc'[p] \in Writing
      /\ goal'[p] = [to |-> to, then |-> then]
  BY DEF TypeOK, FlowTyped, Go, Writing, Going, Fate
<1>2. then # "result"
  BY DEF Running
<1>3. Placed(p)'
  BY <1>1 DEF Placed
<1>4. Monitored(p)'
  BY <1>1 DEF Monitored
<1>5. AbortKept(p)'
  BY <1>1, <1>2 DEF AbortKept
<1>6. Written(p)'
  BY <1>1, <1>2 DEF Written
<1> QED
  BY <1>3, <1>4, <1>5, <1>6 DEF Fits

LEMMA PlainNote ==
  ASSUME TypeOK, NEW p \in Proc, NEW event \in {"note", "undone", "ended"},
         NEW then \in (Working \ Writing) \ Running, Note(p, event, then),
         ~ InRuntime(p)', Role(then, cmd'[p]), Role(handler'[p], cmd'[p]),
         cmd'[p] = "rollback" => handler'[p] = "failed",
         handler'[p] = "failed" => then \in {"invalidate", "conclude", "done"},
         then \notin {"report", "failed", "stop"},
         ctl'[p].mon = "off", ctl'[p].req # "abort"
  PROVE  Fits(p)'
<1>1. /\ Going(p)' = then /\ pc'[p] = "append" /\ pc'[p] \in Writing
      /\ goal'[p] = [to |-> event, then |-> then] /\ event \notin Status
  BY NotesOn DEF Writing
<1>2. then # "result"
  BY DEF Running
<1>3. Placed(p)'
  BY <1>1 DEF Placed
<1>4. Monitored(p)' /\ AbortKept(p)'
  BY DEF Monitored, AbortKept, InTime
<1>5. Written(p)'
  BY <1>1, <1>2 DEF Written
<1> QED
  BY <1>3, <1>4, <1>5 DEF Fits

------------------------------------------------------------------------------
(* The steps, one group after the other. *)

LEMMA RuntimeFits ==
  ASSUME TypeOK, Found, NEW p \in Proc, Fits(p), Runtime(p)
  PROVE  Fits(p)'
<1> USE DEF At, Kept, Inside
<1>0. /\ {"startup", "work", "claimed", "inspect", "save", "saved", "verified", "rejected",
           "answer", "caught", "halted", "finish", "result", "unwind"} \subseteq Running
      /\ \A x \in Running : x # "report"
  BY DEF Running
<1>n. troubles \in Nat /\ mem \in [Proc -> Session]
  BY DEF TypeOK, DataTyped
<1>i. pc[p] \in Running /\ InTime(p) => ctl[p].intr = "abort"
  BY RunRole DEF Fits, AbortKept
<1>e. pc[p] \in Running /\ InTime(p) /\ Ended(mem[p]) => mem[p].status = "aborted"
  BY RunRole, RunPlaces DEF Fits, AbortKept, Ended
<1>1. CASE Startup(p)
  <2>1. ASSUME Move(p, StartupMove(mem[p].status), "startup")
        PROVE  StartupMove(mem[p].status) \notin TerminalStatus
    BY <2>1 DEF Move, CanTransition, StartupMove, TerminalStatus
  <2> QED
    BY <1>0, <1>1, <1>n, <2>1, RunGo, RunMove DEF Startup
<1>2. CASE Work(p)
  <2>1. [mem[p] EXCEPT !.base = tree].status = mem[p].status
        /\ [mem[p] EXCEPT !.claim = TRUE].status = mem[p].status
    BY <1>n DEF Session
  <2>2. pc[p] \in Running /\ UNCHANGED <<cmd, ctl, told, handler>> /\ ~ InTime(p)
    BY <1>0, <1>2, <1>i DEF Work, Interrupted
  <2>3. ASSUME NEW s, s.status = mem[p].status, Persist(p, s, "work")
        PROVE  Fits(p)'
    BY <1>0, <1>n, <2>2, <2>3, RunGo, RunThrow DEF Persist, Trouble
  <2>4. CASE Move(p, "blocked", "result") /\ UNCHANGED <<mem, troubles>>
    BY <1>0, <2>2, <2>4, RunMove DEF TerminalStatus
  <2>5. CASE UNCHANGED <<mem, troubles>> /\ \E x \in {"caught", "halted"} : Go(p, x)
    BY <1>0, <1>n, <2>2, <2>5, RunGo
  <2> QED
    BY <1>2, <2>1, <2>3, <2>4, <2>5 DEF Work
<1>3. CASE Claim(p)
  BY <1>0, <1>3, <1>n, <1>i, RunMove DEF Claim, Interrupted, TerminalStatus
<1>4. CASE Inspect(p)
  <2>1. mem'[p].status = mem[p].status
    <3>1. mem' = mem \/ mem' = [mem EXCEPT ![p].report = None]
      BY <1>4 DEF Inspect
    <3> QED
      BY <1>n, <3>1 DEF Session
  <2> QED
    BY <1>0, <1>4, <1>n, <2>1, RunGo, RunNote DEF Inspect, FinishNow
<1>5. CASE SaveReport(p)
  <2>1. mem'[p].status = mem[p].status
    <3>1. mem' = mem \/ mem' = [mem EXCEPT ![p].report = mem[p].base]
      BY <1>5 DEF SaveReport
    <3> QED
      BY <1>n, <3>1 DEF Session
  <2>2. pc[p] \in Running /\ UNCHANGED <<cmd, ctl, told, handler>> /\ troubles' \in Nat /\ troubles' >= troubles
    BY <1>0, <1>5, <1>n DEF SaveReport, Trouble
  <2>3. Throw(p) \/ \E x \in {"halted", "caught", "saved"} : Go(p, x)
    BY <1>5 DEF SaveReport
  <2> QED
    BY <1>0, <1>n, <2>1, <2>2, <2>3, RunGo, RunThrow
<1>6. CASE Conclusion(p)
  BY <1>0, <1>6, <1>n, <1>i, RunGo, RunNote, RunMove DEF Conclusion, FinishNow, Interrupted, TerminalStatus
<1>7. CASE Answer(p)
  <2>1. [mem[p] EXCEPT !.claim = FALSE].status = mem[p].status
    BY <1>n DEF Session
  <2>2. pc[p] \in Running /\ UNCHANGED <<cmd, ctl, told, handler>> /\ "work" # "result"
    BY <1>0, <1>7 DEF Answer
  <2>3. ASSUME NEW s, s.status = mem[p].status, Persist(p, s, "work")
        PROVE  Fits(p)'
    BY <1>0, <1>n, <2>2, <2>3, RunGo, RunThrow DEF Persist, Trouble
  <2> QED
    BY <1>7, <2>1, <2>3 DEF Answer
<1>8. CASE Caught(p)
  BY <1>0, <1>8, <1>n, <1>i, <1>e, RunGo, RunMove DEF Caught, Interrupted, TerminalStatus
<1>9. CASE Finish(p)
  BY <1>0, <1>9, <1>n, <1>i, <1>e, RunGo, RunMove DEF Finish, Ended, TerminalStatus
<1>10. CASE Stopping(p)
  BY <1>0, <1>10, <1>n, RunGo DEF Stopping, FinishNow
<1>11. CASE Leave(p)
  <2>1. /\ pc[p] \in Running /\ handler'[p] = "thrown" /\ ~ InRuntime(p)'
        /\ UNCHANGED <<cmd, ctl, told, mem, troubles>> /\ InTime(p)' = InTime(p)
    BY <1>0, <1>11 DEF Leave, Handle, InRuntime, InTime, TypeOK, FlowTyped
  <2>2. {"report", "thrown"} \subseteq Working \ Writing /\ {"report", "thrown"} \cap Running = {}
        /\ Role("report", cmd[p]) /\ Role("thrown", cmd[p])
    BY <2>1, RunRole DEF Working, Writing, Running, Role
  <2>3. InTime(p) => (pc[p] = "result" => mem[p].status = "aborted")
                  /\ (Ended(mem[p]) => mem[p].status = "aborted")
    BY <1>e, <2>1, RunRole DEF Fits, AbortKept
  <2>4. PICK x \in {"report", "thrown"} :
          /\ x = "report" => pc[p] = "result"
          /\ \/ Go(p, x) /\ ~ Ended(mem[p])
             \/ Go(p, "clear") /\ Ended(mem[p]) /\ goal' = [goal EXCEPT ![p].then = x]
    BY <1>11 DEF Leave
  <2>5. Going(p)' = x /\ Fate(p)' = mem[p].status /\ Written(p)'
    <3>1. CASE Go(p, x) /\ ~ Ended(mem[p])
      BY <2>1, <2>2, <3>1, GoesOn
    <3>2. CASE Go(p, "clear") /\ Ended(mem[p]) /\ goal' = [goal EXCEPT ![p].then = x]
      <4>1. pc'[p] = "clear" /\ "clear" \in Writing /\ goal'[p].then = x
        BY <3>2 DEF Go, Writing, TypeOK, FlowTyped
      <4> QED
        BY <2>1, <3>2, <4>1 DEF Going, Fate, Written, Ended
    <3> QED
      BY <2>4, <3>1, <3>2
  <2>6. Placed(p)'
    BY <2>1, <2>2, <2>5, RunRole DEF Placed
  <2>7. Monitored(p)' /\ AbortKept(p)'
    BY <2>1, <2>3, <2>4, <2>5, RunRole, RunPlaces DEF Monitored, AbortKept, Ended, Fits
  <2> QED
    BY <2>5, <2>6, <2>7 DEF Fits
<1>12. CASE Report(p)
  <2>1. /\ pc[p] \in Working \ Writing /\ pc[p] # "write" /\ pc[p] \notin Running
        /\ pc[p] \notin Opening
    BY <1>12 DEF Report, Working, Writing, Running, Opening
  <2>2. Going(p) = "report" /\ Fate(p) = mem[p].status
    BY <1>12, <2>1 DEF Report, Going, Fate
  <2>3. /\ ~ InRuntime(p) /\ Role(handler[p], cmd[p]) /\ cmd[p] \in {"run", "resume"}
        /\ handler[p] # "failed"
    BY <1>12, <2>1, <2>2 DEF Report, Fits, Placed, Role
  <2>4. InTime(p) => mem[p].status = "aborted"
    BY <2>2 DEF Fits, AbortKept
  <2>5. PICK x \in {"thrown", "stop"} : Go(p, x) /\ (x = "thrown" => mem[p].status = "completed")
    BY <1>12 DEF Report, Stop
  <2>6. x \in (Working \ Writing) \ Running /\ Role(x, cmd[p]) /\ (ctl[p].mon = "off" => ctl[p].req # "abort")
    BY <1>12, <2>3, <2>5 DEF Report, Working, Writing, Running, Opening, Role, Fits, Monitored
  <2>7. /\ UNCHANGED <<cmd, ctl, mem, handler>> /\ cmd[p] # "rollback"
        /\ InRuntime(p)' = InRuntime(p) /\ InTime(p)' = InTime(p)
    BY <1>12, <2>3 DEF Report, InRuntime, InTime
  <2> QED
    BY <2>3, <2>4, <2>5, <2>6, <2>7, PlainGo
<1> QED
  BY <1>1, <1>2, <1>3, <1>4, <1>5, <1>6, <1>7, <1>8, <1>9, <1>10, <1>11, <1>12 DEF Runtime

\* What is known of an owner at a place outside the runtime.
LEMMA PlainAt ==
  ASSUME TypeOK, NEW p \in Proc, Fits(p), pc[p] \in (Working \ Writing) \ Running
  PROVE  /\ Going(p) = pc[p] /\ Fate(p) = mem[p].status /\ ~ InRuntime(p)
         /\ Role(pc[p], cmd[p]) /\ Role(handler[p], cmd[p])
         /\ cmd[p] = "rollback" => handler[p] = "failed"
         /\ handler[p] = "failed" => pc[p] \in {"announce", "invalidate", "conclude", "done", "failed", "stop"}
         /\ ctl[p].mon = "off" => ctl[p].req # "abort"
         /\ pc[p] \notin {"launch", "thrown", "report", "failed", "stop"} => ctl[p].mon = "off"
<1>1. pc[p] # "write" /\ pc[p] # "release"
  BY DEF Working, Writing
<1>2. Going(p) = pc[p] /\ Fate(p) = mem[p].status
  BY <1>1 DEF Going, Fate
<1> QED
  BY <1>1, <1>2 DEF Fits, Placed, Monitored

LEMMA LockedAt ==
  ASSUME NEW p \in Proc, Fits(p), pc[p] = "locked"
  PROVE  ctl[p].mon = "off" /\ ctl[p].req # "abort"
<1>1. Going(p) = "locked"
  BY DEF Going, Writing
<1> QED
  BY <1>1 DEF Fits, Monitored, Running

\* pause, abort and rollback.
LEMMA ControlFits ==
  ASSUME TypeOK, Found, NEW p \in Proc, Fits(p), Control(p)
  PROVE  Fits(p)'
<1> USE DEF At, Alone, Owned
<1>p. {"announce", "invalidate", "conclude", "done", "failed", "stop"} \subseteq (Working \ Writing) \ Running
  BY DEF Working, Writing, Running
<1>r. /\ \A c \in Name : Role("failed", c) /\ Role("stop", c)
      /\ \A x \in {"announce", "invalidate", "conclude", "done"} : Role(x, "rollback")
      /\ \A c \in {"pause", "abort"} : Role("done", c)
  BY DEF Role, Opening, Running
<1>c. UNCHANGED <<cmd, ctl>> /\ ctl[p].mon = "off" /\ ctl[p].req # "abort" /\ ~ InTime(p)'
  <2>1. UNCHANGED <<cmd, ctl>>
    BY DEF Control, ControlOwned, RollbackOwned, Announce, Invalidate, Conclude, Done
  <2>2. pc[p] \in {"locked", "announce", "invalidate", "conclude", "done"}
    BY DEF Control, ControlOwned, RollbackOwned, Announce, Invalidate, Conclude, Done
  <2>3. ctl[p].mon = "off" /\ ctl[p].req # "abort"
    BY <1>p, <2>2, PlainAt, LockedAt
  <2> QED
    BY <2>1, <2>3 DEF InTime
<1>1. CASE ControlOwned(p)
  <2>1. handler'[p] = "failed" /\ ~ InRuntime(p)' /\ cmd[p] \in {"pause", "abort"} /\ cmd[p] \in Name
    BY <1>1 DEF ControlOwned, Handle, InRuntime, TypeOK, FlowTyped, Name
  <2>2. CASE Go(p, "stop") \/ Go(p, "failed")
    BY <1>p, <1>r, <1>c, <2>1, <2>2, PlainGo DEF Stop
  <2>3. CASE Go(p, "write")
    <3>1. PICK to \in {"paused", "aborted"} : goal' = [goal EXCEPT ![p] = [to |-> to, then |-> "done"]]
      BY <1>1, <2>3 DEF ControlOwned, Go, TypeOK, FlowTyped, Stop
    <3> QED
      BY <1>p, <1>r, <1>c, <2>1, <2>3, <3>1, PlainMove
  <2> QED
    BY <1>1, <2>2, <2>3 DEF ControlOwned, Stop
<1>2. CASE RollbackOwned(p)
  <2>1. handler'[p] = "failed" /\ ~ InRuntime(p)' /\ cmd[p] = "rollback" /\ cmd[p] \in Name
    BY <1>2 DEF RollbackOwned, Handle, InRuntime, TypeOK, FlowTyped, Name
  <2>2. Go(p, "announce") \/ Go(p, "failed")
    BY <1>2 DEF RollbackOwned
  <2> QED
    BY <1>p, <1>r, <1>c, <2>1, <2>2, PlainGo
<1>3. ASSUME pc[p] \in {"announce", "invalidate", "conclude", "done"}, UNCHANGED <<handler, mem>>
      PROVE  /\ ~ InRuntime(p)' /\ Role(handler'[p], cmd'[p]) /\ cmd[p] \in Name
             /\ cmd[p] = "rollback" => handler'[p] = "failed"
             /\ pc[p] # "done" => cmd[p] = "rollback"
  BY <1>p, <1>c, <1>3, PlainAt DEF InRuntime, Role, Name
<1>4. CASE Announce(p)
  BY <1>p, <1>r, <1>c, <1>3, <1>4, PlainGo, PlainNote DEF Announce
<1>5. CASE Invalidate(p)
  BY <1>p, <1>r, <1>c, <1>3, <1>5, PlainGo, PlainMove DEF Invalidate, Move
<1>6. CASE Conclude(p)
  BY <1>p, <1>r, <1>c, <1>3, <1>6, PlainGo, PlainNote DEF Conclude
<1>7. CASE Done(p)
  BY <1>p, <1>r, <1>c, <1>3, <1>7, PlainGo DEF Done, Stop
<1> QED
  BY <1>1, <1>2, <1>4, <1>5, <1>6, <1>7 DEF Control

\* A session that has not ended can be aborted.
LEMMA AbortAllowed ==
  ASSUME NEW s \in Session, s.status # "none", ~ Ended(s)
  PROVE  "aborted" \in Transitions[s.status]
<1>1. s.status \in Status
  BY DEF Session
<1> QED
  BY <1>1 DEF Ended, Transitions, Status, TerminalStatus, Stoppable

\* run and resume up to the runtime, and after it.
LEMMA ComposeFits ==
  ASSUME TypeOK, Found, NEW p \in Proc, Fits(p), Compose(p)
  PROVE  Fits(p)'
<1> USE DEF At, Kept, Owned
<1>p. Opening \cup {"launch", "thrown", "failed", "stop"} \subseteq (Working \ Writing) \ Running
  BY DEF Working, Writing, Running, Opening
<1>o. /\ {"created", "preflight", "granted", "approve", "approved", "recovered", "declined"} \subseteq Opening
      /\ \A x \in Opening : x \notin {"launch", "thrown", "report", "failed", "stop", "locked"}
  BY DEF Opening
<1>r. /\ \A c \in Name : Role("failed", c) /\ Role("stop", c)
      /\ \A x \in Opening \cup {"launch", "thrown", "failed", "caught"}, c \in {"run", "resume"} : Role(x, c)
  BY DEF Role, Opening, Running
<1>t. "aborted" \in TerminalStatus
  BY DEF TerminalStatus
<1>1. CASE RunOwned(p)
  <2>1. /\ handler'[p] = "thrown" /\ ~ InRuntime(p)' /\ cmd'[p] = "run" /\ "run" \in Name
        /\ ctl'[p].mon = "off" /\ ctl'[p].req # "abort" /\ ~ InTime(p)'
    BY <1>1, LockedAt DEF RunOwned, Handle, InRuntime, InTime, TypeOK, FlowTyped, Name
  <2>2. Go(p, "failed") \/ Note(p, "note", "created")
    BY <1>1 DEF RunOwned
  <2> QED
    BY <1>p, <1>o, <1>r, <2>1, <2>2, PlainGo, PlainNote
<1>2. CASE ResumeOwned(p)
  <2>1. /\ handler'[p] = "thrown" /\ ~ InRuntime(p)' /\ cmd'[p] = "resume" /\ "resume" \in Name
        /\ ctl'[p].mon = "off" /\ ctl'[p].req # "abort" /\ ~ InTime(p)'
    BY <1>2, LockedAt DEF ResumeOwned, Handle, InRuntime, InTime, TypeOK, FlowTyped, Name
  <2>2. Go(p, "thrown") \/ Go(p, "approve") \/ Note(p, "note", "launch")
    BY <1>2 DEF ResumeOwned
  <2> QED
    BY <1>p, <1>o, <1>r, <2>1, <2>2, PlainGo, PlainNote
<1>3. ASSUME pc[p] \in Opening \cup {"launch", "thrown"}
      PROVE  /\ cmd[p] \in {"run", "resume"} /\ ~ InRuntime(p) /\ Role(handler[p], cmd[p])
             /\ cmd[p] \in Name /\ Fate(p) = mem[p].status /\ Going(p) = pc[p]
             /\ ctl[p].mon = "off" => ctl[p].req # "abort"
             /\ pc[p] \in Opening => ctl[p].mon = "off"
             /\ handler[p] # "failed"
  <2>1. pc[p] \notin {"announce", "invalidate", "conclude", "done", "failed", "stop"}
    BY <1>3 DEF Opening
  <2> QED
    BY <1>p, <1>o, <1>3, <2>1, PlainAt DEF Role, Name
<1>4. CASE Publish(p)
  <2>1. /\ pc[p] \in Opening /\ UNCHANGED <<cmd, ctl, handler, mem>>
        /\ InRuntime(p)' = InRuntime(p) /\ InTime(p)' = InTime(p)
    BY <1>o, <1>4 DEF Publish, InRuntime, InTime
  <2>2. ~ InTime(p)
    BY <1>3, <2>1 DEF InTime
  <2> QED
    BY <1>p, <1>o, <1>r, <1>3, <1>4, <2>1, <2>2, PlainGo, PlainMove DEF Publish, Move
<1>5. CASE ApproveGrant(p)
  <2>1. /\ pc[p] \in Opening /\ UNCHANGED <<cmd, ctl, handler, mem>>
        /\ InRuntime(p)' = InRuntime(p) /\ InTime(p)' = InTime(p)
    BY <1>o, <1>5 DEF ApproveGrant, InRuntime, InTime
  <2>2. ~ InTime(p)
    BY <1>3, <2>1 DEF InTime
  <2> QED
    BY <1>p, <1>o, <1>r, <1>3, <1>5, <2>1, <2>2, PlainNote, PlainMove DEF ApproveGrant, Move
<1>6. CASE Declined(p)
  <2>1. /\ pc[p] \in Opening /\ UNCHANGED <<cmd, ctl, handler, mem>> /\ Go(p, "stop")
        /\ InRuntime(p)' = InRuntime(p) /\ InTime(p)' = InTime(p)
    BY <1>o, <1>6 DEF Declined, InRuntime, InTime, Stop
  <2>2. ~ InTime(p) /\ cmd[p] # "rollback"
    BY <1>3, <2>1 DEF InTime
  <2> QED
    BY <1>p, <1>o, <1>r, <1>3, <2>1, <2>2, PlainGo
<1>7. CASE Launch(p)
  <2>0. pc[p] = "launch" /\ UNCHANGED <<cmd, mem, told, goal, troubles>>
    BY <1>7 DEF Launch
  <2>1. CASE ctl[p].mon = "off" /\ ctl' = [ctl EXCEPT ![p].mon = "idle"] /\ UNCHANGED <<pc, handler>>
    <3>1. ctl'[p].mon = "idle" /\ ctl'[p].req # "abort" /\ ~ InTime(p)'
      BY <1>3, <2>0, <2>1 DEF InTime, TypeOK, ControlTyped
    <3>2. Placed(p)' /\ Written(p)' /\ Going(p)' = "launch"
      BY <1>3, <2>0, <2>1 DEF Fits, Placed, Written, Going, Fate, InRuntime
    <3> QED
      BY <3>1, <3>2 DEF Fits, Monitored, AbortKept
  <2>2. CASE ctl[p].mon # "off" /\ Handle(p, "caught") /\ Go(p, "startup")
             /\ ctl' = [ctl EXCEPT ![p].intr = ctl[p].req]
    <3>1. handler'[p] = "caught" /\ InRuntime(p)' /\ ctl'[p].mon = ctl[p].mon /\ ctl'[p].intr = ctl[p].req
          /\ ctl'[p].req = ctl[p].req /\ InTime(p)' = InTime(p)
      BY <2>2 DEF Handle, InRuntime, InTime, TypeOK, FlowTyped, ControlTyped
    <3>2. "startup" \in Running \ {"result"} /\ "startup" \in Working \ Writing /\ "startup" # "report"
          /\ \A c \in {"run", "resume"} : Role("startup", c)
      BY DEF Running, Working, Writing, Role
    <3>3. Going(p)' = "startup" /\ Fate(p)' = mem[p].status /\ pc'[p] = "startup" /\ Written(p)'
          /\ pc'[p] \notin Writing
      BY <2>0, <2>2, <3>2, GoesOn
    <3>4. Placed(p)'
      BY <1>3, <1>r, <2>0, <3>1, <3>2, <3>3 DEF Placed
    <3>5. Monitored(p)'
      BY <2>2, <3>1, <3>2, <3>3 DEF Monitored
    <3>6. AbortKept(p)'
      BY <1>3, <2>0, <3>1, <3>2, <3>3 DEF AbortKept, Fits, InTime, Ended
    <3> QED
      BY <3>3, <3>4, <3>5, <3>6 DEF Fits
  <2>3. CASE ctl[p].mon # "off" /\ Go(p, "thrown") /\ UNCHANGED <<handler, ctl>>
    <3>1. InRuntime(p)' = InRuntime(p) /\ InTime(p)' = InTime(p) /\ cmd[p] # "rollback"
      BY <1>3, <2>0, <2>3 DEF InRuntime, InTime
    <3>2. InTime(p) /\ Ended(mem[p]) => mem[p].status = "aborted"
      BY <2>0 DEF Fits, AbortKept
    <3> QED
      BY <1>p, <1>r, <1>3, <2>0, <2>3, <3>1, <3>2, PlainGo DEF Ended
  <2> QED
    BY <1>7, <2>1, <2>2, <2>3 DEF Launch
<1>8. CASE Thrown(p)
  <2>1. /\ pc[p] = "thrown" /\ handler'[p] = "failed" /\ ~ InRuntime(p)' /\ UNCHANGED <<cmd, mem, ctl, told, troubles>>
        /\ InTime(p)' = InTime(p)
    BY <1>8 DEF Thrown, Handle, InRuntime, InTime, TypeOK, FlowTyped
  <2>2. /\ cmd[p] \in {"run", "resume"} /\ cmd[p] \in Name /\ (ctl[p].mon = "off" => ctl[p].req # "abort")
        /\ InTime(p) /\ Ended(mem[p]) => mem[p].status = "aborted"
    BY <1>3, <2>1 DEF Fits, AbortKept
  <2>3. /\ InTime(p) => Target(p) = "aborted"
        /\ Target(p) \in TerminalStatus \cup {"paused"}
    BY DEF InTime, Target, TerminalStatus
  <2>4. mem[p] \in Session /\ mem[p].status # "none"
    BY <2>1, <1>p DEF TypeOK, DataTyped, Found
  <2>5. CASE Go(p, "failed")
    <3>1. InTime(p) => mem[p].status \in {"aborted", "paused"}
      <4>1. ~ (Target(p) \in Transitions[mem[p].status] /\ mem[p].status # "paused")
        BY <1>8, <2>5 DEF Thrown, Move, Go, TypeOK, FlowTyped
      <4> QED
        BY <2>2, <2>3, <2>4, <4>1, AbortAllowed
    <3> QED
      BY <1>p, <1>r, <2>1, <2>2, <2>5, <3>1, PlainGo DEF Ended
  <2>6. CASE Move(p, Target(p), "failed") /\ Target(p) \in Transitions[mem[p].status]
    <3>1. InTime(p) => ~ Ended(mem[p])
      BY <2>2, <2>3, <2>6 DEF Transitions
    <3> QED
      BY <1>p, <1>r, <2>1, <2>2, <2>3, <2>6, <3>1, PlainMove DEF Move, Ended
  <2> QED
    BY <1>8, <2>5, <2>6 DEF Thrown
<1>9. CASE Failed(p)
  <2>1. /\ pc[p] = "failed" /\ Go(p, "stop") /\ told'[p] = "error"
        /\ UNCHANGED <<cmd, mem, ctl, handler, troubles>>
        /\ InTime(p)' = InTime(p) /\ InRuntime(p)' = InRuntime(p)
    BY <1>9 DEF Failed, Stop, InRuntime, InTime, TypeOK, ControlTyped
  <2>2. /\ ~ InRuntime(p) /\ Role(handler[p], cmd[p]) /\ (cmd[p] = "rollback" => handler[p] = "failed")
        /\ (ctl[p].mon = "off" => ctl[p].req # "abort") /\ Going(p) = "failed" /\ Fate(p) = mem[p].status
    BY <1>p, <2>1, PlainAt
  <2>3. InTime(p) => /\ Ended(mem[p]) => mem[p].status = "aborted"
                     /\ mem[p].status \in {"aborted", "paused"} \/ troubles > 0
    BY <2>1, <2>2 DEF Fits, AbortKept
  <2>4. Role("stop", cmd[p])
    BY DEF Role, Opening, Running
  <2> QED
    BY <1>p, <2>1, <2>2, <2>3, <2>4, PlainGo DEF Ended
<1>10. CASE StopMonitor(p)
  <2>1. /\ pc[p] = "stop" /\ pc'[p] = "release" /\ UNCHANGED <<cmd, mem, handler, goal>>
        /\ ctl'[p].mon = "off" /\ InRuntime(p)' = InRuntime(p)
    BY <1>10 DEF StopMonitor, Go, InRuntime, TypeOK, FlowTyped, ControlTyped
  <2>2. ~ InRuntime(p)
    BY <1>p, <2>1, PlainAt
  <2>3. "release" \notin Working \cup Writing \cup Running
    BY DEF Working, Writing, Running
  <2>4. Going(p)' = "release"
    BY <2>1, <2>3 DEF Going
  <2>5. Placed(p)' /\ Written(p)' /\ Monitored(p)' /\ AbortKept(p)'
    BY <2>1, <2>2, <2>3, <2>4 DEF Placed, Written, Monitored, AbortKept, Writing
  <2> QED
    BY <2>5 DEF Fits
<1> QED
  BY <1>1, <1>2, <1>4, <1>5, <1>6, <1>7, <1>8, <1>9, <1>10 DEF Compose

\* A write, and the sweep after the last one.
LEMMA WriteFits ==
  ASSUME TypeOK, NEW p \in Proc, Fits(p), Write(p)
  PROVE  Fits(p)'
<1> USE DEF At
<1>0. /\ pc[p] \in {"write", "append", "clear"} /\ pc[p] \in Writing /\ pc[p] \in Working /\ pc[p] # "release"
      /\ UNCHANGED <<cmd, handler, ctl, told>>
  BY DEF Write, WriteState, WriteFails, AppendEvent, AppendFails, Clear, Writing, Working, local
<1>1. /\ Going(p) = goal[p].then /\ goal[p].then \in Working \ Writing /\ goal[p].then # "stop"
      /\ handler[p] \in Handler /\ Role(goal[p].then, cmd[p]) /\ Role(handler[p], cmd[p])
      /\ InTime(p)' = InTime(p) /\ InRuntime(p)' = InRuntime(p)
  BY <1>0 DEF Going, Fits, Placed, Written, InTime, InRuntime, TypeOK, FlowTyped
<1>2. /\ Handler \subseteq Working \ Writing
      /\ \A x \in Handler : /\ x \in Running \cup {"launch", "thrown", "report", "failed", "stop"}
                          /\ x \in Running <=> x \in {"caught", "unwind"}
                          /\ x \notin {"result", "report", "stop"}
  BY DEF Handler, Working, Writing, Running
<1>h. /\ handler[p] \in Running \cup {"launch", "thrown", "report", "failed", "stop"}
      /\ handler[p] \notin {"result", "report", "stop"}
  <2>1. handler[p] \in Handler
    BY <1>1
  <2> QED
    BY <2>1 DEF Handler, Running
<1>3. handler[p] \in Running <=> InRuntime(p)
  BY <1>1, <1>2 DEF InRuntime
<1>4. /\ ctl[p].mon = "off" => ctl[p].req # "abort"
      /\ InTime(p) => /\ InRuntime(p) => ctl[p].intr = "abort"
                      /\ Ended(mem[p]) => mem[p].status = "aborted"
                      /\ Fate(p) \in TerminalStatus => Fate(p) = "aborted"
  BY <1>0 DEF Fits, Monitored, AbortKept
<1>5. mem \in [Proc -> Session] /\ troubles \in Nat /\ "aborted" \in TerminalStatus
  BY DEF TypeOK, DataTyped, TerminalStatus
<1>k. "release" \notin Working
  BY DEF Working
<1>g. ASSUME pc'[p] \in Writing, goal'[p].then = goal[p].then
      PROVE  Going(p)' = goal[p].then
  BY <1>g DEF Going
\* An exception takes it to its handler.
<1>6. ASSUME Going(p)' = handler[p], pc'[p] \in Working, Written(p)',
             Ended(mem[p])' => Ended(mem[p]) /\ mem'[p].status = mem[p].status,
             Fate(p)' = mem'[p].status,
             InTime(p) /\ handler[p] = "failed" => mem'[p].status \in {"aborted", "paused"} \/ troubles' > 0
      PROVE  Fits(p)'
  <2>1. Placed(p)'
    BY <1>0, <1>1, <1>2, <1>3, <1>6 DEF Placed, Fits
  <2>2. pc[p] # "release" /\ pc'[p] # "release" /\ ctl'[p].mon = ctl[p].mon /\ ctl'[p].req = ctl[p].req
        /\ ctl'[p].intr = ctl[p].intr /\ handler[p] \in Running \cup {"launch", "thrown", "report", "failed", "stop"}
    BY <1>0, <1>h, <1>k, <1>6
  <2>3. Monitored(p)'
    BY <1>4, <1>6, <2>2 DEF Monitored
  <2>4. AbortKept(p)'
    <3>1. SUFFICES ASSUME InTime(p) PROVE AbortKept(p)'
      BY <1>1 DEF AbortKept
    <3>2. InRuntime(p)' = InRuntime(p)
      BY <1>1
    <3>3. /\ InRuntime(p) => ctl[p].intr = "abort"
          /\ Ended(mem[p]) => mem[p].status = "aborted"
      BY <1>4, <3>1
    <3>4. /\ Ended(mem[p])' => mem'[p].status = "aborted"
          /\ Ended(mem[p])' <=> Fate(p)' \in TerminalStatus
      BY <1>6, <3>3 DEF Ended
    <3>5. handler[p] = "failed" => mem'[p].status \in {"aborted", "paused"} \/ troubles' > 0
      BY <1>6, <3>1
    <3> QED
      BY <1>6, <1>h, <2>2, <3>2, <3>3, <3>4, <3>5 DEF AbortKept
  <2> QED
    BY <1>6, <2>1, <2>3, <2>4 DEF Fits
\* Otherwise it goes where it was going.
<1>7. ASSUME Going(p)' = Going(p), pc'[p] \in Working, Written(p)', Fate(p)' = Fate(p),
             mem'[p].status \in {mem[p].status, Fate(p)}, UNCHANGED troubles
      PROVE  Fits(p)'
  <2>1. Placed(p)'
    BY <1>0, <1>7 DEF Placed, Fits, InRuntime
  <2>2. Monitored(p)'
    BY <1>0, <1>4, <1>7 DEF Monitored, Fits
  <2>3. AbortKept(p)'
    BY <1>0, <1>1, <1>4, <1>7 DEF AbortKept, Ended, Fits
  <2> QED
    BY <1>7, <2>1, <2>2, <2>3 DEF Fits
<1>8. CASE WriteState(p)
  <2>1. /\ mem'[p].status = goal[p].to /\ pc'[p] = "append" /\ UNCHANGED <<goal, troubles>>
        /\ pc[p] = "write"
    BY <1>5, <1>8, MovedTyped DEF WriteState, TypeOK, FlowTyped, Go, counts
  <2>2. /\ Fate(p) = goal[p].to /\ Fate(p)' = goal[p].to /\ Going(p)' = Going(p)
        /\ pc'[p] \in Working /\ pc'[p] \in Writing
    BY <1>0, <1>1, <2>1 DEF Fate, Going, Working, Writing
  <2>3. Written(p)'
    BY <1>0, <2>1, <2>2 DEF Written, Fits
  <2> QED
    BY <1>7, <2>1, <2>2, <2>3
<1>9. CASE WriteFails(p)
  <2>1. Go(p, handler[p]) /\ mem' = mem /\ troubles' > 0 /\ handler[p] \in Working \ Writing
    BY <1>1, <1>2, <1>5, <1>9 DEF WriteFails, Throw, Trouble, local
  <2>2. Going(p)' = handler[p] /\ Fate(p)' = mem'[p].status /\ Written(p)' /\ pc'[p] \in Working
    BY <2>1, GoesOn
  <2> QED
    BY <1>6, <2>1, <2>2
<1>10. CASE AppendEvent(p)
  <2>1. pc[p] = "append" /\ UNCHANGED <<mem, goal, troubles>> /\ Fate(p) = mem[p].status
    BY <1>10 DEF AppendEvent, counts, Fate
  <2>2. CASE Go(p, goal[p].then)
    <3>1. Going(p)' = goal[p].then /\ Fate(p)' = mem'[p].status /\ Written(p)' /\ pc'[p] \in Working
      BY <1>1, <2>2, GoesOn
    <3> QED
      BY <1>1, <1>7, <2>1, <3>1
  <2>3. CASE Go(p, "clear") /\ Clears(p)
    <3>1. pc'[p] = "clear" /\ "clear" \in Writing /\ "clear" \in Working /\ Ended(mem[p])
      BY <2>1, <2>3 DEF Go, TypeOK, FlowTyped, Writing, Working, Clears, Fits, Written, Ended, Status
    <3>2. Going(p)' = Going(p) /\ Fate(p)' = mem[p].status
      BY <1>1, <2>1, <3>1 DEF Going, Fate
    <3>3. Written(p)'
      BY <1>0, <2>1, <3>1, <3>2 DEF Written, Fits, Ended
    <3> QED
      BY <1>7, <2>1, <3>1, <3>2, <3>3
  <2> QED
    BY <1>10, <2>2, <2>3 DEF AppendEvent
<1>11. CASE AppendFails(p)
  <2>1. /\ pc[p] = "append" /\ UNCHANGED mem /\ Fate(p) = mem[p].status /\ troubles' \in Nat
        /\ goal' = [goal EXCEPT ![p].then = handler[p]] /\ goal'[p].then = handler[p] /\ goal'[p].to = goal[p].to
    BY <1>5, <1>11 DEF AppendFails, Fate, Trouble, TypeOK, FlowTyped
  <2>2. InTime(p) /\ handler[p] = "failed" => mem[p].status \in {"aborted", "paused"}
    <3>1. SUFFICES ASSUME InTime(p), handler[p] = "failed" PROVE mem[p].status \in {"aborted", "paused"}
      OBVIOUS
    <3>2. Going(p) \in {"announce", "invalidate", "conclude", "done", "failed", "stop"}
      BY <1>0, <3>1 DEF Fits, Placed
    <3>3. Going(p) \in Running \cup {"launch", "thrown", "report", "failed", "stop"}
      BY <1>4, <3>1 DEF InTime, Fits, Monitored
    <3>4. Going(p) = "failed"
      BY <1>1, <3>2, <3>3 DEF Running
    <3> QED
      BY <1>0, <1>1, <1>4, <2>1, <3>1, <3>4 DEF Fits, Written, Ended
  <2>3. CASE Go(p, handler[p])
    <3>1. Going(p)' = handler[p] /\ Fate(p)' = mem'[p].status /\ Written(p)' /\ pc'[p] \in Working
      BY <1>1, <1>2, <2>3, GoesOn
    <3> QED
      BY <1>6, <2>1, <2>2, <3>1
  <2>4. CASE Go(p, "clear") /\ Clears(p)
    <3>1. pc'[p] = "clear" /\ "clear" \in Writing /\ "clear" \in Working /\ Ended(mem[p])
      BY <2>1, <2>4 DEF Go, TypeOK, FlowTyped, Writing, Working, Clears, Fits, Written, Ended, Status
    <3>2. Going(p)' = handler[p] /\ Fate(p)' = mem'[p].status
      BY <2>1, <3>1 DEF Going, Fate
    <3>3. /\ handler[p] \notin {"result", "report", "stop"}
          /\ mem'[p].status \in TerminalStatus /\ pc'[p] # "append"
      BY <1>h, <2>1, <3>1 DEF Ended
    <3>4. Written(p)'
      BY <2>1, <3>1, <3>2, <3>3 DEF Written, Ended
    <3> QED
      BY <1>6, <2>1, <2>2, <3>1, <3>2, <3>4
  <2> QED
    BY <1>11, <2>3, <2>4 DEF AppendFails
<1>12. CASE Clear(p)
  <2>1. pc[p] = "clear" /\ UNCHANGED <<mem, goal>> /\ Fate(p) = mem[p].status /\ Ended(mem[p])
    BY <1>12 DEF Clear, local, Fate, Fits, Written
  <2>2. CASE Go(p, goal[p].then) /\ UNCHANGED troubles
    <3>1. Going(p)' = goal[p].then /\ Fate(p)' = mem'[p].status /\ Written(p)' /\ pc'[p] \in Working
      BY <1>1, <2>2, GoesOn
    <3> QED
      BY <1>1, <1>7, <2>1, <2>2, <3>1
  <2>3. CASE Go(p, handler[p])
    <3>1. Going(p)' = handler[p] /\ Fate(p)' = mem'[p].status /\ Written(p)' /\ pc'[p] \in Working
      BY <1>1, <1>2, <2>3, GoesOn
    <3> QED
      BY <1>4, <1>6, <2>1, <3>1
  <2> QED
    BY <1>12, <2>2, <2>3 DEF Clear, Throw
<1> QED
  BY <1>8, <1>9, <1>10, <1>11, <1>12 DEF Write

------------------------------------------------------------------------------
(* What a step leaves alone. *)

Same(q) ==
  /\ pc'[q] = pc[q] /\ cmd'[q] = cmd[q] /\ mem'[q] = mem[q] /\ goal'[q] = goal[q]
  /\ handler'[q] = handler[q] /\ ctl'[q] = ctl[q] /\ told'[q] = told[q]

\* A process is moved by its own steps, and the count of troubles only grows.
Others(p) == (\A q \in Proc \ {p} : Same(q)) /\ troubles' \in Nat /\ troubles' >= troubles

LEMMA OneWrite ==
  ASSUME TypeOK, NEW p \in Proc, Write(p)
  PROVE  Others(p)
<1>1. /\ UNCHANGED <<cmd, handler, ctl, told>> /\ \E x : Go(p, x)
      /\ mem' = mem \/ mem' = [mem EXCEPT ![p] = Moved(@, goal[p].to)]
      /\ goal' = goal \/ goal' = [goal EXCEPT ![p].then = handler[p]]
      /\ troubles' = troubles \/ troubles' = troubles + 1
  BY DEF Write, WriteState, WriteFails, AppendEvent, AppendFails, Clear, local, counts, Throw, Trouble
<1> QED
  BY <1>1 DEF Others, Same, Go, TypeOK, FlowTyped, DataTyped

LEMMA OneControl ==
  ASSUME TypeOK, NEW p \in Proc, Control(p)
  PROVE  Others(p)
<1>1. /\ UNCHANGED <<cmd, ctl, troubles>> /\ \E x : Go(p, x)
      /\ handler' = handler \/ Handle(p, "failed")
      /\ mem' = mem \/ mem' = [mem EXCEPT ![p] = disk]
      /\ goal' = goal \/ \E g : goal' = [goal EXCEPT ![p] = g]
      /\ told' = told \/ \E c : told' = [told EXCEPT ![p] = c]
  BY DEF Control, ControlOwned, RollbackOwned, Announce, Invalidate, Conclude, Done, Alone, counts, Move, Note,
         Stop, Reread
<1> QED
  BY <1>1 DEF Others, Same, Go, Handle, TypeOK, FlowTyped, DataTyped, ControlTyped

LEMMA OneCompose ==
  ASSUME TypeOK, NEW p \in Proc, Compose(p)
  PROVE  Others(p)
<1>1. UNCHANGED cmd /\ (troubles' = troubles \/ troubles' = troubles + 1)
  BY DEF Compose, RunOwned, Publish, ResumeOwned, ApproveGrant, Declined, Launch, Thrown, Failed, StopMonitor, Kept, Trouble
<1>2. UNCHANGED pc \/ \E x : Go(p, x)
  BY DEF Compose, RunOwned, Publish, ResumeOwned, ApproveGrant, Declined, Launch, Thrown, Failed, StopMonitor, Move, Note, Stop
<1>3. handler' = handler \/ \E h : Handle(p, h)
  BY DEF Compose, RunOwned, Publish, ResumeOwned, ApproveGrant, Declined, Launch, Thrown, Failed, StopMonitor
<1>4. mem' = mem \/ \E m : mem' = [mem EXCEPT ![p] = m]
  BY DEF Compose, RunOwned, Publish, ResumeOwned, ApproveGrant, Declined, Launch, Thrown, Failed, StopMonitor, Reread
<1>5. goal' = goal \/ \E g : goal' = [goal EXCEPT ![p] = g]
  BY DEF Compose, RunOwned, Publish, ResumeOwned, ApproveGrant, Declined, Launch, Thrown, Failed, StopMonitor, Move, Note
<1>6. told' = told \/ \E c : told' = [told EXCEPT ![p] = c]
  BY DEF Compose, RunOwned, Publish, ResumeOwned, ApproveGrant, Declined, Launch, Thrown, Failed, StopMonitor, Stop
<1>7. /\ ctl' = ctl \/ ctl' = [ctl EXCEPT ![p].mon = "idle"] \/ ctl' = [ctl EXCEPT ![p].mon = "off"]
         \/ ctl' = [ctl EXCEPT ![p].intr = ctl[p].req]
  BY DEF Compose, RunOwned, Publish, ResumeOwned, ApproveGrant, Declined, Launch, Thrown, Failed, StopMonitor
<1> QED
  BY <1>1, <1>2, <1>3, <1>4, <1>5, <1>6, <1>7 DEF Others, Same, Go, Handle, TypeOK, FlowTyped, DataTyped, ControlTyped

LEMMA OneRuntime ==
  ASSUME TypeOK, NEW p \in Proc, Runtime(p)
  PROVE  Others(p)
<1>1. UNCHANGED <<cmd, ctl>> /\ (troubles' = troubles \/ troubles' = troubles + 1)
  BY DEF Runtime, Startup, Work, Claim, Inspect, SaveReport, Conclusion, Answer, Caught, Finish, Stopping, Leave, Report,
         Inside, Kept, Trouble, Persist
<1>2. \E x : Go(p, x)
  BY DEF Runtime, Startup, Work, Claim, Inspect, SaveReport, Conclusion, Answer, Caught, Finish, Stopping, Leave, Report,
         Move, Note, Stop, Persist, Throw, FinishNow
<1>3. handler' = handler \/ \E h : Handle(p, h)
  BY DEF Runtime, Startup, Work, Claim, Inspect, SaveReport, Conclusion, Answer, Caught, Finish, Stopping, Leave, Report
<1>4. mem' = mem \/ (\E m : mem' = [mem EXCEPT ![p] = m]) \/ \E v : mem' = [mem EXCEPT ![p].report = v]
  BY DEF Runtime, Startup, Work, Claim, Inspect, SaveReport, Conclusion, Answer, Caught, Finish, Stopping, Leave, Report, Persist
<1>5. goal' = goal \/ (\E g : goal' = [goal EXCEPT ![p] = g]) \/ \E x : goal' = [goal EXCEPT ![p].then = x]
  BY DEF Runtime, Startup, Work, Claim, Inspect, SaveReport, Conclusion, Answer, Caught, Finish, Stopping, Leave, Report,
         Move, Note, FinishNow
<1>6. told' = told \/ \E c : told' = [told EXCEPT ![p] = c]
  BY DEF Runtime, Startup, Work, Claim, Inspect, SaveReport, Conclusion, Answer, Caught, Finish, Stopping, Leave, Report,
         Inside, Stop
<1> QED
  BY <1>1, <1>2, <1>3, <1>4, <1>5, <1>6 DEF Others, Same, Go, Handle, TypeOK, FlowTyped, DataTyped, ControlTyped

LEMMA OneOutside ==
  ASSUME TypeOK, NEW p \in Proc,
         \/ Start(p) \/ WriteRequest(p) \/ RenameRequest(p) \/ AwaitResult(p)
         \/ Acquire(p) /\ UNCHANGED <<local, files, counts>>
  PROVE  Others(p) /\ UNCHANGED ctl
<1>1. UNCHANGED <<mem, goal, handler, ctl, troubles>> /\ \E x : Go(p, x)
  BY DEF Start, StartRun, StartResume, StartControl, StartRollback, ShowStatus, Refused, WriteRequest, RenameRequest,
         AwaitResult, Acquire, OpenLock, RecordOwner, JudgeOwner, UnlinkStale, local, counts, Exit, Begun
<1>2. /\ cmd' = cmd \/ \E c : cmd' = [cmd EXCEPT ![p] = c]
      /\ told' = told \/ \E c : told' = [told EXCEPT ![p] = c]
  BY DEF Start, StartRun, StartResume, StartControl, StartRollback, ShowStatus, Refused, WriteRequest, RenameRequest,
         AwaitResult, local, Exit, Begin
<1> QED
  BY <1>1, <1>2 DEF Others, Same, Go, TypeOK, FlowTyped, DataTyped, ControlTyped

LEMMA OneEnd ==
  ASSUME TypeOK, NEW p \in Proc, NEW x, Go(p, x), Forget(p), troubles' \in {troubles, troubles + 1}
  PROVE  Others(p)
BY DEF Others, Same, Go, Forget, TypeOK, FlowTyped, DataTyped, ControlTyped

LEMMA OneMonitor ==
  ASSUME TypeOK, NEW p \in Proc, Monitor(p) \/ Signal(p)
  PROVE  Others(p) /\ UNCHANGED <<pc, cmd, mem, goal, handler, told>>
<1>1. UNCHANGED <<pc, cmd, mem, goal, handler, told>> /\ (troubles' = troubles \/ troubles' = troubles + 1)
  BY DEF Monitor, Signal, ReadRequest, Deliver, DropRequest, lockVars, counts, Trouble
<1>2. \/ \E c : ctl' = [ctl EXCEPT ![p] = c]
      \/ \E m : ctl' = [ctl EXCEPT ![p].mon = m]
  BY DEF Monitor, Signal, ReadRequest, Deliver, DropRequest, Ask
<1> QED
  BY <1>1, <1>2 DEF Others, Same, TypeOK, FlowTyped, DataTyped, ControlTyped

LEMMA SameFits ==
  ASSUME TypeOK, NEW q \in Proc, Fits(q), Same(q), troubles' \in Nat, troubles' >= troubles
  PROVE  Fits(q)'
<1>1. Going(q)' = Going(q) /\ Fate(q)' = Fate(q) /\ InTime(q)' = InTime(q) /\ InRuntime(q)' = InRuntime(q)
  BY DEF Going, Fate, InTime, InRuntime, Same
<1>2. Placed(q)' /\ Written(q)' /\ Monitored(q)'
  BY <1>1 DEF Fits, Placed, Written, Monitored, Same
<1>3. AbortKept(q)'
  BY <1>1 DEF Fits, AbortKept, Same, Ended, TypeOK, DataTyped
<1> QED
  BY <1>2, <1>3 DEF Fits

------------------------------------------------------------------------------
(* The steps outside the runtime and the command. *)

LEMMA OutsideFits ==
  ASSUME NEW p \in Proc, Fits(p), pc[p] \in Outside \cup {"record"},
         pc'[p] \in Outside \cup {"record", "locked"}, UNCHANGED ctl
  PROVE  Fits(p)'
<1>1. \A x \in Outside \cup {"record", "locked"} :
        x \notin Working \cup Writing \cup Running \cup {"launch", "thrown", "report", "failed", "stop", "release"}
  BY DEF Outside, Working, Writing, Running
<1>2. Going(p) = pc[p] /\ Going(p)' = pc'[p]
  BY <1>1 DEF Going
<1>3. ctl[p].mon = "off" /\ ctl[p].req # "abort"
  BY <1>1, <1>2 DEF Fits, Monitored
<1>4. Placed(p)' /\ Written(p)' /\ Monitored(p)' /\ AbortKept(p)'
  BY <1>1, <1>2, <1>3 DEF Placed, Written, Monitored, AbortKept, InTime, Writing
<1> QED
  BY <1>4 DEF Fits

LEMMA EndFits ==
  ASSUME TypeOK, NEW p \in Proc, NEW x \in {"exited", "dead"}, Go(p, x), Forget(p)
  PROVE  Fits(p)'
<1>1. pc'[p] = x /\ x \notin Working \cup Writing \cup Running /\ ctl'[p].mon = "off" /\ ctl'[p].req = "none"
  BY DEF Go, Forget, TypeOK, FlowTyped, ControlTyped, Unasked, Working, Writing, Running
<1>2. Placed(p)' /\ Written(p)' /\ Monitored(p)' /\ AbortKept(p)'
  BY <1>1 DEF Placed, Written, Monitored, AbortKept, InTime, Writing
<1> QED
  BY <1>2 DEF Fits

\* What the monitor brings reaches a session whose fate is open, or is late.
LEMMA MonitorFits ==
  ASSUME TypeOK, NEW p \in Proc, Fits(p), Monitor(p) \/ Signal(p), UNCHANGED <<pc, cmd, mem, goal, handler, told>>,
         troubles' \in Nat, troubles' >= troubles
  PROVE  Fits(p)'
<1>1. Going(p)' = Going(p) /\ Fate(p)' = Fate(p) /\ InRuntime(p)' = InRuntime(p)
  BY DEF Going, Fate, InRuntime
<1>2. Placed(p)' /\ Written(p)'
  BY <1>1 DEF Fits, Placed, Written
<1>3. troubles \in Nat
  BY DEF TypeOK, DataTyped
<1>4. CASE ReadRequest(p) \/ DropRequest(p)
  <2>1. PICK mon \in {"idle", "pause", "abort"} : ctl' = [ctl EXCEPT ![p].mon = mon] /\ ctl[p].mon # "off"
    BY <1>4 DEF ReadRequest, DropRequest, TypeOK, ControlTyped, Asked
  <2>2. /\ ctl'[p].mon # "off" /\ ctl'[p].req = ctl[p].req /\ ctl'[p].intr = ctl[p].intr /\ ctl'[p].late = ctl[p].late
    BY <2>1 DEF TypeOK, ControlTyped
  <2>3. Monitored(p)'
    BY <1>1, <2>1, <2>2 DEF Fits, Monitored
  <2>4. AbortKept(p)'
    BY <1>1, <1>3, <2>2 DEF Fits, AbortKept, InTime, Ended
  <2> QED
    BY <1>2, <2>3, <2>4 DEF Fits
<1>5. CASE Signal(p)
  <2>1. ctl'[p].req = "pause" /\ ctl'[p].mon = ctl[p].mon
    BY <1>5 DEF Signal, Ask, TypeOK, ControlTyped
  <2>2. Monitored(p)'
    BY <1>1, <2>1 DEF Fits, Monitored
  <2>3. AbortKept(p)'
    BY <2>1 DEF AbortKept, InTime
  <2> QED
    BY <1>2, <2>2, <2>3 DEF Fits
<1>6. CASE Deliver(p)
  <2> DEFINE what == ctl[p].mon
  <2>1. what \in {"pause", "abort"} /\ Ask(p, what, "done") /\ what # "off"
    BY <1>6 DEF Deliver
  <2>2. /\ ctl'[p].req = (IF ctl[p].req = "abort" THEN ctl[p].req ELSE what)
        /\ ctl'[p].intr = (IF Bound(p) /\ (ctl[p].req # "abort" \/ what = "abort")
                             THEN Recorded(ctl[p].intr, what) ELSE ctl[p].intr)
        /\ ctl'[p].late = (ctl[p].late \/ (what = "abort" /\ Settled(p)))
        /\ ctl'[p].mon = "done"
    BY <2>1 DEF Ask, TypeOK, ControlTyped
  <2>3. Monitored(p)'
    BY <1>1, <2>1, <2>2 DEF Fits, Monitored
  <2>4. CASE what = "pause"
    <3>1. InTime(p)' => InTime(p) /\ ctl'[p].intr = ctl[p].intr
      BY <2>2, <2>4 DEF InTime
    <3>2. AbortKept(p)'
      BY <1>1, <1>3, <3>1 DEF Fits, AbortKept, Ended
    <3> QED
      BY <1>2, <2>3, <3>2 DEF Fits
  <2>5. CASE what = "abort"
    <3>1. InTime(p)' => ~ Settled(p) /\ (InRuntime(p) => ctl'[p].intr = "abort")
      BY <2>2, <2>5 DEF InTime, Bound, Recorded
    <3>2. ASSUME ~ Settled(p)
          PROVE  /\ ~ Ended(mem[p]) /\ Fate(p) \notin TerminalStatus
                 /\ Going(p) \notin {"result", "report", "stop"}
                 /\ Going(p) = "failed" => Fate(p) = "paused"
      <4>1. Fate(p) \notin TerminalStatus /\ ~ Ended(mem[p])
        BY <3>2 DEF Settled, Fate, Ended
      <4> QED
        BY <3>2, <4>1 DEF Settled, Going, Fits, Written
    <3>3. AbortKept(p)'
      BY <1>1, <3>1, <3>2 DEF AbortKept, Ended
    <3> QED
      BY <1>2, <2>3, <3>3 DEF Fits
  <2> QED
    BY <2>1, <2>4, <2>5
<1> QED
  BY <1>4, <1>5, <1>6 DEF Monitor

LEMMA InitAbort ==
  ASSUME Init
  PROVE  AbortInv
<1> SUFFICES ASSUME NEW p \in Proc PROVE Fits(p)
  BY DEF AbortInv
<1>1. pc[p] = "idle" /\ ctl[p].mon = "off" /\ ctl[p].req = "none"
  BY DEF Init, Unasked
<1>2. "idle" \notin Working \cup Writing \cup Running
  BY DEF Working, Writing, Running
<1> QED
  BY <1>1, <1>2 DEF Fits, Placed, Written, Monitored, AbortKept, InTime

LEMMA NextAbort ==
  ASSUME IInv, AbortInv, [Next]_vars
  PROVE  AbortInv'
<1>0. TypeOK /\ Found /\ troubles \in Nat
  BY DEF IInv, TypeOK, DataTyped
<1>1. CASE UNCHANGED vars
  <2>1. \A q \in Proc : Same(q)
    BY <1>1 DEF Same, vars, lockVars, local
  <2>2. troubles' = troubles
    BY <1>1 DEF vars, counts
  <2> QED
    BY <1>0, <2>1, <2>2, SameFits DEF AbortInv
<1>2. ASSUME NEW p \in Proc, Others(p), Fits(p)'
      PROVE  AbortInv'
  BY <1>0, <1>2, SameFits DEF AbortInv, Others
<1>3. ASSUME NEW p \in Proc, Write(p) \/ Control(p) \/ Compose(p) \/ Runtime(p)
      PROVE  AbortInv'
  BY <1>0, <1>2, <1>3, OneWrite, OneControl, OneCompose, OneRuntime,
     WriteFits, ControlFits, ComposeFits, RuntimeFits DEF AbortInv
<1>4. ASSUME NEW p \in Proc,
             \/ Start(p) \/ WriteRequest(p) \/ RenameRequest(p) \/ AwaitResult(p)
             \/ Acquire(p) /\ UNCHANGED <<local, files, counts>>
      PROVE  AbortInv'
  <2>1. pc[p] \in Outside \cup {"record"} /\ \E x \in Outside \cup {"record", "locked"} : Go(p, x)
    BY <1>4 DEF Start, StartRun, StartResume, StartControl, StartRollback, ShowStatus, Refused, WriteRequest, RenameRequest,
         AwaitResult, Acquire, OpenLock, RecordOwner, JudgeOwner, UnlinkStale, Exit, Begin, At, Outside
  <2>2. pc'[p] \in Outside \cup {"record", "locked"}
    BY <1>0, <2>1 DEF Go, TypeOK, FlowTyped
  <2> QED
    BY <1>0, <1>2, <1>4, <2>1, <2>2, OneOutside, OutsideFits DEF AbortInv
<1>5. ASSUME NEW p \in Proc, NEW x \in {"exited", "dead"}, Go(p, x), Forget(p), troubles' \in {troubles, troubles + 1}
      PROVE  AbortInv'
  BY <1>0, <1>2, <1>5, OneEnd, EndFits
<1>6. ASSUME NEW p \in Proc, ReleaseLock(p), Forget(p), UNCHANGED <<files, counts>>
      PROVE  AbortInv'
  BY <1>5, <1>6 DEF ReleaseLock, counts
<1>7. ASSUME NEW p \in Proc, Crash(p)
      PROVE  AbortInv'
  BY <1>5, <1>7 DEF Crash, Trouble
<1>8. ASSUME NEW p \in Proc, Monitor(p) \/ Signal(p)
      PROVE  AbortInv'
  BY <1>0, <1>2, <1>8, OneMonitor, MonitorFits DEF AbortInv, Others
<1>9. CASE Edit
  <2>1. /\ \A q \in Proc : Same(q)
        /\ troubles' = troubles
    BY <1>9 DEF Edit, Same, lockVars, local
  <2> QED
    BY <1>0, <2>1, SameFits DEF AbortInv
<1> QED
  BY <1>1, <1>3, <1>4, <1>6, <1>7, <1>8, <1>9 DEF Next, Step, Locking

\* What an abort has brought about is known at every place of a process.
THEOREM AbortInvariance == Spec => [](IInv /\ AbortInv)
<1>1. Init => IInv /\ AbortInv
  BY InitInv, InitAbort
<1>2. IInv /\ AbortInv /\ [Next]_vars => (IInv /\ AbortInv)'
  BY NextInv, NextAbort
<1> QED
  BY <1>1, <1>2, PTL DEF Spec

LEMMA AbortFollows ==
  ASSUME IInv, AbortInv
  PROVE  AbortDecides
<1> SUFFICES ASSUME NEW p \in Proc, At(p, "stop"), ctl[p].req = "abort", ~ ctl[p].late
             PROVE  \/ mem[p].status = "aborted"
                    \/ told[p] = "error" /\ (troubles > 0 \/ mem[p].status = "paused")
  BY DEF AbortDecides
<1>1. Going(p) = "stop" /\ Fate(p) = mem[p].status
  BY DEF At, Going, Fate, Writing
<1> QED
  BY <1>1 DEF AbortInv, Fits, AbortKept, InTime

\* An abort that reaches the owner before its session is decided ends it
\* aborted, whatever the page, the runtime, the monitor and the exceptions do
\* meanwhile; only a write that failed, or the startup of a paused session, is
\* told as an error instead (control.ts, agent-runtime.ts, commands.ts).
THEOREM AbortDecidesHolds == Spec => []AbortDecides
BY AbortInvariance, AbortFollows, PTL

------------------------------------------------------------------------------
(* A rollback, the audit logs and the report: what the owner knows of them.  *)

Undoing(p) == pc[p] = "append" /\ goal[p].to = "undone"
Ending(p) == pc[p] = "append" /\ goal[p].to \in {"ended", "rolled_back"}

\* A rollback at one of the places it reaches only when all went well.
Succeeding(p) ==
  cmd[p] = "rollback" /\ (Going(p) \in {"invalidate", "conclude", "done"} \/ (Going(p) = "stop" /\ told[p] = "ok"))

UndoKept(p) ==
  /\ Undoing(p) => trail.undos = 0
  /\ Succeeding(p) \/ Going(p) = "announce" => restored
  /\ Succeeding(p) /\ ~ Undoing(p) => trail.undos = 1
  /\ Succeeding(p) /\ Going(p) # "invalidate" => Fate(p) = "rolled_back"
  /\ Succeeding(p) /\ Going(p) \notin {"invalidate", "conclude"} => trail.ended \/ Ending(p)

\* The log it appends to is the last one that was appended to.
LogKept(p) ==
  /\ InRuntime(p) => log[p].rt # "stale"
  /\ Going(p) \in Opening \cup {"launch"} => log[p].cli # "stale"
  /\ handler[p] = "failed" /\ cmd[p] # "run" /\ pc[p] \notin {"failed", "stop"} => log[p].cli # "stale"
  /\ pc[p] \in {"write", "append"} /\ handler[p] = "thrown" => Going(p) \in Opening \cup {"launch"}

\* The places at which the session has not ended.
Live == (Opening \ {"declined"}) \cup {"launch", "startup", "work", "claimed", "inspect", "save", "saved",
                                       "verified", "rejected", "answer"}

\* The places of a command whose exit code will not be an error.
Leaving == {"announce", "invalidate", "conclude", "done", "declined", "report"}

ReportFits(p) ==
  /\ Going(p) \in Live => Fate(p) \notin TerminalStatus
  /\ pc[p] = "write" => ~ Ended(mem[p]) \/ goal[p].to = "rolled_back"
  /\ pc[p] = "write" /\ goal[p].to = "completed" => mem[p].report # None /\ handoff = mem[p].report
  /\ Going(p) \in {"saved", "verified"} /\ mem[p].report # None => handoff = mem[p].report
  /\ Going(p) \in Leaving /\ Ended(mem[p]) /\ mem[p].status # "completed"
       => handoff = None \/ pc[p] \in {"write", "clear"} \/ (pc[p] = "append" /\ goal[p].to \in TerminalStatus)

OutcomeInv ==
  ~ stolen =>
    /\ trail.undos <= 1
    /\ ReportKept
    /\ \A p \in Proc : pc[p] \in Working => UndoKept(p) /\ LogKept(p) /\ ReportFits(p)

\* Where a process stands after a step and what of the report that step owes.
LEMMA ReportGo ==
  ASSUME TypeOK, NEW p \in Proc, NEW x \in Working \ Writing, Go(p, x),
         x \in Live => ~ Ended(mem[p])',
         x \in {"saved", "verified"} /\ mem'[p].report # None => handoff' = mem'[p].report,
         x \in Leaving /\ Ended(mem[p])' /\ mem'[p].status # "completed" => handoff' = None
  PROVE  ReportFits(p)' /\ ~ Undoing(p)' /\ ~ Ending(p)' /\ pc'[p] = x /\ Going(p)' = x
<1>1. Going(p)' = x /\ Fate(p)' = mem'[p].status /\ pc'[p] = x /\ pc'[p] \notin Writing
  BY GoesOn
<1>2. pc'[p] \notin {"write", "append", "clear"}
  BY <1>1 DEF Writing
<1> QED
  BY <1>1, <1>2 DEF ReportFits, Undoing, Ending, Ended

\* A session that has ended can only be rolled back.
LEMMA OnlyRolledBack ==
  ASSUME NEW s \in Session, s.status # "none", NEW to, CanTransition(s.status, to)
  PROVE  ~ Ended(s) \/ to = "rolled_back"
<1>1. s.status \in Status
  BY DEF Session
<1> QED
  BY <1>1 DEF CanTransition, Ended, Transitions, TerminalStatus, Status

LEMMA ReportMove ==
  ASSUME TypeOK, NEW p \in Proc, mem[p].status # "none", NEW to \in Status, NEW then, Move(p, to, then), UNCHANGED <<mem, handoff>>,
         then \in Live => to \notin TerminalStatus,
         to = "completed" => mem[p].report # None /\ handoff = mem[p].report,
         then \notin {"saved", "verified"}
  PROVE  ReportFits(p)' /\ ~ Undoing(p)' /\ ~ Ending(p)' /\ Going(p)' = then /\ Fate(p)' = to /\ pc'[p] = "write"
<1>1. /\ Going(p)' = then /\ Fate(p)' = to /\ pc'[p] = "write" /\ goal'[p] = [to |-> to, then |-> then]
      /\ CanTransition(mem[p].status, to)
  BY MovesOn
<1>2. ~ Ended(mem[p]) \/ to = "rolled_back"
  BY <1>1, OnlyRolledBack DEF TypeOK, DataTyped
<1>g. goal'[p].to = to
  BY <1>1
<1>3. ReportFits(p)'
  BY <1>1, <1>g, <1>2 DEF ReportFits, Ended
<1> QED
  BY <1>1, <1>3 DEF Undoing, Ending

LEMMA ReportNote ==
  ASSUME TypeOK, NEW p \in Proc, NEW event \in {"note", "undone", "ended"}, NEW then, Note(p, event, then),
         then \in Live => ~ Ended(mem[p])',
         then \in {"saved", "verified"} /\ mem'[p].report # None => handoff' = mem'[p].report,
         then \in Leaving /\ Ended(mem[p])' /\ mem'[p].status # "completed" => handoff' = None
  PROVE  ReportFits(p)' /\ Going(p)' = then /\ Fate(p)' = mem'[p].status /\ pc'[p] = "append" /\ goal'[p].to = event
<1>0. Going(p)' = then /\ pc'[p] = "append" /\ goal'[p] = [to |-> event, then |-> then] /\ event \notin TerminalStatus
  BY NotesOn DEF TerminalStatus
<1>1. /\ Going(p)' = then /\ pc'[p] = "append" /\ goal'[p].to = event
  BY <1>0
<1>2. Fate(p)' = mem'[p].status
  BY <1>1 DEF Fate
<1> QED
  BY <1>0, <1>1, <1>2 DEF ReportFits, Ended

\* Of a rollback nothing is asked but of a rollback.
LEMMA NoUndo ==
  ASSUME NEW p \in Proc, Fits(p)', pc'[p] \in Working, cmd'[p] # "rollback", ~ Undoing(p)'
  PROVE  UndoKept(p)'
BY DEF UndoKept, Succeeding, Fits, Placed, Role

LEMMA RunLog ==
  ASSUME NEW p \in Proc, Fits(p)', pc'[p] \in Working, InRuntime(p)', log'[p].rt # "stale"
  PROVE  LogKept(p)'
<1>1. Going(p)' \in Running
  BY DEF Fits, Placed
<1>2. \A x \in Running : x \notin Opening \cup {"launch"}
  BY DEF Running, Opening
<1>3. handler'[p] \notin {"failed", "thrown"}
  BY DEF InRuntime
<1> QED
  BY <1>1, <1>2, <1>3 DEF LogKept

------------------------------------------------------------------------------
(* The steps of the runtime. *)

LEMMA RuntimeReport ==
  ASSUME TypeOK, Found, NEW p \in Proc, Fits(p), ReportFits(p), Runtime(p),
         disk.status = mem[p].status, ReportKept, ~ stolen, Fits(p)'
  PROVE  ReportFits(p)' /\ ReportKept' /\ ~ Undoing(p)'
<1> USE DEF At, Kept, Inside
<1>0. /\ Running \cup {"report", "thrown", "stop"} \subseteq Working \ Writing
      /\ \A x \in {"startup", "work", "claimed", "inspect", "save", "saved", "verified", "rejected",
                   "answer"} : x \in Live /\ x \in Running
      /\ \A x \in {"caught", "halted", "finish", "result", "unwind"} : x \in Running
      /\ \A x \in {"caught", "halted", "finish", "result", "unwind", "report", "thrown", "stop"} : x \notin Live
      /\ \A x \in Running : x \notin Leaving
      /\ {"stop", "thrown"} \cap Leaving = {}
  BY DEF Running, Live, Opening, Leaving, Working, Writing
<1>1. mem \in [Proc -> Session] /\ disk \in Session /\ (pc[p] \in Running => mem[p].status # "none")
  BY RunPlaces DEF TypeOK, DataTyped, Found
<1>2. pc[p] \in Live \cap Running => ~ Ended(mem[p])
  BY RunRole DEF ReportFits, Ended
<1>3. ASSUME UNCHANGED <<disk, handoff, stolen>>
      PROVE  ReportKept'
  BY <1>3 DEF ReportKept
<1>4. ASSUME ~ Ended(mem[p])', disk'.status = mem'[p].status
      PROVE  ReportKept'
  BY <1>4 DEF ReportKept, Ended, TerminalStatus
<1>5. TerminalStatus \subseteq Status /\ {"failed", "aborted", "paused", "blocked", "validating_completion", "completed", "returning_results",
       "awaiting_model"} \subseteq Status
  BY DEF Status, TerminalStatus
<1>6. CASE Startup(p)
  <2>1. ~ Ended(mem[p]) /\ mem[p].status \in Status
    BY <1>0, <1>1, <1>2, <1>6 DEF Startup, Session
  <2>2. ASSUME Move(p, StartupMove(mem[p].status), "startup")
        PROVE  StartupMove(mem[p].status) \in Status \ TerminalStatus
    BY <2>1, <2>2 DEF Move, CanTransition, StartupMove, Status, TerminalStatus, Ended
  <2> QED
    BY <1>0, <1>1, <1>3, <1>5, <1>6, <2>1, <2>2, ReportGo, ReportMove DEF Startup, TerminalStatus
<1>7. CASE Claim(p)
  BY <1>0, <1>1, <1>2, <1>3, <1>5, <1>7, ReportMove DEF Claim, TerminalStatus
<1>8. CASE Inspect(p)
  <2>1. ~ Ended(mem[p])
    BY <1>0, <1>2, <1>8 DEF Inspect
  <2>2. mem' = mem \/ (Go(p, "saved") /\ mem' = [mem EXCEPT ![p].report = None])
    BY <1>8 DEF Inspect
  <2>3. ~ Ended(mem[p])' /\ (Go(p, "saved") => mem'[p].report = None)
    BY <1>1, <1>8, <2>1, <2>2 DEF Ended, Session, Inspect, Go, TypeOK, FlowTyped, FinishNow, Note
  <2>4. UNCHANGED <<disk, handoff, stolen>>
    BY <1>8 DEF Inspect
  <2>5. \/ Note(p, "note", "inspect")
        \/ \E x \in {"finish", "save", "saved"} : Go(p, x)
    BY <1>8 DEF Inspect, FinishNow
  <2> QED
    BY <1>0, <1>3, <2>3, <2>4, <2>5, ReportGo, ReportNote DEF Undoing
<1>9. CASE SaveReport(p)
  <2>1. ~ Ended(mem[p]) /\ UNCHANGED <<disk, stolen>>
    BY <1>0, <1>2, <1>9 DEF SaveReport
  <2>2. \/ mem' = mem /\ handoff' = handoff /\ (Go(p, "saved") => handoff = mem[p].report)
        \/ mem' = [mem EXCEPT ![p].report = mem[p].base] /\ handoff' = mem[p].base
    BY <1>1, <1>9 DEF SaveReport, Throw, Go, TypeOK, FlowTyped, Handler
  <2>3. /\ ~ Ended(mem[p])' /\ mem'[p].status = mem[p].status
        /\ (Go(p, "saved") => handoff' = mem'[p].report)
    BY <1>1, <2>1, <2>2 DEF Ended, Session
  <2>4. \E x \in {"halted", "caught", "saved", handler[p]} : Go(p, x)
    BY <1>9 DEF SaveReport, Throw
  <2>5. handler[p] \in {"caught", "unwind"}
    BY <1>0, <1>9, RunRole DEF SaveReport
  <2> QED
    BY <1>0, <1>4, <2>1, <2>3, <2>4, <2>5, ReportGo
<1>10. CASE Conclusion(p)
  <2>1. ~ Ended(mem[p]) /\ Going(p) = pc[p] /\ pc[p] \in {"saved", "verified", "rejected"} /\ pc[p] \in Running
    BY <1>0, <1>2, <1>10, RunRole DEF Conclusion
  <2>2. pc[p] \in {"saved", "verified"} /\ mem[p].report # None => handoff = mem[p].report
    BY <2>1 DEF ReportFits
  <2>3. UNCHANGED <<mem, disk, handoff, stolen>> /\ ~ Ended(mem[p])'
    BY <1>10, <2>1 DEF Conclusion, Ended
  <2>4. \/ Go(p, "finish")
        \/ Note(p, "note", "verified") /\ pc[p] = "saved"
        \/ Move(p, "completed", "result") /\ pc[p] = "verified" /\ mem[p].report # None
        \/ Move(p, "returning_results", "rejected")
        \/ Move(p, "awaiting_model", "answer")
    BY <1>10 DEF Conclusion, FinishNow
  <2>5. "returning_results" \notin TerminalStatus /\ "awaiting_model" \notin TerminalStatus
    BY DEF TerminalStatus
  <2> QED
    BY <1>0, <1>1, <1>3, <1>5, <2>1, <2>2, <2>3, <2>4, <2>5, ReportGo, ReportNote, ReportMove DEF Undoing
<1>11. ASSUME NEW t \in Session, t.status = mem[p].status, Persist(p, t, "work"), pc[p] \in {"work", "answer"}, UNCHANGED handoff
       PROVE  ReportFits(p)' /\ ReportKept' /\ ~ Undoing(p)'
  <2>1. ~ Ended(mem[p]) /\ handler[p] \in {"caught", "unwind"}
    BY <1>0, <1>2, <1>11, RunRole
  <2>2. mem'[p] = t /\ disk' \in {disk, t} /\ \E x \in {"work", handler[p]} : Go(p, x)
    BY <1>1, <1>11 DEF Persist, Throw
  <2>3. ~ Ended(mem[p])' /\ disk'.status = mem'[p].status
    BY <1>11, <2>1, <2>2 DEF Ended
  <2> QED
    BY <1>0, <1>4, <2>1, <2>2, <2>3, ReportGo
<1>12. CASE Work(p)
  <2>1. [mem[p] EXCEPT !.base = tree] \in Session /\ [mem[p] EXCEPT !.claim = TRUE] \in Session
        /\ [mem[p] EXCEPT !.base = tree].status = mem[p].status
        /\ [mem[p] EXCEPT !.claim = TRUE].status = mem[p].status
    BY <1>1 DEF Session, TypeOK, DataTyped
  <2>2. pc[p] = "work" /\ pc[p] \in Live \cap Running /\ UNCHANGED <<handoff, stolen>>
    BY <1>0, <1>12 DEF Work
  <2>3. \/ Persist(p, [mem[p] EXCEPT !.base = tree], "work") \/ Persist(p, [mem[p] EXCEPT !.claim = TRUE], "work")
        \/ Move(p, "blocked", "result") /\ UNCHANGED <<mem, disk>>
        \/ (\E error \in {"caught", "halted"} : Go(p, error)) /\ UNCHANGED <<mem, disk>>
    BY <1>12 DEF Work
  <2>4. CASE Move(p, "blocked", "result") /\ UNCHANGED <<mem, disk>>
    BY <1>0, <1>1, <1>3, <1>5, <2>2, <2>4, ReportMove
  <2>5. CASE (\E error \in {"caught", "halted"} : Go(p, error)) /\ UNCHANGED <<mem, disk>>
    BY <1>0, <1>3, <2>2, <2>5, ReportGo
  <2> QED
    BY <1>11, <2>1, <2>2, <2>3, <2>4, <2>5
<1>13. CASE Answer(p)
  <2>1. [mem[p] EXCEPT !.claim = FALSE] \in Session /\ [mem[p] EXCEPT !.claim = FALSE].status = mem[p].status
    BY <1>1 DEF Session
  <2> QED
    BY <1>11, <1>13, <2>1 DEF Answer
<1>14. CASE Caught(p)
  BY <1>0, <1>1, <1>3, <1>5, <1>14, ReportGo, ReportMove DEF Caught, TerminalStatus
<1>15. CASE Finish(p)
  BY <1>0, <1>1, <1>3, <1>5, <1>15, ReportGo, ReportMove DEF Finish, TerminalStatus
<1>16. CASE Stopping(p)
  BY <1>0, <1>1, <1>3, <1>16, ReportGo DEF Stopping, FinishNow
<1>17. CASE Leave(p)
  <2>1. UNCHANGED <<mem, disk, handoff, stolen>> /\ handler'[p] = "thrown"
    BY <1>17 DEF Leave, Handle, TypeOK, FlowTyped
  <2>2. CASE ~ Ended(mem[p])
    <3>1. Go(p, "report") \/ Go(p, "thrown")
      BY <1>17, <2>2 DEF Leave
    <3> QED
      BY <1>0, <1>3, <2>1, <2>2, <3>1, ReportGo DEF Ended
  <2>3. CASE Ended(mem[p])
    <3>1. pc'[p] = "clear" /\ goal'[p].then \in {"report", "thrown"}
      BY <1>17, <2>3 DEF Leave, Go, TypeOK, FlowTyped
    <3>2. Going(p)' \in {"report", "thrown"}
      BY <3>1 DEF Going, Writing
    <3> QED
      BY <1>0, <1>3, <2>1, <3>1, <3>2 DEF ReportFits, Undoing
  <2> QED
    BY <2>2, <2>3
<1>18. CASE Report(p)
  BY <1>0, <1>3, <1>18, ReportGo DEF Report, Stop
<1> QED
  BY <1>6, <1>7, <1>8, <1>9, <1>10, <1>12, <1>13, <1>14, <1>15, <1>16, <1>17, <1>18 DEF Runtime

LEMMA RuntimeOutcome ==
  ASSUME TypeOK, Found, NEW p \in Proc, Fits(p), UndoKept(p), LogKept(p), Runtime(p), Fits(p)', pc'[p] \in Working
  PROVE  /\ trail' = trail
         /\ ~ Undoing(p)' => UndoKept(p)'
         /\ LogKept(p)'
<1> USE DEF At, Kept, Inside
<1>1. trail' = trail /\ log' = log /\ cmd' = cmd
  BY DEF Runtime, Startup, Work, Claim, Inspect, SaveReport, Conclusion, Answer, Caught, Finish, Stopping, Leave, Report
<1>2. pc[p] \in Running \cup {"report"}
  BY DEF Runtime, Startup, Work, Claim, Inspect, SaveReport, Conclusion, Answer, Caught, Finish, Stopping, Leave, Report, Running
<1>3. "report" \in (Working \ Writing) \ Running
  BY DEF Working, Writing, Running
<1>4. cmd[p] # "rollback"
  BY <1>2, <1>3, RunRole, PlainAt DEF Role
<1>5. ~ Undoing(p)' => UndoKept(p)'
  BY <1>1, <1>4, NoUndo
<1>6. CASE Leave(p)
  <2>1. handler'[p] = "thrown" /\ pc'[p] \in {"clear", "report", "thrown"}
        /\ (pc'[p] = "clear" => goal'[p].then \in {"report", "thrown"})
    BY <1>6 DEF Leave, Handle, Go, TypeOK, FlowTyped
  <2>2. Going(p)' \in {"report", "thrown"}
    BY <2>1 DEF Going, Writing
  <2>3. LogKept(p)'
    BY <2>1, <2>2 DEF LogKept, InRuntime, Opening
  <2> QED
    BY <1>1, <1>5, <2>3
<1>7. CASE Report(p)
  <2>1. pc[p] = "report" /\ handler' = handler /\ pc'[p] \in {"thrown", "stop"}
    BY <1>7 DEF Report, Stop, Go, TypeOK, FlowTyped
  <2>2. ~ InRuntime(p)' /\ handler'[p] # "failed"
    BY <1>3, <2>1, PlainAt DEF InRuntime
  <2>3. Going(p)' \in {"thrown", "stop"}
    BY <2>1 DEF Going, Writing
  <2>4. LogKept(p)'
    BY <2>1, <2>2, <2>3 DEF LogKept, Opening
  <2> QED
    BY <1>1, <1>5, <2>4
<1>8. CASE ~ Leave(p) /\ ~ Report(p)
  <2>1. pc[p] \in Running /\ (handler' = handler \/ Handle(p, "unwind"))
    BY <1>8 DEF Runtime, Startup, Work, Claim, Inspect, SaveReport, Conclusion, Answer, Caught, Finish, Stopping, Running
  <2>2. InRuntime(p) /\ InRuntime(p)'
    BY <2>1, RunRole DEF InRuntime, Handle, TypeOK, FlowTyped
  <2>3. LogKept(p)'
    BY <1>1, <2>2, RunLog DEF LogKept
  <2> QED
    BY <1>1, <1>5, <2>3
<1> QED
  BY <1>6, <1>7, <1>8

------------------------------------------------------------------------------
(* The steps of run and resume before the runtime and after it. *)

LEMMA NotLeft ==
  /\ \A x \in {"failed", "stop", "thrown"} : x \notin Live \cup Leaving \cup Opening \cup {"saved", "verified", "launch"}
  /\ \A x \in Opening \cup {"launch", "startup"} : x \notin {"saved", "verified", "announce", "invalidate", "conclude", "done", "report"}
  /\ Opening \ {"declined"} \subseteq Live /\ "launch" \in Live /\ "declined" \notin Live
  /\ {"created", "preflight", "granted", "approve", "approved", "recovered", "declined"} \subseteq Opening
  /\ \A x \in Opening : x \in Leaving <=> x = "declined"
  /\ "launch" \notin Leaving \cup Opening /\ "startup" \in Live \ (Leaving \cup Opening)
  /\ Opening \cup {"launch", "startup", "thrown", "failed", "stop"} \subseteq Working \ Writing
BY DEF Live, Leaving, Opening, Working, Writing

LEMMA ComposeReport ==
  ASSUME TypeOK, Found, NEW p \in Proc, Fits(p), ReportFits(p) \/ pc[p] = "locked", Compose(p),
         ReportKept, ~ stolen
  PROVE  /\ pc'[p] \in Working => ReportFits(p)' /\ ~ Undoing(p)'
         /\ ReportKept' /\ trail' = trail
<1> USE DEF At, Kept, Owned
<1>1. mem \in [Proc -> Session] /\ disk \in Session
  BY DEF TypeOK, DataTyped
<1>2. trail' = trail /\ stolen' = stolen
  BY DEF Compose, RunOwned, Publish, ResumeOwned, ApproveGrant, Declined, Launch, Thrown, Failed, StopMonitor
<1>3. ASSUME UNCHANGED <<disk, handoff>>
      PROVE  ReportKept'
  BY <1>2, <1>3 DEF ReportKept
<1>4. pc[p] \in Opening \cup {"launch", "thrown"} => mem[p].status # "none" /\ Going(p) = pc[p] /\ Fate(p) = mem[p].status
  BY NotLeft DEF Found, Going, Fate, Writing, Opening, Working
<1>5. pc[p] \in Live /\ pc[p] \in Opening \cup {"launch"} => ~ Ended(mem[p])
  BY <1>4, NotLeft DEF ReportFits, Ended, Live, Opening
<1>6. /\ {"preflight", "grant_pending", "aborted", "transport_starting", "paused", "failed"} \subseteq Status
      /\ {"preflight", "grant_pending", "transport_starting"} \cap TerminalStatus = {}
  BY DEF Status, TerminalStatus
<1>7. CASE RunOwned(p)
  <2>1. CASE /\ mem' = [mem EXCEPT ![p] = [NoSession EXCEPT !.status = "created"]]
             /\ disk' = mem'[p] /\ Note(p, "note", "created")
    <3>1. mem'[p].status = "created" /\ disk'.status = "created"
      BY <1>1, <2>1 DEF NoSession
    <3>2. ~ Ended(mem[p])' /\ ReportKept'
      BY <3>1 DEF Ended, TerminalStatus, ReportKept
    <3> QED
      BY <1>2, <2>1, <3>2, NotLeft, ReportNote DEF Undoing
  <2>2. CASE Go(p, "failed") /\ UNCHANGED <<mem, disk>>
    BY <1>2, <1>3, <1>7, <2>2, NotLeft, ReportGo DEF RunOwned
  <2> QED
    BY <1>7, <2>1, <2>2 DEF RunOwned
<1>8. CASE ResumeOwned(p)
  <2>1. mem'[p] = disk /\ handoff' = Swept(disk) /\ disk' = disk
    BY <1>1, <1>8 DEF ResumeOwned, Reread
  <2>2. ReportKept'
    BY <1>2, <2>1 DEF ReportKept, Swept
  <2>3. Go(p, "thrown") \/ (~ Ended(disk) /\ (Go(p, "approve") \/ Note(p, "note", "launch")))
    BY <1>8 DEF ResumeOwned
  <2>4. ~ Ended(disk) => ~ Ended(mem[p])'
    BY <2>1 DEF Ended
  <2> QED
    BY <1>2, <2>2, <2>3, <2>4, NotLeft, ReportGo, ReportNote DEF Undoing
<1>9. CASE Publish(p)
  <2>1. pc[p] \in Opening \ {"declined"} /\ UNCHANGED <<mem, disk, handoff>> /\ ~ Ended(mem[p]) /\ ~ Ended(mem[p])'
    BY <1>5, <1>9, NotLeft DEF Publish, Ended
  <2>2. Move(p, "preflight", "preflight") \/ Move(p, "grant_pending", "granted") \/ Go(p, "approve")
    BY <1>9 DEF Publish
  <2> QED
    BY <1>2, <1>3, <1>4, <1>6, <2>1, <2>2, NotLeft, ReportGo, ReportMove
<1>10. CASE ApproveGrant(p)
  <2>1. pc[p] \in Opening \ {"declined"} /\ UNCHANGED <<mem, disk, handoff>> /\ ~ Ended(mem[p]) /\ ~ Ended(mem[p])'
    BY <1>5, <1>10, NotLeft DEF ApproveGrant, Ended
  <2>2. \/ Note(p, "note", "approved") \/ Note(p, "note", "launch") \/ Move(p, "aborted", "declined")
        \/ Move(p, "transport_starting", "launch") \/ Move(p, "transport_starting", "recovered")
    BY <1>10 DEF ApproveGrant
  <2> QED
    BY <1>2, <1>3, <1>4, <1>6, <2>1, <2>2, NotLeft, ReportNote, ReportMove DEF Undoing
<1>11. CASE Declined(p)
  BY <1>2, <1>3, <1>11, NotLeft, ReportGo DEF Declined, Stop
<1>12. CASE Launch(p)
  <2>1. pc[p] = "launch" /\ UNCHANGED <<mem, disk, handoff, goal>> /\ ~ Ended(mem[p]) /\ ~ Ended(mem[p])'
    BY <1>5, <1>12, NotLeft DEF Launch, Ended
  <2>2. CASE pc' = pc
    <3>1. Going(p)' = Going(p) /\ Fate(p)' = Fate(p)
      BY <2>1, <2>2 DEF Going, Fate
    <3> QED
      BY <1>2, <1>3, <2>1, <2>2, <3>1 DEF ReportFits, Undoing
  <2>3. CASE Go(p, "startup") \/ Go(p, "thrown")
    BY <1>2, <1>3, <2>1, <2>3, NotLeft, ReportGo
  <2> QED
    BY <1>12, <2>2, <2>3 DEF Launch
<1>13. CASE Thrown(p)
  <2>1. Target(p) \in Status /\ Target(p) # "completed"
    BY <1>6 DEF Target
  <2>2. pc[p] = "thrown" /\ UNCHANGED <<mem, disk, handoff>> /\ (Move(p, Target(p), "failed") \/ Go(p, "failed"))
    BY <1>13 DEF Thrown
  <2> QED
    BY <1>2, <1>3, <1>4, <2>1, <2>2, NotLeft, ReportGo, ReportMove
<1>14. CASE Failed(p)
  BY <1>2, <1>3, <1>14, NotLeft, ReportGo DEF Failed, Stop
<1>15. CASE StopMonitor(p)
  <2>1. pc'[p] = "release" /\ UNCHANGED <<disk, handoff>>
    BY <1>15 DEF StopMonitor, Go, TypeOK, FlowTyped
  <2> QED
    BY <1>2, <1>3, <2>1 DEF Working
<1> QED
  BY <1>7, <1>8, <1>9, <1>10, <1>11, <1>12, <1>13, <1>14, <1>15 DEF Compose

LEMMA ComposeLog ==
  ASSUME TypeOK, Found, NEW p \in Proc, Fits(p), LogKept(p) \/ pc[p] = "locked", Compose(p), Fits(p)', pc'[p] \in Working
  PROVE  LogKept(p)' /\ (~ Undoing(p)' => UndoKept(p)')
<1> USE DEF At, Kept, Owned
<1>1. log \in [Proc -> [cli : LogState, rt : LogState]]
  BY DEF TypeOK, ControlTyped
<1>2. cmd' = cmd
  BY DEF Compose, RunOwned, Publish, ResumeOwned, ApproveGrant, Declined, Launch, Thrown, Failed, StopMonitor
<1>p. Opening \cup {"launch", "thrown", "failed", "stop"} \subseteq (Working \ Writing) \ Running
  BY DEF Working, Writing, Running, Opening
<1>u. ASSUME cmd[p] # "rollback"
      PROVE  ~ Undoing(p)' => UndoKept(p)'
  BY <1>2, <1>u, NoUndo
<1>3. CASE RunOwned(p) \/ ResumeOwned(p)
  <2>1. handler'[p] = "thrown" /\ cmd[p] \in {"run", "resume"}
    BY <1>3 DEF RunOwned, ResumeOwned, Handle, TypeOK, FlowTyped
  <2>2. \/ NewLog(p) /\ \E x \in {"created", "launch"} : Note(p, "note", x)
        \/ NewLog(p) /\ \E x \in {"approve", "thrown"} : Go(p, x)
        \/ Go(p, "failed")
    BY <1>3 DEF RunOwned, ResumeOwned
  <2>3. CASE NewLog(p) /\ \E x \in {"created", "launch"} : Note(p, "note", x)
    <3>1. Going(p)' \in {"created", "launch"}
      BY <2>3, NotesOn
    <3>2. log'[p].cli = "new"
      BY <1>1, <2>3 DEF NewLog
    <3> QED
      BY <1>u, <2>1, <3>1, <3>2, NotLeft DEF LogKept, InRuntime
  <2>4. CASE NewLog(p) /\ \E x \in {"approve", "thrown"} : Go(p, x)
    <3>1. log'[p].cli = "new" /\ pc'[p] \notin {"write", "append"}
      BY <1>1, <2>4, GoesOn, NotLeft DEF NewLog, Writing
    <3> QED
      BY <1>u, <2>1, <3>1 DEF LogKept, InRuntime
  <2>5. CASE Go(p, "failed")
    <3>1. Going(p)' = "failed" /\ pc'[p] = "failed"
      BY <2>5, GoesOn, NotLeft
    <3> QED
      BY <1>u, <2>1, <3>1, NotLeft DEF LogKept, InRuntime
  <2> QED
    BY <2>2, <2>3, <2>4, <2>5
<1>4. ASSUME pc[p] \in Opening \cup {"launch", "thrown"}
      PROVE  cmd[p] \in {"run", "resume"} /\ ~ InRuntime(p) /\ handler[p] # "failed" /\ Going(p) = pc[p]
  <2>1. pc[p] \notin {"announce", "invalidate", "conclude", "done", "failed", "stop"}
    BY <1>4 DEF Opening
  <2> QED
    BY <1>p, <1>4, <2>1, PlainAt DEF Role
<1>5. CASE Publish(p) \/ ApproveGrant(p)
  <2>1. pc[p] \in Opening /\ log' = log /\ handler' = handler
    BY <1>5, NotLeft DEF Publish, ApproveGrant
  <2>2. log[p].cli # "stale" /\ ~ InRuntime(p)' /\ handler'[p] # "failed"
    BY <1>4, <2>1 DEF LogKept, InRuntime, Opening
  <2>3. \/ \E x \in Opening \cup {"launch"} : (\E to : Move(p, to, x)) \/ Note(p, "note", x)
        \/ Go(p, "approve")
    BY <1>5, NotLeft DEF Publish, ApproveGrant
  <2>4. Going(p)' \in Opening \cup {"launch"}
    <3>1. ASSUME NEW x \in Opening \cup {"launch"}, NEW to, Move(p, to, x)
          PROVE  Going(p)' \in Opening \cup {"launch"}
      BY <3>1, MovesOn
    <3>2. ASSUME NEW x \in Opening \cup {"launch"}, Note(p, "note", x)
          PROVE  Going(p)' \in Opening \cup {"launch"}
      <4>1. Going(p)' = x
        BY <3>2, NotesOn
      <4> QED
        BY <4>1
    <3> QED
      BY <2>3, <3>1, <3>2, GoesOn, NotLeft
  <2> QED
    BY <1>u, <1>4, <2>1, <2>2, <2>4 DEF LogKept
<1>6. CASE Declined(p)
  <2>1. pc[p] = "declined" /\ handler' = handler
    BY <1>6 DEF Declined
  <2>2. Going(p)' = "stop" /\ pc'[p] = "stop"
    BY <1>6, GoesOn, NotLeft DEF Declined, Stop
  <2> QED
    BY <1>u, <1>4, <2>1, <2>2, NotLeft DEF LogKept, InRuntime
<1>7. CASE Launch(p)
  <2>1. pc[p] = "launch"
    BY <1>7 DEF Launch
  <2>2. CASE UNCHANGED <<pc, handler, log>>
    <3>1. Going(p)' = "launch"
      BY <2>1, <2>2 DEF Going, Writing
    <3> QED
      BY <1>u, <1>4, <2>1, <2>2, <3>1 DEF LogKept, InRuntime
  <2>3. CASE log' = [log EXCEPT ![p].rt = "fresh"] /\ Handle(p, "caught") /\ Go(p, "startup")
    <3>1. log'[p].rt = "fresh" /\ InRuntime(p)'
      BY <1>1, <2>3 DEF Handle, InRuntime, TypeOK, FlowTyped
    <3> QED
      BY <1>u, <1>4, <2>1, <3>1, RunLog
  <2>4. CASE Go(p, "thrown") /\ UNCHANGED <<handler, log>>
    <3>1. Going(p)' = "thrown" /\ pc'[p] = "thrown"
      BY <2>4, GoesOn, NotLeft
    <3> QED
      BY <1>u, <1>4, <2>1, <2>4, <3>1, NotLeft DEF LogKept, InRuntime
  <2> QED
    BY <1>7, <2>2, <2>3, <2>4 DEF Launch
<1>8. CASE Thrown(p)
  <2>1. pc[p] = "thrown" /\ handler'[p] = "failed"
    BY <1>8 DEF Thrown, Handle, TypeOK, FlowTyped
  <2>2. CASE Move(p, Target(p), "failed") /\ log' = FreshForCatch(p)
    <3>1. Going(p)' = "failed"
      BY <2>2, MovesOn
    <3>2. cmd[p] # "run" => log'[p].cli = "new"
      BY <1>1, <1>4, <2>1, <2>2 DEF FreshForCatch
    <3> QED
      BY <1>2, <1>u, <1>4, <2>1, <3>1, <3>2, NotLeft DEF LogKept, InRuntime
  <2>3. CASE Go(p, "failed")
    <3>1. Going(p)' = "failed" /\ pc'[p] = "failed"
      BY <2>3, GoesOn, NotLeft
    <3> QED
      BY <1>u, <1>4, <2>1, <3>1, NotLeft DEF LogKept, InRuntime
  <2> QED
    BY <1>8, <2>2, <2>3 DEF Thrown
<1>9. CASE Failed(p)
  <2>1. pc[p] = "failed" /\ handler' = handler
    BY <1>9 DEF Failed
  <2>2. Going(p)' = "stop" /\ pc'[p] = "stop"
    BY <1>9, GoesOn, NotLeft DEF Failed, Stop
  <2>3. ~ InRuntime(p)'
    BY <1>p, <2>1, PlainAt DEF InRuntime
  <2>4. told'[p] = "error"
    BY <1>9 DEF Failed, Stop, TypeOK, ControlTyped
  <2> QED
    BY <1>2, <1>9, <2>1, <2>2, <2>3, <2>4, NotLeft DEF LogKept, UndoKept, Succeeding
<1>10. CASE StopMonitor(p)
  <2>1. pc'[p] = "release"
    BY <1>10 DEF StopMonitor, Go, TypeOK, FlowTyped
  <2> QED
    BY <2>1 DEF Working
<1> QED
  BY <1>3, <1>5, <1>6, <1>7, <1>8, <1>9, <1>10 DEF Compose

------------------------------------------------------------------------------
(* pause, abort and rollback. *)

LEMMA ControlPlaces ==
  /\ {"announce", "invalidate", "conclude", "done", "failed", "stop"} \subseteq (Working \ Writing) \ Running
  /\ \A x \in {"announce", "invalidate", "conclude", "done", "failed", "stop"} :
        x \notin Live \cup Opening \cup {"launch", "saved", "verified"}
  /\ {"announce", "invalidate", "conclude", "done"} \subseteq Leaving
BY DEF Working, Writing, Running, Live, Opening, Leaving

\* They work with one log, the one they made when they had the lock.
LEMMA ControlLog ==
  ASSUME TypeOK, NEW p \in Proc, Fits(p), LogKept(p) \/ pc[p] = "locked", Control(p), Fits(p)', pc'[p] \in Working
  PROVE  LogKept(p)'
<1> USE DEF At, Alone, Owned
<1>1. log \in [Proc -> [cli : LogState, rt : LogState]]
  BY DEF TypeOK, ControlTyped
<1>2. cmd' = cmd
  BY DEF Control, ControlOwned, RollbackOwned, Announce, Invalidate, Conclude, Done
<1>3. ASSUME ~ InRuntime(p)', handler'[p] # "thrown", log'[p].cli # "stale" \/ pc'[p] \in {"failed", "stop"}
      PROVE  LogKept(p)'
  <2>1. Going(p)' \in Opening \cup {"launch"} => pc'[p] \notin {"failed", "stop"}
    BY DEF Going, Opening, Writing
  <2> QED
    BY <1>3, <2>1 DEF LogKept
<1>4. CASE ControlOwned(p) \/ RollbackOwned(p)
  <2>1. handler'[p] = "failed" /\ log'[p].cli = "new"
    BY <1>1, <1>4 DEF ControlOwned, RollbackOwned, Handle, NewLog, TypeOK, FlowTyped
  <2> QED
    BY <1>3, <2>1 DEF InRuntime
<1>5. CASE Announce(p) \/ Invalidate(p) \/ Conclude(p)
  <2>1. pc[p] \in {"announce", "invalidate", "conclude"} /\ UNCHANGED <<handler, log>>
    BY <1>5 DEF Announce, Invalidate, Conclude
  <2>2. handler[p] = "failed" /\ cmd[p] = "rollback"
    BY <2>1, ControlPlaces, PlainAt DEF Role
  <2>3. log[p].cli # "stale"
    BY <2>1, <2>2 DEF LogKept
  <2> QED
    BY <1>3, <2>1, <2>2, <2>3 DEF InRuntime
<1>6. CASE Done(p)
  <2>1. pc'[p] = "stop" /\ UNCHANGED handler
    BY <1>6 DEF Done, Stop, Go, TypeOK, FlowTyped
  <2>2. Going(p)' = "stop" /\ ~ InRuntime(p)'
    BY <1>6, <2>1, ControlPlaces, PlainAt DEF Done, Going, Writing, InRuntime
  <2> QED
    BY <2>1, <2>2, ControlPlaces DEF LogKept
<1> QED
  BY <1>4, <1>5, <1>6 DEF Control

LEMMA ControlOutcome ==
  ASSUME TypeOK, Found, NEW p \in Proc, Fits(p), (UndoKept(p) /\ ReportFits(p)) \/ pc[p] = "locked", Control(p), Fits(p)',
         ReportKept, ~ stolen, trail.undos <= 1
  PROVE  UndoKept(p)' /\ ReportFits(p)' /\ ReportKept' /\ trail' = trail
<1> USE DEF At, Alone, Owned
<1>1. mem \in [Proc -> Session] /\ disk \in Session /\ trail.undos \in Nat /\ disk.status # "none"
  <2>1. cmd[p] \notin {"none", "run"}
    <3>1. pc[p] = "done" => cmd[p] \in {"pause", "abort", "rollback"}
      BY ControlPlaces, PlainAt DEF Role
    <3>2. pc[p] \in {"announce", "invalidate", "conclude"} => cmd[p] = "rollback"
      BY ControlPlaces, PlainAt DEF Role
    <3> QED
      BY <3>1, <3>2 DEF Control, ControlOwned, RollbackOwned, Announce, Invalidate, Conclude, Done
  <2> QED
    BY <2>1 DEF TypeOK, DataTyped, ControlTyped, Found
<1>2. UNCHANGED <<trail, stolen, disk, cmd>>
  BY DEF Control, ControlOwned, RollbackOwned, Announce, Invalidate, Conclude, Done
<1>3. CASE ControlOwned(p)
  <2>1. mem'[p] = disk /\ handoff' = Swept(disk) /\ cmd[p] \in {"pause", "abort"}
    BY <1>1, <1>3 DEF ControlOwned, Reread
  <2>2. ReportKept'
    BY <1>2, <2>1 DEF ReportKept, Swept
  <2>3. CASE Go(p, "stop") \/ Go(p, "failed")
    <3>1. ReportFits(p)' /\ ~ Undoing(p)' /\ pc'[p] \in Working
      BY <2>3, ControlPlaces, NotLeft, ReportGo
    <3> QED
      BY <1>2, <2>1, <2>2, <3>1, NoUndo
  <2>4. CASE /\ ~ Ended(disk) /\ Go(p, "write")
             /\ \E to \in {"paused", "aborted"} : goal' = [goal EXCEPT ![p] = [to |-> to, then |-> "done"]]
    <3>1. /\ pc'[p] = "write" /\ ~ Ended(mem[p])' /\ goal'[p].to \in {"paused", "aborted"} /\ goal'[p].then = "done"
      BY <2>1, <2>4 DEF Go, TypeOK, FlowTyped, Ended
    <3>2. Going(p)' = "done"
      BY <3>1 DEF Going, Writing
    <3>3. ReportFits(p)' /\ ~ Undoing(p)' /\ pc'[p] \in Working
      BY <3>1, <3>2, ControlPlaces DEF ReportFits, Undoing, Working
    <3> QED
      BY <1>2, <2>1, <2>2, <3>3, NoUndo
  <2> QED
    BY <1>3, <2>3, <2>4 DEF ControlOwned, Stop
<1>4. CASE RollbackOwned(p)
  <2>1. mem'[p] = disk /\ handoff' = Swept(disk)
    BY <1>1, <1>4 DEF RollbackOwned, Reread
  <2>2. ReportKept'
    BY <1>2, <2>1 DEF ReportKept, Swept
  <2>3. Ended(mem[p])' /\ mem'[p].status # "completed" => handoff' = None
    BY <2>1 DEF Ended, Swept
  <2>4. (Go(p, "announce") /\ restored' = TRUE) \/ Go(p, "failed")
    BY <1>4 DEF RollbackOwned
  <2>5. ReportFits(p)' /\ ~ Undoing(p)' /\ ((Going(p)' = "announce" /\ restored') \/ Going(p)' = "failed")
    BY <2>3, <2>4, ControlPlaces, NotLeft, ReportGo
  <2> QED
    BY <1>2, <2>2, <2>5 DEF UndoKept, Succeeding
<1>5. ASSUME pc[p] \in {"announce", "invalidate", "conclude"}
      PROVE  /\ cmd[p] = "rollback" /\ Going(p) = pc[p] /\ Fate(p) = mem[p].status /\ ~ Undoing(p) /\ ~ Ending(p) /\ restored
             /\ Ended(mem[p]) /\ mem[p].status # "completed" => handoff = None
             /\ mem[p].status # "none"
  <2>1. cmd[p] = "rollback" /\ Going(p) = pc[p] /\ Fate(p) = mem[p].status
    BY <1>5, ControlPlaces, PlainAt DEF Role
  <2>2. ~ Undoing(p) /\ ~ Ending(p)
    BY <1>5 DEF Undoing, Ending
  <2>3. Ended(mem[p]) /\ mem[p].status # "completed" => handoff = None
    BY <1>5, <2>1, ControlPlaces DEF ReportFits
  <2>4. mem[p].status # "none"
    BY <1>5 DEF Found, Working
  <2> QED
    BY <1>5, <2>1, <2>2, <2>3, <2>4 DEF UndoKept, Succeeding
<1>6. CASE Announce(p)
  <2>1. pc[p] = "announce" /\ UNCHANGED <<mem, handoff, restored>> /\ ReportKept' /\ told' = told
    BY <1>2, <1>6 DEF Announce, ReportKept
  <2>e. Ended(mem[p])' /\ mem'[p].status # "completed" => handoff' = None
    BY <1>5, <2>1 DEF Ended
  <2>2. CASE ~ Announced /\ Note(p, "undone", "invalidate")
    <3>1. trail.undos = 0
      BY <1>1, <2>2 DEF Announced
    <3>2. ReportFits(p)' /\ Going(p)' = "invalidate" /\ Undoing(p)'
      BY <2>2, <2>e, ControlPlaces, ReportNote DEF Undoing
    <3> QED
      BY <1>2, <1>5, <2>1, <3>1, <3>2 DEF UndoKept
  <2>3. CASE Announced /\ Go(p, "invalidate")
    <3>1. trail.undos = 1
      BY <1>1, <2>3 DEF Announced
    <3>2. ReportFits(p)' /\ Going(p)' = "invalidate" /\ ~ Undoing(p)'
      BY <2>3, <2>e, ControlPlaces, ReportGo
    <3> QED
      BY <1>2, <1>5, <2>1, <3>1, <3>2 DEF UndoKept
  <2>4. CASE Go(p, "failed")
    <3>1. ReportFits(p)' /\ Going(p)' = "failed" /\ ~ Undoing(p)'
      BY <2>4, ControlPlaces, NotLeft, ReportGo
    <3> QED
      BY <1>2, <2>1, <3>1 DEF UndoKept, Succeeding
  <2> QED
    BY <1>6, <2>2, <2>3, <2>4 DEF Announce
<1>7. CASE Invalidate(p)
  <2>1. pc[p] = "invalidate" /\ UNCHANGED <<mem, handoff, restored>> /\ ReportKept' /\ told' = told
    BY <1>2, <1>7 DEF Invalidate, ReportKept
  <2>2. trail.undos = 1
    BY <1>5, <2>1 DEF UndoKept, Succeeding
  <2>3. CASE Move(p, "rolled_back", "conclude")
    <3>1. "rolled_back" \in Status /\ "rolled_back" # "completed"
      BY DEF Status, TerminalStatus
    <3>2. ReportFits(p)' /\ ~ Undoing(p)' /\ Going(p)' = "conclude" /\ Fate(p)' = "rolled_back"
      BY <1>5, <2>1, <2>3, <3>1, ControlPlaces, ReportMove
    <3> QED
      BY <1>2, <1>5, <2>1, <2>2, <3>2 DEF UndoKept
  <2>4. CASE mem[p].status = "rolled_back" /\ Go(p, "conclude")
    <3>1. Ended(mem[p])' /\ mem'[p].status # "completed" => handoff' = None
      BY <1>5, <2>1 DEF Ended
    <3>2. ReportFits(p)' /\ ~ Undoing(p)' /\ Going(p)' = "conclude" /\ pc'[p] = "conclude"
      BY <2>4, <3>1, ControlPlaces, ReportGo
    <3>3. Fate(p)' = "rolled_back"
      BY <2>1, <2>4, <3>2 DEF Fate
    <3> QED
      BY <1>2, <1>5, <2>1, <2>2, <3>2, <3>3 DEF UndoKept
  <2> QED
    BY <1>7, <2>3, <2>4 DEF Invalidate
<1>8. CASE Conclude(p)
  <2>1. pc[p] = "conclude" /\ UNCHANGED <<mem, handoff, restored>> /\ ReportKept' /\ told' = told
    BY <1>2, <1>8 DEF Conclude, ReportKept
  <2>2. trail.undos = 1 /\ mem[p].status = "rolled_back"
    BY <1>5, <2>1 DEF UndoKept, Succeeding
  <2>e. Ended(mem[p])' /\ mem'[p].status # "completed" => handoff' = None
    BY <1>5, <2>1 DEF Ended
  <2>3. CASE Go(p, "failed")
    <3>1. ReportFits(p)' /\ Going(p)' = "failed" /\ ~ Undoing(p)'
      BY <2>3, ControlPlaces, NotLeft, ReportGo
    <3> QED
      BY <1>2, <2>1, <3>1 DEF UndoKept, Succeeding
  <2>4. CASE trail.ended /\ Go(p, "done")
    <3>1. ReportFits(p)' /\ Going(p)' = "done" /\ ~ Undoing(p)' /\ pc'[p] = "done"
      BY <2>4, <2>e, ControlPlaces, ReportGo
    <3>2. Fate(p)' = "rolled_back"
      BY <2>1, <2>2, <3>1 DEF Fate
    <3> QED
      BY <1>2, <1>5, <2>1, <2>2, <2>4, <3>1, <3>2 DEF UndoKept
  <2>5. CASE Note(p, "ended", "done")
    <3>1. ReportFits(p)' /\ Going(p)' = "done" /\ Fate(p)' = mem'[p].status /\ pc'[p] = "append" /\ goal'[p].to = "ended"
      BY <2>5, <2>e, ControlPlaces, ReportNote
    <3>2. Fate(p)' = "rolled_back" /\ ~ Undoing(p)' /\ Ending(p)'
      BY <2>1, <2>2, <3>1 DEF Undoing, Ending
    <3> QED
      BY <1>2, <1>5, <2>1, <2>2, <3>1, <3>2 DEF UndoKept
  <2> QED
    BY <1>8, <2>3, <2>4, <2>5 DEF Conclude
<1>9. CASE Done(p)
  <2>1. pc[p] = "done" /\ UNCHANGED <<mem, handoff, restored>> /\ ReportKept' /\ Go(p, "stop")
    BY <1>2, <1>9 DEF Done, Stop, ReportKept
  <2>2. ReportFits(p)' /\ Going(p)' = "stop" /\ ~ Undoing(p)' /\ pc'[p] = "stop"
    BY <2>1, ControlPlaces, NotLeft, ReportGo
  <2>3. Fate(p)' = mem[p].status /\ Fate(p) = mem[p].status /\ Going(p) = "done" /\ ~ Undoing(p) /\ ~ Ending(p)
    BY <2>1, <2>2, ControlPlaces, PlainAt DEF Fate, Undoing, Ending
  <2>4. cmd[p] = "rollback" => Succeeding(p)
    BY <2>3 DEF Succeeding
  <2> QED
    BY <1>2, <2>1, <2>2, <2>3, <2>4 DEF UndoKept, Succeeding
<1> QED
  BY <1>3, <1>4, <1>6, <1>7, <1>8, <1>9 DEF Control

------------------------------------------------------------------------------
(* The writes. *)

\* What a line adds to the audit log.
LEMMA AppendedParts ==
  ASSUME ControlTyped, NEW p \in Proc
  PROVE  /\ Appended(p).undos = IF goal[p].to = "undone" THEN trail.undos + 1 ELSE trail.undos
         /\ Appended(p).ended = (trail.ended \/ goal[p].to \in {"rolled_back", "ended"})
         /\ Appended(p).chain = IF trail.chain = "whole" /\ log[p][Log(p)] = "stale" THEN "forked" ELSE trail.chain
<1> DEFINE chain == IF trail.chain = "whole" /\ log[p][Log(p)] = "stale" THEN "forked" ELSE trail.chain
           from == IF goal[p].to = "undone" THEN mem[p].status ELSE trail.from
           undos == IF goal[p].to = "undone" THEN trail.undos + 1 ELSE trail.undos
           ended == trail.ended \/ goal[p].to \in {"rolled_back", "ended"}
<1>1. Appended(p) = [trail EXCEPT !.chain = chain, !.from = from, !.undos = undos, !.ended = ended]
  BY Zenon DEF Appended
<1> HIDE DEF chain, from, undos, ended
<1>2. Appended(p).undos = undos /\ Appended(p).ended = ended /\ Appended(p).chain = chain
  BY <1>1 DEF ControlTyped
<1> QED
  BY <1>2 DEF chain, undos, ended

\* Who appends, but for the catch of run, has read the log to its end.
LEMMA LastLog ==
  ASSUME TypeOK, NEW p \in Proc, LogKept(p), pc[p] = "append", ~ (cmd[p] = "run" /\ handler[p] = "failed")
  PROVE  log[p][Log(p)] # "stale"
<1>1. handler[p] \in Handler
  BY DEF TypeOK, FlowTyped, Working
<1>2. CASE InRuntime(p)
  BY <1>2 DEF LogKept, Log
<1>3. CASE ~ InRuntime(p)
  <2>1. log[p].cli # "stale"
    BY <1>1, <1>3 DEF LogKept, InRuntime, Handler
  <2> QED
    BY <1>3, <2>1 DEF Log
<1> QED
  BY <1>2, <1>3

LEMMA MovedReport ==
  ASSUME NEW s \in Session, NEW to \in Status
  PROVE  to \notin TerminalStatus \ {"completed"} => Moved(s, to).report = s.report
<1> DEFINE report == IF to \in TerminalStatus \ {"completed"} THEN None ELSE s.report
<1>1. Moved(s, to) = [s EXCEPT !.status = to, !.report = report]
  BY Zenon DEF Moved
<1> HIDE DEF report
<1>2. Moved(s, to).report = report
  BY <1>1 DEF Session
<1> QED
  BY <1>2 DEF report

LEMMA WriteOutcome ==
  ASSUME TypeOK, Found, NEW p \in Proc, Fits(p), UndoKept(p), LogKept(p), ReportFits(p), Write(p), Fits(p)', pc'[p] \in Working,
         disk.status = mem[p].status, ReportKept, ~ stolen, trail.undos <= 1
  PROVE  UndoKept(p)' /\ LogKept(p)' /\ ReportFits(p)' /\ ReportKept' /\ trail'.undos <= 1
<1> USE DEF At
<1>0. /\ pc[p] \in {"write", "append", "clear"} /\ pc[p] \in Writing /\ pc[p] \in Working
      /\ UNCHANGED <<cmd, handler, told, stolen, restored>> /\ InRuntime(p)' = InRuntime(p)
  BY DEF Write, WriteState, WriteFails, AppendEvent, AppendFails, Clear, Writing, Working, local, files, InRuntime
<1>1. /\ Going(p) = goal[p].then /\ goal[p].then \in Working \ Writing
      /\ handler[p] \in Handler /\ trail.undos \in Nat
      /\ mem \in [Proc -> Session] /\ disk \in Session
  BY <1>0 DEF Going, TypeOK, FlowTyped, DataTyped, ControlTyped
<1>2. /\ Handler \subseteq Working \ Writing
      /\ \A x \in Handler : x \notin Live \cup Leaving \cup Opening \cup {"saved", "verified", "launch", "stop", "announce",
                                        "invalidate", "conclude", "done"}
  BY DEF Handler, Live, Leaving, Opening, Working, Writing
<1>3. Placed(p) /\ Placed(p)'
  BY DEF Fits
<1>u. ASSUME cmd[p] # "rollback", ~ Undoing(p)'
      PROVE  UndoKept(p)'
  BY <1>0, <1>u, NoUndo
\* An exception takes it to its handler, where nothing more is known.
<1>4. ASSUME Going(p)' = handler[p], pc'[p] \notin {"write", "append"}
      PROVE  UndoKept(p)' /\ (log' = log => LogKept(p)') /\ ReportFits(p)'
  <2>1. handler[p] \notin Live \cup Leaving \cup Opening \cup {"saved", "verified", "launch", "stop", "announce",
                                        "invalidate", "conclude", "done"}
    <3>1. handler[p] \in Handler
      BY <1>1
    <3> QED
      BY <1>2, <3>1
  <2>2. UndoKept(p)' /\ ReportFits(p)'
    BY <1>4, <2>1 DEF UndoKept, Succeeding, Undoing, ReportFits, Leaving
  <2>3. log' = log => LogKept(p)'
    BY <1>0, <1>4, <2>1 DEF LogKept
  <2> QED
    BY <2>2, <2>3
<1>5. CASE WriteState(p)
  <2>1. /\ pc[p] = "write" /\ pc'[p] = "append" /\ UNCHANGED <<goal, log, trail, handoff>>
        /\ mem'[p] = Moved(mem[p], goal[p].to) /\ disk' = mem'[p]
    BY <1>1, <1>5 DEF WriteState, Go, TypeOK, FlowTyped
  <2>2. goal[p].to \in Status /\ mem'[p].status = goal[p].to
    BY <1>1, <2>1, MovedTyped DEF TypeOK, FlowTyped
  <2>3. Going(p)' = Going(p) /\ Fate(p) = goal[p].to /\ Fate(p)' = goal[p].to
    BY <2>1, <2>2 DEF Going, Fate, Writing
  <2>4. goal[p].to \notin {"undone", "ended"}
    BY <2>2 DEF Status, TerminalStatus
  <2>5. UndoKept(p)'
    BY <1>0, <2>1, <2>3, <2>4 DEF UndoKept, Succeeding, Undoing, Ending
  <2>6. LogKept(p)'
    BY <1>0, <2>1, <2>3 DEF LogKept
  <2>7. mem'[p].report = mem[p].report \/ goal[p].to \in TerminalStatus \ {"completed"}
    BY <1>1, <2>1, <2>2, MovedReport
  <2>8. ReportFits(p)'
    <3>1. Going(p) \in {"saved", "verified"} => goal[p].to \notin TerminalStatus
      BY <2>3 DEF ReportFits, Live
    <3> QED
      BY <2>1, <2>2, <2>3, <2>7, <3>1 DEF ReportFits, Ended
  <2>9. ReportKept'
    BY <2>1, <2>2, <2>7 DEF ReportKept, ReportFits
  <2> QED
    BY <2>1, <2>5, <2>6, <2>8, <2>9
<1>6. CASE WriteFails(p)
  <2>1. Go(p, handler[p]) /\ UNCHANGED <<disk, handoff, trail, log>> /\ handler[p] \in Working \ Writing
    BY <1>1, <1>2, <1>6 DEF WriteFails, Throw, local, files
  <2>2. Going(p)' = handler[p] /\ pc'[p] \notin {"write", "append"} /\ ReportKept'
    BY <1>0, <2>1, GoesOn DEF Writing, ReportKept
  <2> QED
    BY <1>4, <2>1, <2>2
<1>7. CASE AppendEvent(p)
  <2>1. /\ pc[p] = "append" /\ UNCHANGED <<mem, goal, disk, handoff>> /\ trail' = Appended(p) /\ log' = Behind(p)
        /\ Go(p, goal[p].then) \/ (Go(p, "clear") /\ Clears(p))
    BY <1>7 DEF AppendEvent
  <2>2. /\ Going(p)' = Going(p) /\ Fate(p)' = mem[p].status /\ Fate(p) = mem[p].status
        /\ pc'[p] \notin {"write", "append"}
        /\ pc'[p] = "clear" \/ ~ Clears(p)
    <3>1. CASE Go(p, "clear") /\ Clears(p)
      BY <1>1, <2>1, <3>1 DEF Go, TypeOK, FlowTyped, Going, Fate, Writing
    <3>2. CASE Go(p, goal[p].then) /\ ~ Clears(p)
      <4>1. Going(p)' = goal[p].then /\ Fate(p)' = mem'[p].status /\ pc'[p] \notin Writing
        BY <1>1, <3>2, GoesOn
      <4> QED
        BY <1>1, <2>1, <3>2, <4>1 DEF Fate, Writing
    <3> QED
      BY <1>7, <3>1, <3>2 DEF AppendEvent
  <2>3. /\ trail'.undos = (IF goal[p].to = "undone" THEN trail.undos + 1 ELSE trail.undos)
        /\ trail'.ended = (trail.ended \/ goal[p].to \in {"rolled_back", "ended"})
    BY <2>1, AppendedParts DEF TypeOK
  <2>4. trail'.undos <= 1 /\ ReportKept'
    BY <1>0, <1>1, <2>1, <2>3 DEF UndoKept, Undoing, ReportKept
  <2>5. UndoKept(p)'
    <3>1. ~ Undoing(p)' /\ Succeeding(p)' = Succeeding(p)
      BY <1>0, <2>2 DEF Undoing, Succeeding
    <3>2. /\ Undoing(p) <=> goal[p].to = "undone"
          /\ Ending(p) <=> goal[p].to \in {"ended", "rolled_back"}
      BY <2>1 DEF Undoing, Ending
    <3>3. /\ Succeeding(p) => trail'.undos = 1
          /\ (trail.ended \/ Ending(p)) => trail'.ended
      <4>1. Succeeding(p) => trail'.undos = 1
        BY <1>1, <2>3, <3>2 DEF UndoKept
      <4>2. (trail.ended \/ Ending(p)) => trail'.ended
        BY <2>3, <3>2
      <4> QED
        BY <4>1, <4>2
    <3> QED
      BY <1>0, <2>2, <3>1, <3>3 DEF UndoKept
  <2>6. ReportFits(p)'
    <3>1. goal[p].to \in TerminalStatus /\ Going(p) \in Leaving => pc'[p] = "clear"
      <4>1. Going(p) \in Leaving => ~ InRuntime(p)
        BY <1>0, <1>3 DEF Placed, Leaving, Running
      <4> QED
        BY <2>2, <4>1 DEF Clears
    <3> QED
      BY <2>1, <2>2, <3>1 DEF ReportFits, Ended
  <2>7. LogKept(p)'
    <3>1. CASE cmd[p] = "run" /\ handler[p] = "failed"
      <4>1. Going(p) \notin Opening \cup {"launch"} /\ ~ InRuntime(p)
        <5>1. Going(p) \in {"announce", "invalidate", "conclude", "done", "failed", "stop"}
          BY <1>0, <1>3, <3>1 DEF Placed
        <5> QED
          BY <3>1, <5>1 DEF Opening, InRuntime
      <4> QED
        BY <1>0, <2>2, <3>1, <4>1 DEF LogKept
    <3>2. CASE ~ (cmd[p] = "run" /\ handler[p] = "failed")
      <4>1. log[p][Log(p)] # "stale" /\ Log(p) \in {"cli", "rt"}
        BY <2>1, <3>2, LastLog DEF Log
      <4>2. log'[p][Log(p)] # "stale"
        BY <2>1, <4>1 DEF Behind
      <4>3. CASE InRuntime(p)
        <5>1. log'[p].rt # "stale"
          BY <4>2, <4>3 DEF Log
        <5> QED
          BY <1>0, <4>3, <5>1, RunLog
      <4>4. CASE ~ InRuntime(p)
        <5>1. log'[p].cli # "stale"
          BY <4>2, <4>4 DEF Log
        <5> QED
          BY <1>0, <2>2, <4>4, <5>1 DEF LogKept
      <4> QED
        BY <4>3, <4>4
    <3> QED
      BY <3>1, <3>2
  <2> QED
    BY <2>4, <2>5, <2>6, <2>7
<1>8. CASE AppendFails(p)
  <2>1. /\ pc[p] = "append" /\ UNCHANGED <<disk, handoff, log>> /\ trail'.undos = trail.undos
        /\ goal'[p].then = handler[p] /\ (Go(p, handler[p]) \/ Go(p, "clear"))
    <3>1. trail' = trail \/ trail' = [trail EXCEPT !.chain = IF @ = "whole" THEN "cut" ELSE @]
      BY <1>8 DEF AppendFails
    <3>2. trail'.undos = trail.undos
      BY <3>1 DEF TypeOK, ControlTyped
    <3> QED
      BY <1>8, <3>2 DEF AppendFails, TypeOK, FlowTyped
  <2>2. Going(p)' = handler[p] /\ pc'[p] \notin {"write", "append"}
    <3>1. CASE Go(p, "clear")
      BY <2>1, <3>1 DEF Go, TypeOK, FlowTyped, Going, Writing
    <3>2. CASE Go(p, handler[p])
      BY <1>1, <1>2, <3>2, GoesOn DEF Writing
    <3> QED
      BY <2>1, <3>1, <3>2
  <2>3. ReportKept'
    BY <1>0, <2>1 DEF ReportKept
  <2> QED
    BY <1>4, <2>1, <2>2, <2>3
<1>9. CASE Clear(p)
  <2>1. /\ pc[p] = "clear" /\ UNCHANGED <<mem, disk, log, trail, goal>>
    BY <1>9 DEF Clear, local
  <2>2. CASE handoff' = (IF mem[p].status = "completed" THEN handoff ELSE None) /\ Go(p, goal[p].then)
    <3>1. /\ Going(p)' = Going(p) /\ Fate(p)' = mem[p].status /\ Fate(p) = mem[p].status /\ pc'[p] \notin {"write", "append", "clear"}
      <4>1. Going(p)' = goal[p].then /\ Fate(p)' = mem'[p].status /\ pc'[p] \notin Writing
        BY <1>1, <2>2, GoesOn
      <4> QED
        BY <1>1, <2>1, <4>1 DEF Fate, Writing
    <3>2. ReportKept' /\ UndoKept(p)' /\ LogKept(p)'
      BY <1>0, <2>1, <2>2, <3>1 DEF ReportKept, UndoKept, Succeeding, Undoing, Ending, LogKept
    <3>3. Ended(mem[p])
      BY <2>1 DEF Fits, Written
    <3>4. Going(p) \notin Live
      BY <3>1, <3>3 DEF ReportFits, Ended
    <3>5. Going(p)' \notin Live \cup {"saved", "verified"}
      BY <3>1, <3>4 DEF Live
    <3>6. ReportFits(p)'
      BY <2>1, <2>2, <3>1, <3>5 DEF ReportFits
    <3> QED
      BY <2>1, <3>2, <3>6
  <2>3. CASE Go(p, handler[p]) /\ UNCHANGED handoff
    <3>1. Going(p)' = handler[p] /\ pc'[p] \notin {"write", "append"}
      BY <1>1, <1>2, <2>3, GoesOn DEF Writing
    <3>2. ReportKept'
      BY <1>0, <2>1, <2>3 DEF ReportKept
    <3> QED
      BY <1>4, <2>1, <3>1, <3>2
  <2> QED
    BY <1>9, <2>2, <2>3 DEF Clear, Throw
<1> QED
  BY <1>5, <1>6, <1>7, <1>8, <1>9 DEF Write

------------------------------------------------------------------------------
(* All steps together. *)

Still(q) ==
  /\ pc'[q] = pc[q] /\ cmd'[q] = cmd[q] /\ mem'[q] = mem[q] /\ goal'[q] = goal[q]
  /\ handler'[q] = handler[q] /\ told'[q] = told[q] /\ log'[q] = log[q]

\* A process that does not own the workspace at most sweeps the report of a
\* session that has ended.
LEMMA StillOutcome ==
  ASSUME TypeOK, InStep, OutcomeInv, stolen => stolen',
         \A q \in Proc : pc'[q] \in Working => Still(q),
         UNCHANGED <<disk, trail, restored>>, handoff' \in {handoff, Swept(disk)}
  PROVE  OutcomeInv'
<1> SUFFICES ASSUME ~ stolen' PROVE (trail.undos <= 1 /\ ReportKept
      /\ \A p \in Proc : pc[p] \in Working => UndoKept(p) /\ LogKept(p) /\ ReportFits(p))'
  BY DEF OutcomeInv
<1>1. trail.undos <= 1 /\ ReportKept /\ ~ stolen
  BY DEF OutcomeInv
<1>2. handoff' = handoff \/ (handoff' = None /\ Ended(disk) /\ disk.status # "completed")
  BY DEF Swept
<1>3. ReportKept'
  BY <1>1, <1>2 DEF ReportKept
<1>4. ASSUME NEW p \in Proc, pc'[p] \in Working
      PROVE  UndoKept(p)' /\ LogKept(p)' /\ ReportFits(p)'
  <2>1. Still(p) /\ pc[p] \in Working
    BY <1>4 DEF Still
  <2>2. UndoKept(p) /\ LogKept(p) /\ ReportFits(p) /\ disk.status = mem[p].status
    BY <1>1, <2>1 DEF OutcomeInv, InStep
  <2>3. /\ Going(p)' = Going(p) /\ Fate(p)' = Fate(p) /\ InRuntime(p)' = InRuntime(p)
        /\ Undoing(p)' = Undoing(p) /\ Ending(p)' = Ending(p) /\ Succeeding(p)' = Succeeding(p)
    BY <2>1 DEF Still, Going, Fate, InRuntime, Undoing, Ending, Succeeding
  <2>4. UndoKept(p)' /\ LogKept(p)'
    BY <2>1, <2>2, <2>3 DEF UndoKept, LogKept, Still
  <2>5. CASE handoff' = handoff
    BY <2>1, <2>2, <2>3, <2>4, <2>5 DEF ReportFits, Still, Ended
  <2>6. CASE handoff' = None /\ Ended(mem[p]) /\ mem[p].status # "completed"
    <3>1. pc[p] = "write" => goal[p].to = "rolled_back" /\ Fate(p) \in TerminalStatus
      BY <2>2, <2>6 DEF ReportFits, Fate, TerminalStatus
    <3>2. Fate(p) \in TerminalStatus
      BY <2>6, <3>1 DEF Fate, Ended
    <3>3. Going(p) \notin Live \cup {"saved", "verified"}
      BY <2>2, <3>2 DEF ReportFits, Live
    <3> QED
      BY <2>1, <2>2, <2>3, <2>4, <2>6, <3>1, <3>3 DEF ReportFits, Still, Ended
  <2> QED
    BY <1>2, <2>2, <2>5, <2>6 DEF Ended
<1> QED
  BY <1>1, <1>3, <1>4

LEMMA OwnerOutcome ==
  ASSUME TypeOK, Found, LockInv, InStep, OutcomeInv, AbortInv, AbortInv', NEW p \in Proc,
         Write(p) \/ Control(p) \/ Compose(p) \/ Runtime(p), OwnerStep(p), Others(p)
  PROVE  OutcomeInv'
<1> SUFFICES ASSUME ~ stolen' PROVE (trail.undos <= 1 /\ ReportKept
      /\ \A q \in Proc : pc[q] \in Working => UndoKept(q) /\ LogKept(q) /\ ReportFits(q))'
  BY DEF OutcomeInv
<1>1. ~ stolen /\ pc[p] \in Working \cup {"locked"} /\ pc[p] \notin Outside
  BY OwnerPlaces DEF OwnerStep
<1>2. trail.undos <= 1 /\ ReportKept /\ Fits(p) /\ Fits(p)'
  BY <1>1 DEF OutcomeInv, AbortInv
<1>3. pc[p] \in Working => UndoKept(p) /\ LogKept(p) /\ ReportFits(p) /\ disk.status = mem[p].status
  BY <1>1 DEF OutcomeInv, InStep
<1>l. "locked" \notin Working
  BY DEF Working
<1>4. /\ trail'.undos <= 1 /\ ReportKept'
      /\ pc'[p] \in Working => UndoKept(p)' /\ LogKept(p)' /\ ReportFits(p)'
  <2>1. CASE Write(p)
    <3>1. pc[p] \in {"write", "append", "clear"} /\ pc[p] \in Working
      BY <2>1 DEF Write, WriteState, WriteFails, AppendEvent, AppendFails, Clear, At, Working
    <3>2. pc'[p] \in Working
      <4>1. /\ \/ \E x \in {"append", "clear", handler[p], goal[p].then} : Go(p, x)
        BY <2>1 DEF Write, WriteState, WriteFails, AppendEvent, AppendFails, Clear, Throw
      <4>2. {"append", "clear", handler[p], goal[p].then} \subseteq Working
        BY <3>1 DEF Working, Writing, Handler, TypeOK, FlowTyped
      <4> QED
        BY <4>1, <4>2 DEF Go, TypeOK, FlowTyped
    <3> QED
      BY <1>1, <1>2, <1>3, <2>1, <3>1, <3>2, WriteOutcome
  <2>2. CASE Control(p)
    <3>1. UndoKept(p)' /\ ReportFits(p)' /\ ReportKept' /\ trail' = trail
      BY <1>1, <1>2, <1>3, <2>2, ControlOutcome
    <3> QED
      BY <1>1, <1>2, <1>3, <2>2, <3>1, ControlLog
  <2>3. CASE Compose(p)
    <3>1. /\ pc'[p] \in Working => ReportFits(p)' /\ ~ Undoing(p)'
          /\ ReportKept' /\ trail' = trail
      BY <1>1, <1>2, <1>3, <2>3, ComposeReport
    <3>2. pc'[p] \in Working => LogKept(p)' /\ (~ Undoing(p)' => UndoKept(p)')
      BY <1>1, <1>2, <1>3, <2>3, ComposeLog
    <3> QED
      BY <1>2, <3>1, <3>2
  <2>4. CASE Runtime(p)
    <3>1. pc[p] \in Working
      BY <1>1, <2>4 DEF Runtime, Startup, Work, Claim, Inspect, SaveReport, Conclusion, Answer, Caught, Finish, Stopping, Leave, Report, At
    <3>2. ReportFits(p)' /\ ReportKept' /\ ~ Undoing(p)'
      BY <1>1, <1>2, <1>3, <2>4, <3>1, RuntimeReport
    <3>3. trail' = trail
      BY <2>4 DEF Runtime, Startup, Work, Claim, Inspect, SaveReport, Conclusion, Answer, Caught, Finish, Stopping, Leave, Report, Inside, Kept
    <3>4. pc'[p] \in Working => LogKept(p)' /\ (~ Undoing(p)' => UndoKept(p)')
      BY <1>2, <1>3, <2>4, <3>1, RuntimeOutcome
    <3> QED
      BY <1>2, <3>2, <3>3, <3>4
  <2> QED
    BY <2>1, <2>2, <2>3, <2>4
<1>5. ASSUME NEW q \in Proc, q # p
      PROVE  pc'[q] \notin Working
  <2>1. pc'[q] = pc[q]
    BY <1>5 DEF Others, Same
  <2> QED
    BY <1>1, <1>5, <2>1, OneOwnerFits, OwnerPlaces
<1> QED
  BY <1>4, <1>5

LEMMA InitOutcome ==
  ASSUME Init
  PROVE  OutcomeInv
<1>1. trail.undos <= 1 /\ \A p \in Proc : pc[p] \notin Working
  BY DEF Init, Working
<1>2. ReportKept
  <2>1. CASE disk = NoSession
    BY <2>1 DEF ReportKept, NoSession
  <2>2. ASSUME NEW status \in Resumables, disk = Left(status)
        PROVE  ReportKept
    <3> DEFINE report == IF status = "completed" THEN 0 ELSE None
               claim == status = "completed"
    <3>1. disk = [NoSession EXCEPT !.status = status, !.report = report, !.claim = claim]
      BY <2>2, Zenon DEF Left
    <3> HIDE DEF report, claim
    <3>2. disk.status = status /\ disk.report = report
      BY <3>1 DEF NoSession
    <3>3. status = "completed" => disk.report # None
      BY <3>2, NoneAssumption DEF report
    <3> QED
      BY <3>2, <3>3 DEF ReportKept, Init
  <2> QED
    BY <2>1, <2>2 DEF Init
<1> QED
  BY <1>1, <1>2 DEF OutcomeInv

\* The places that start, ask and lock leave the records alone.
LEMMA OutsideRecords ==
  ASSUME TypeOK, NEW p \in Proc,
         \/ Start(p) \/ WriteRequest(p) \/ RenameRequest(p) \/ AwaitResult(p)
         \/ Acquire(p) /\ UNCHANGED <<local, files, counts>>
  PROVE  /\ UNCHANGED <<disk, trail, restored, log>> /\ handoff' \in {handoff, Swept(disk)} /\ (stolen => stolen')
         /\ pc'[p] \notin Working
<1>1. UNCHANGED <<disk, trail, restored, log>> /\ handoff' \in {handoff, Swept(disk)} /\ (stolen => stolen')
  <2>1. CASE Start(p)
    BY <2>1 DEF Start, StartRun, StartResume, StartControl, StartRollback, ShowStatus, Refused, files, Begun, Look
  <2>2. CASE WriteRequest(p) \/ RenameRequest(p) \/ AwaitResult(p)
    BY <2>2 DEF WriteRequest, RenameRequest, AwaitResult, local, files
  <2>3. CASE Acquire(p) /\ UNCHANGED <<local, files, counts>>
    <3>1. stolen => stolen'
      BY <2>3 DEF Acquire, OpenLock, RecordOwner, JudgeOwner, UnlinkStale
    <3> QED
      BY <2>3, <3>1 DEF local, files
  <2> QED
    BY <2>1, <2>2, <2>3
<1>2. \E x \in Outside \cup {"record", "locked"} : Go(p, x)
  BY DEF Start, StartRun, StartResume, StartControl, StartRollback, ShowStatus, Refused, WriteRequest, RenameRequest,
         AwaitResult, Acquire, OpenLock, RecordOwner, JudgeOwner, UnlinkStale, Exit, Outside
<1>3. \A x \in Outside \cup {"record", "locked"} : x \notin Working
  BY DEF Outside, Working
<1> QED
  BY <1>1, <1>2, <1>3 DEF Go, TypeOK, FlowTyped

LEMMA NextOutcome ==
  ASSUME IInv, AbortInv, AbortInv', OutcomeInv, [Next]_vars
  PROVE  OutcomeInv'
<1>0. TypeOK /\ Found /\ LockInv /\ InStep
  BY DEF IInv
<1>1. CASE UNCHANGED vars
  <2>1. (\A q \in Proc : Still(q)) /\ UNCHANGED <<disk, trail, restored, handoff, stolen>>
    BY <1>1 DEF Still, vars, lockVars, local, files
  <2> QED
    BY <1>0, <2>1, StillOutcome
<1>2. ASSUME NEW p \in Proc, Write(p) \/ Control(p) \/ Compose(p) \/ Runtime(p)
      PROVE  OutcomeInv'
  <2>1. OwnerStep(p) /\ Others(p)
    BY <1>0, <1>2, WriteOwns, ControlOwns, ComposeOwns, RuntimeOwns, OneWrite, OneControl, OneCompose, OneRuntime
  <2> QED
    BY <1>0, <1>2, <2>1, OwnerOutcome
<1>3. ASSUME NEW p \in Proc,
             \/ Start(p) \/ WriteRequest(p) \/ RenameRequest(p) \/ AwaitResult(p)
             \/ Acquire(p) /\ UNCHANGED <<local, files, counts>>
      PROVE  OutcomeInv'
  <2>1. /\ UNCHANGED <<disk, trail, restored, log>> /\ handoff' \in {handoff, Swept(disk)} /\ (stolen => stolen')
        /\ pc'[p] \notin Working
    BY <1>0, <1>3, OutsideRecords
  <2>2. \A q \in Proc \ {p} : Same(q)
    BY <1>0, <1>3, OneOutside DEF Others
  <2>3. \A q \in Proc : pc'[q] \in Working => Still(q)
    BY <2>1, <2>2 DEF Same, Still
  <2> QED
    BY <1>0, <2>1, <2>3, StillOutcome
<1>4. ASSUME NEW p \in Proc, NEW x \in {"exited", "dead"}, Go(p, x), Forget(p), troubles' \in {troubles, troubles + 1},
             UNCHANGED <<files, stolen>>
      PROVE  OutcomeInv'
  <2>1. \A q \in Proc \ {p} : Same(q)
    BY <1>0, <1>4, OneEnd DEF Others
  <2>2. pc'[p] \notin Working /\ \A q \in Proc \ {p} : log'[q] = log[q]
    BY <1>0, <1>4 DEF Go, Forget, TypeOK, FlowTyped, ControlTyped, Working
  <2>3. \A q \in Proc : pc'[q] \in Working => Still(q)
    BY <2>1, <2>2 DEF Same, Still
  <2> QED
    BY <1>0, <1>4, <2>3, StillOutcome DEF files
<1>5. ASSUME NEW p \in Proc, ReleaseLock(p), Forget(p), UNCHANGED <<files, counts>>
      PROVE  OutcomeInv'
  BY <1>4, <1>5 DEF ReleaseLock, counts
<1>6. ASSUME NEW p \in Proc, Crash(p)
      PROVE  OutcomeInv'
  BY <1>4, <1>6 DEF Crash, Trouble
<1>7. ASSUME (\E p \in Proc : Monitor(p) \/ Signal(p)) \/ Edit
      PROVE  OutcomeInv'
  <2>1. (\A q \in Proc : Still(q)) /\ UNCHANGED <<disk, trail, restored, handoff, stolen>>
    BY <1>7 DEF Monitor, Signal, ReadRequest, Deliver, DropRequest, Edit, lockVars, local, files, Still
  <2> QED
    BY <1>0, <2>1, StillOutcome
<1> QED
  BY <1>1, <1>2, <1>3, <1>5, <1>6, <1>7 DEF Next, Step, Locking

\* The owner knows at every place what it has recorded so far.
THEOREM OutcomeInvariance == Spec => [](IInv /\ AbortInv /\ OutcomeInv)
<1>1. Init => IInv /\ AbortInv /\ OutcomeInv
  BY InitInv, InitAbort, InitOutcome
<1>2. IInv /\ AbortInv /\ OutcomeInv /\ [Next]_vars => (IInv /\ AbortInv /\ OutcomeInv)'
  BY NextInv, NextAbort, NextOutcome
<1> QED
  BY <1>1, <1>2, PTL DEF Spec

LEMMA RollbackFollows ==
  ASSUME IInv, OutcomeInv
  PROVE  RollbackRecorded
<1> SUFFICES ASSUME NEW p \in Proc, pc[p] = "stop", cmd[p] = "rollback", told[p] = "ok", ~ stolen
             PROVE  restored /\ disk.status = "rolled_back" /\ trail.undos = 1 /\ trail.ended
  BY DEF RollbackRecorded, At
<1>1. Going(p) = "stop" /\ Fate(p) = mem[p].status /\ ~ Undoing(p) /\ ~ Ending(p)
  BY DEF Going, Fate, Writing, Undoing, Ending
<1>2. UndoKept(p) /\ disk.status = mem[p].status
  BY DEF OutcomeInv, IInv, InStep, Working
<1> QED
  BY <1>1, <1>2 DEF UndoKept, Succeeding

\* A rollback that reports success has happened, is what the session on disk
\* says, and stands in the audit log once and with its end, whatever crashed and
\* was repeated before (commands.ts:757-880).
THEOREM RollbackRecordedHolds == Spec => []RollbackRecorded
BY OutcomeInvariance, RollbackFollows, PTL

LEMMA ChainFollows ==
  ASSUME IInv, OutcomeInv, [Next]_vars, trail.chain = "whole", trail'.chain = "forked"
  PROVE  stolen \/ \E p \in Proc : cmd[p] = "run" /\ handler[p] = "failed"
<1>0. trail' # trail
  OBVIOUS
<1>1. PICK p \in Proc : AppendEvent(p) \/ AppendFails(p)
  <2>1. ASSUME NEW p \in Proc, Control(p) \/ Compose(p) \/ Runtime(p)
        PROVE  trail' = trail
    <3>1. CASE Control(p)
      BY <3>1 DEF Control, ControlOwned, RollbackOwned, Announce, Invalidate, Conclude, Done, Alone
    <3>2. CASE Compose(p)
      BY <3>2 DEF Compose, RunOwned, Publish, ResumeOwned, ApproveGrant, Declined, Launch, Thrown, Failed, StopMonitor
    <3>3. CASE Runtime(p)
      BY <3>3 DEF Runtime, Startup, Work, Claim, Inspect, SaveReport, Conclusion, Answer, Caught, Finish, Stopping,
                  Leave, Report, Inside, Kept
    <3> QED
      BY <2>1, <3>1, <3>2, <3>3
  <2>2. ASSUME NEW p \in Proc,
               \/ Start(p) \/ WriteRequest(p) \/ RenameRequest(p) \/ AwaitResult(p)
               \/ Acquire(p) /\ UNCHANGED <<local, files, counts>>
        PROVE  trail' = trail
    BY <2>2, OutsideRecords DEF IInv
  <2>3. ASSUME NEW p \in Proc, (ReleaseLock(p) /\ UNCHANGED <<files, counts>>) \/ Monitor(p) \/ Signal(p) \/ Crash(p) \/ Edit
        PROVE  trail' = trail
    BY <2>3 DEF files, Monitor, ReadRequest, Deliver, DropRequest, Signal, Crash, Edit
  <2>4. ASSUME NEW p \in Proc, WriteState(p) \/ WriteFails(p) \/ Clear(p)
        PROVE  trail' = trail
    BY <2>4 DEF WriteState, WriteFails, Clear, files
  <2>5. PICK p \in Proc : Step(p) \/ Monitor(p) \/ Signal(p) \/ Crash(p) \/ Edit
    BY <1>0 DEF Next, vars, files, Edit
  <2> QED
    BY <1>0, <2>1, <2>2, <2>3, <2>4, <2>5 DEF Step, Locking, Write
<1>2. CASE AppendFails(p)
  <2>1. trail' = trail \/ trail' = [trail EXCEPT !.chain = "cut"]
    BY <1>2 DEF AppendFails
  <2> QED
    BY <2>1 DEF IInv, TypeOK, ControlTyped
<1>3. CASE AppendEvent(p)
  <2>1. pc[p] = "append" /\ log[p][Log(p)] = "stale"
    BY <1>3, AppendedParts DEF AppendEvent, At, IInv, TypeOK
  <2>2. ~ stolen => LogKept(p)
    BY <2>1 DEF OutcomeInv, Working
  <2> QED
    BY <2>1, <2>2, LastLog DEF IInv
<1> QED
  BY <1>1, <1>2, <1>3

\* No process appends to the audit log from a place it has not read it to the
\* end, so that the chain does not fork but for the catch of run, which goes on
\* with the log it began with (commands.ts:455).
THEOREM ChainKeptHolds == Spec => ChainKept
<1>1. IInv /\ OutcomeInv /\ [Next]_vars
        => [trail.chain = "whole" /\ trail'.chain = "forked"
              => stolen \/ \E p \in Proc : cmd[p] = "run" /\ handler[p] = "failed"]_vars
  BY ChainFollows
<1> QED
  BY <1>1, OutcomeInvariance, PTL DEF Spec, ChainKept

\* Who tells of success that the session ended otherwise has seen its report go.
LEMMA ToldFits ==
  ASSUME IInv, AbortInv, OutcomeInv, Next, NEW q \in Proc, told'[q] \in {"ok", "one", "two"} \ {told[q]},
         Ended(disk'), disk'.status # "completed", ~ stolen
  PROVE  handoff' = None
<1>0. TypeOK /\ told \in [Proc -> {"none", "ok", "one", "two", "error"}]
  BY DEF IInv, TypeOK, ControlTyped
<1>1. ASSUME NEW p \in Proc, Others(p)
      PROVE  q = p
  BY <1>1 DEF Others, Same
<1>2. ASSUME disk' = disk, handoff' = Swept(disk)
      PROVE  handoff' = None
  BY <1>2 DEF Swept
<1>3. ASSUME NEW x \in {"done", "declined", "report"}, pc[q] = x, UNCHANGED <<disk, handoff>>
      PROVE  handoff' = None
  <2>1. pc[q] \in Working \ Writing /\ pc[q] \in Leaving
    BY <1>3 DEF Working, Writing, Leaving
  <2>2. Going(q) = pc[q] /\ mem[q].status = disk.status /\ ReportFits(q)
    BY <2>1 DEF Going, OutcomeInv, IInv, InStep
  <2> QED
    BY <1>3, <2>1, <2>2 DEF ReportFits, Ended
<1>4. ASSUME NEW p \in Proc, Write(p) \/ Control(p) \/ Compose(p) \/ Runtime(p)
      PROVE  handoff' = None
  <2>0. q = p
    BY <1>0, <1>1, <1>4, OneWrite, OneControl, OneCompose, OneRuntime
  <2>1. CASE Write(p)
    BY <2>0, <2>1 DEF Write, WriteState, WriteFails, AppendEvent, AppendFails, Clear, local
  <2>2. CASE Control(p)
    <3>1. told' = told \/ ControlOwned(p) \/ Done(p)
      BY <2>2 DEF Control, RollbackOwned, Announce, Invalidate, Conclude
    <3>2. CASE ControlOwned(p)
      BY <1>2, <3>2 DEF ControlOwned, Alone, Reread
    <3>3. CASE Done(p)
      BY <1>3, <2>0, <3>3 DEF Done, Alone, At
    <3> QED
      BY <3>1, <3>2, <3>3
  <2>3. CASE Compose(p)
    <3>1. told' = told \/ Declined(p) \/ Failed(p)
      BY <2>3 DEF Compose, RunOwned, Publish, ResumeOwned, ApproveGrant, Launch, Thrown, StopMonitor
    <3>2. CASE Declined(p)
      BY <1>3, <2>0, <3>2 DEF Declined, At
    <3>3. CASE Failed(p)
      BY <1>0, <2>0, <3>3 DEF Failed, Stop
    <3> QED
      BY <3>1, <3>2, <3>3
  <2>4. CASE Runtime(p)
    <3>1. told' = told \/ Report(p)
      BY <2>4 DEF Runtime, Startup, Work, Claim, Inspect, SaveReport, Conclusion, Answer, Caught, Finish, Stopping, Leave, Inside
    <3>2. CASE Report(p)
      BY <1>3, <2>0, <3>2 DEF Report, At
    <3> QED
      BY <3>1, <3>2
  <2> QED
    BY <1>4, <2>1, <2>2, <2>3, <2>4
<1>5. ASSUME NEW p \in Proc, Start(p)
      PROVE  handoff' = None
  <2>0. q = p
    BY <1>0, <1>1, <1>5, OneOutside
  <2>1. CASE StartRun(p)
    BY <2>1 DEF StartRun
  <2>2. CASE Refused(p)
    BY <1>0, <2>0, <2>2 DEF Refused, Exit
  <2>3. CASE StartResume(p) \/ StartControl(p) \/ StartRollback(p) \/ ShowStatus(p)
    BY <1>2, <2>3 DEF StartResume, StartControl, StartRollback, ShowStatus, Look, Begun
  <2> QED
    BY <1>5, <2>1, <2>2, <2>3 DEF Start
<1>6. ASSUME NEW p \in Proc, AwaitResult(p)
      PROVE  handoff' = None
  BY <1>2, <1>6 DEF AwaitResult
<1>7. ASSUME NEW p \in Proc,
             \/ WriteRequest(p) \/ RenameRequest(p) \/ (Acquire(p) /\ UNCHANGED <<local, files, counts>>)
             \/ Monitor(p) \/ Signal(p) \/ Edit
      PROVE  handoff' = None
  BY <1>7 DEF WriteRequest, RenameRequest, Monitor, ReadRequest, Deliver, DropRequest, Signal, Edit, local
<1>8. ASSUME NEW p \in Proc, Forget(p)
      PROVE  handoff' = None
  BY <1>0, <1>8 DEF Forget
<1> QED
  BY <1>4, <1>5, <1>6, <1>7, <1>8 DEF Next, Step, Locking, Crash

\* There is a report exactly where there should be one: a completed session has
\* the one it refers to, and of a session that ended otherwise no command that
\* succeeds leaves one behind (completion-handoff-store.ts, store.ts:111,
\* terminal-cleanup.ts).
THEOREM ReportTruthHolds == Spec => ReportTruth
<1>1. ASSUME IInv, AbortInv, OutcomeInv, OutcomeInv', [Next]_vars
      PROVE  [ReportKept' /\ \A p \in Proc : ReportRetired(p)]_vars
  <2>1. ReportKept'
    BY <1>1 DEF OutcomeInv, ReportKept
  <2>2. Next => \A p \in Proc : ReportRetired(p)
    BY <1>1, ToldFits DEF ReportRetired
  <2> QED
    BY <1>1, <2>1, <2>2
<1> QED
  BY <1>1, OutcomeInvariance, PTL DEF Spec, ReportTruth
==============================================================================
