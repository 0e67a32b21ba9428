---- MODULE BrowserSetup ----
(***************************************************************************)
(* Setting up the browser and starting live sessions, side by side: what   *)
(* src/cli/setup-transaction.ts does while it holds the configuration      *)
(* lock, the publication of a session in src/cli/commands.ts and the       *)
(* assessment of unfinished sessions in src/cli/session-recovery.ts.       *)
(*                                                                         *)
(* A setup process reads the configuration, looks for unfinished sessions, *)
(* works with the operator and a browser for a long time without the lock, *)
(* and then commits what it chose.  A run process loads the configuration  *)
(* and later publishes a session pinned to it.  A configuration stands for *)
(* the process that wrote it.  Edits by hand are left out (nothing orders  *)
(* them), and so are sessions on scripted transports, which pin nothing.   *)
(***************************************************************************)
EXTENDS BrowserConfigLock

CONSTANTS
  Setup,      \* processes that run setup; the others start sessions
  Original,   \* the configuration at the beginning, if there is one
  MaxFaults   \* bound on faults and failing writes in a behaviour

ASSUME SetupAssumption == Setup \subseteq Proc
ASSUME OriginalAssumption == Original \notin Proc \cup {None}
ASSUME FaultAssumption == MaxFaults \in Nat

VARIABLES
  \* state home
  config,    \* browser.json: who wrote it, None if there is no such file
  policy,    \* organization policy: who wrote it
  session,   \* how far the session of each run process has come
  pinned,    \* configuration in the session's runtime manifest
  \* the processes
  step,      \* where each command is
  baseline,  \* configuration each command began with
  writes,    \* files a setup process means to write
  faults

stateHome == <<config, policy, session, pinned>>
command == <<step, baseline, writes>>
vars == <<lockVars, stateHome, command, faults>>

Run == Proc \ Setup

SessionStatus == {"none", "unreadable", "starting", "pending", "pinned", "ended"}
Files == {"policy", "config"}
Steps == {"begin", "scan", "work", "verify", "reverify", "policy", "newpolicy", "config",
          "pin", "directory", "state", "grant", "manifest", "exit"}

Init ==
  /\ LockInit
  /\ config \in {None, Original} /\ policy \in {None, Original}
  /\ session = [p \in Run |-> "none"] /\ pinned = [p \in Run |-> None]
  /\ step = [p \in Proc |-> "begin"]
  /\ baseline = [p \in Proc |-> None]
  /\ writes = [p \in Proc |-> {}]
  /\ faults = 0

At(p, s) == step[p] = s
Then(p, s) == step' = [step EXCEPT ![p] = s]
Held(p) == pc[p] = "held" /\ UNCHANGED lockVars
Fault == faults < MaxFaults /\ faults' = faults + 1

-----------------------------------------------------------------------------
(* Setup *)

\* What is there is read, and whether the selected browser, the account and the
\* page call for a configuration to be written is decided from it.
BeginSetup(p) ==
  /\ p \in Setup /\ At(p, "begin") /\ BeginAcquire(p)
  /\ baseline' = [baseline EXCEPT ![p] = config]
  /\ \E ws \in {{"config"}, {}} :
       writes' = [writes EXCEPT ![p] = IF policy = None THEN ws \cup {"policy"} ELSE ws]
  /\ Then(p, "scan")
  /\ UNCHANGED <<stateHome, faults>>

\* Mutant: only sessions whose startup is incomplete are in the way.
UnfinishedStartups == {s \in Run : session[s] \in {"unreadable", "starting"}}

\* liveBrowserSetupBlockers: unfinished sessions, resumable or not.
Unfinished == {s \in Run : session[s] \notin {"none", "ended"}}

Release(p, s) ==
  /\ BeginRelease(p) /\ Then(p, s)
  /\ UNCHANGED <<stateHome, baseline, writes>>

\* An error inside the transaction releases the lock on the way out.
Refuse(p) == Release(p, "exit") /\ UNCHANGED faults
Break(p) == Release(p, "exit") /\ Fault

EarlyScan(p) ==
  /\ At(p, "scan") /\ Release(p, IF Unfinished = {} THEN "work" ELSE "exit")
  /\ UNCHANGED faults

\* Browser selection, prompts and sign-in are over.
BeginCommit(p) ==
  /\ At(p, "work") /\ BeginAcquire(p) /\ Then(p, "verify")
  /\ UNCHANGED <<stateHome, baseline, writes, faults>>

\* Mutant: setup does not look whether the configuration is still its baseline.
BaselineIgnored(p) == TRUE
\* assertBaselineUnchanged
BaselineUnchanged(p) == config = baseline[p]

Proceed(p, s) ==
  /\ Held(p) /\ Then(p, s)
  /\ UNCHANGED <<stateHome, baseline, writes, faults>>

\* Before and after the browser is looked at again.
Verify(p, before, after) ==
  /\ At(p, before)
  /\ IF BaselineUnchanged(p) /\ Unfinished = {} THEN Proceed(p, after) ELSE Refuse(p)

\* revalidate and the two writes may fail.
CommitFails(p) ==
  /\ step[p] \in {"reverify", "policy", "newpolicy", "config"}
  /\ Break(p)

\* Mutant: the policy is written without looking.
PolicyAssumed(p) == At(p, "policy") /\ Proceed(p, IF "policy" \in writes[p] THEN "newpolicy" ELSE "config")

CheckPolicy(p) ==
  /\ At(p, "policy")
  /\ IF "policy" \notin writes[p] THEN Proceed(p, "config")
     ELSE IF policy = None THEN Proceed(p, "newpolicy")
     ELSE Refuse(p)

WritePolicy(p) ==
  /\ At(p, "newpolicy") /\ Held(p)
  /\ policy' = p /\ Then(p, "config")
  /\ UNCHANGED <<config, session, pinned, baseline, writes, faults>>

WriteConfig(p) ==
  /\ At(p, "config") /\ BeginRelease(p)
  /\ config' = (IF "config" \in writes[p] THEN p ELSE config) /\ Then(p, "exit")
  /\ UNCHANGED <<policy, session, pinned, baseline, writes, faults>>

-----------------------------------------------------------------------------
(* Starting a session *)

\* Without a configuration there is no live session.
BeginRun(p) ==
  /\ p \in Run /\ At(p, "begin") /\ config # None /\ BeginAcquire(p)
  /\ baseline' = [baseline EXCEPT ![p] = config] /\ Then(p, "pin")
  /\ UNCHANGED <<stateHome, writes, faults>>

\* pinBrowserConfigurationForSession: BROWSER_CONFIG_START_RACE
PinConfiguration(p) ==
  /\ At(p, "pin")
  /\ IF BaselineUnchanged(p) THEN Proceed(p, "directory") ELSE Refuse(p)

\* publishSession, one durable write after the other
Publish(p, from, s, to) ==
  /\ At(p, from) /\ Held(p) /\ Then(p, to)
  /\ session' = [session EXCEPT ![p] = s]
  /\ UNCHANGED <<config, policy, pinned, baseline, writes, faults>>

CreateDirectory(p) == Publish(p, "directory", "unreadable", "state")
CreateState(p) == Publish(p, "state", "starting", "grant")
PersistGrantPending(p) == Publish(p, "grant", "pending", "manifest")

\* The configuration in the manifest is the one loaded under the lock.
WriteManifest(p) ==
  /\ At(p, "manifest") /\ BeginRelease(p)
  /\ session' = [session EXCEPT ![p] = "pinned"]
  /\ pinned' = [pinned EXCEPT ![p] = config]
  /\ Then(p, "exit")
  /\ UNCHANGED <<config, policy, baseline, writes, faults>>

PublishFails(p) ==
  /\ step[p] \in {"directory", "state", "grant", "manifest"}
  /\ Break(p)

\* The session ends in its process, or the operator aborts what is left of it.
\* Nobody can abort a session without a readable session.json.
EndSession(p) ==
  /\ session[p] \in {"starting", "pending", "pinned"}
  /\ Gone(p) \/ pc[p] = "out"
  /\ session' = [session EXCEPT ![p] = "ended"]
  /\ UNCHANGED <<lockVars, config, policy, pinned, command, faults>>

-----------------------------------------------------------------------------

\* What a process knew goes with it; what a session began with is kept, as the
\* history that NoStrandedSession compares with.
Forget(p) ==
  /\ Then(p, "exit")
  /\ writes' = [writes EXCEPT ![p] = {}]
  /\ baseline' = IF p \in Setup THEN [baseline EXCEPT ![p] = None] ELSE baseline

Exit(p) ==
  /\ At(p, "exit") /\ Step(p, "out", "done") /\ Forget(p)
  /\ UNCHANGED <<files, stateHome, faults>>

Crash(p) == Fault /\ Die(p) /\ Forget(p) /\ UNCHANGED stateHome

UseLock(p) ==
  /\ LockStep(p)
  /\ IF pc'[p] = "done" THEN Forget(p) ELSE UNCHANGED command
  /\ UNCHANGED <<stateHome, faults>>

LockFails(p) == Fault /\ OwnerFails(p) /\ UNCHANGED <<stateHome, command>>

SetupStep(p) ==
  \/ BeginSetup(p) \/ EarlyScan(p) \/ BeginCommit(p)
  \/ Verify(p, "verify", "reverify") \/ Verify(p, "reverify", "policy")
  \/ CommitFails(p) \/ CheckPolicy(p) \/ WritePolicy(p) \/ WriteConfig(p)

RunStep(p) ==
  \/ BeginRun(p) \/ PinConfiguration(p)
  \/ CreateDirectory(p) \/ CreateState(p) \/ PersistGrantPending(p)
  \/ WriteManifest(p) \/ PublishFails(p)

Next ==
  \/ \E p \in Proc : UseLock(p) \/ LockFails(p) \/ SetupStep(p) \/ RunStep(p) \/ Exit(p) \/ Crash(p)
  \/ \E p \in Run : EndSession(p)

\* File-system calls return; nobody is made to begin, to commit or to end.
Spec == Init /\ [][Next]_vars /\ \A p \in Proc : WF_vars(UseLock(p))

-----------------------------------------------------------------------------
(* Properties *)

Configurations == Proc \cup {None, Original}

TypeOK ==
  /\ LockTypeOK
  /\ config \in Configurations /\ policy \in Configurations
  /\ session \in [Run -> SessionStatus] /\ pinned \in [Run -> Configurations]
  /\ step \in [Proc -> Steps] /\ baseline \in [Proc -> Configurations]
  /\ writes \in [Proc -> SUBSET Files] /\ faults \in 0..MaxFaults

\* While a session is unfinished, the configuration stays the one its process
\* was checked with, and its manifest, once there, names it: setup strands no
\* session, however long ago it looked for unfinished ones.
NoStrandedSession ==
  \A s \in Run : session[s] \notin {"none", "ended"} =>
    /\ config = baseline[s]
    /\ session[s] = "pinned" => pinned[s] = config

\* A setup replaces the configuration it began with and no other: of two that
\* began alike, one is turned away.
NoLostSetup == [][config' # config => config = baseline[config']]_vars

\* A machine policy that is there is never replaced by setup, though a setup
\* that died between its two writes leaves one behind that the next one does
\* not expect.
PolicyKept == [][policy # None => policy' = policy]_vars

\* Whoever asks for the lock gets it or is turned away, whatever is left of
\* earlier owners and contenders.
LockAnswers ==
  \A p \in Proc : (pc[p] \in Acquiring) ~> (pc[p] \in {"held", "done", "dead"})
====
