--------------------------- MODULE RuntimePolicy ----------------------------
(***************************************************************************)
(* What stands between a call of the model and the policy: the operation   *)
(* that is judged is built from the call and from what has been used so    *)
(* far, a call that asks for more than it may have is cut down first, and  *)
(* an approval is applied for the session or for one operation             *)
(* (orchestrator/runtime-policy.ts, orchestrator/disclosure-budget.ts).    *)
(*                                                                         *)
(* A call is a record: the tool, its paths with the access to each, the    *)
(* bytes or results it asks for, the lines it changes, the command it      *)
(* names (none when the catalog does not know it).                         *)
(***************************************************************************)
EXTENDS PolicyEngine

CONSTANTS
  DefaultBudgets,     \* DEFAULT_POLICY_BUDGETS
  Classification,     \* what the repository's content is classified as
  Escape,             \* how many bytes a byte takes when it is escaped
  Envelope,           \* TOOL_RESULT_ENVELOPE_RESERVE_BYTES
  ControlReserve,     \* CONTROL_PLANE_RESERVE_BYTES
  EmergencyReserve,   \* EMERGENCY_NOTICE_RESERVE_BYTES
  EntryBytes,         \* LIST_FILES_ENTRY_BYTES
  ListBytes,          \* LIST_FILES_RESULT_BYTES
  MaxList,            \* MAX_LIST_FILES_RESULTS
  StatusBytes,        \* GIT_STATUS_RESULT_BYTES
  SampleBytes,        \* SESSION_DIFF_UNAVAILABLE_TERMINAL_PATH_SAMPLE_BYTES
  MaxOutput           \* TERMINAL_EXEC_MAX_OUTPUT_BYTES

ASSUME SizeAssumption ==
  /\ {Escape, Envelope, EmergencyReserve, EntryBytes, ListBytes, MaxList,
      StatusBytes, SampleBytes, MaxOutput} \subseteq Nat \ {0}
  /\ ControlReserve \in Nat /\ ControlReserve > EmergencyReserve
  /\ DOMAIN DefaultBudgets = {Metrics[i] : i \in DOMAIN Metrics}

AtMost(a, b) == IF a <= b THEN a ELSE b
AtLeast(a, b) == IF a >= b THEN a ELSE b

(* The budgets that can be exceeded for one operation. *)
OperationScoped == {"read_files", "changed_files", "changed_lines", "disclosed_bytes",
                    "commands", "command_output_bytes"}

Limit(e, metric) == EffectiveLimit(e, metric, DefaultBudgets[metric])

(* What a result may take in the page: its text and its paths, which count *)
(* one byte each here, at their worst escaping.                            *)
PlannedBytes(source, paths, plain) == Envelope + Escape * (source + paths) + plain

-----------------------------------------------------------------------------
(* Bounds that the policy puts on a call. *)

ListCeiling(e) == AtMost(MaxList, DisclosureLimit(e, "max_files", MaxList))
ListingDisabled(e) == DisclosureLimit(e, "max_files", MaxList) = 0

SessionDiff(call) == call.tool = "git_diff" /\ call.session
DiffRoom(e, call) == DisclosureLimit(e, "max_bytes", call.size + SampleBytes) - SampleBytes
DiffDisabled(e, call) == SessionDiff(call) /\ DiffRoom(e, call) < 1

EffectiveCall(e, call) ==
  IF call.tool = "list_files" THEN [call EXCEPT !.size = AtMost(@, ListCeiling(e))]
  ELSE IF SessionDiff(call) /\ ~DiffDisabled(e, call)
  THEN [call EXCEPT !.size = AtMost(@, DiffRoom(e, call))] ELSE call

(* The most output that fits, with what the invocation itself discloses.   *)
MaximumSource(bytes, fixed) ==
  LET fits == {n \in 0..AtMost(bytes, MaxOutput) : PlannedBytes(fixed + n, 0, 0) <= bytes}
  IN  IF fits = {} THEN 0 ELSE CHOOSE n \in fits : \A k \in fits : k <= n

TerminalOutput(e, call, usage) ==
  LET left == Limit(e, "disclosed_bytes") - usage["disclosed_bytes"] - ControlReserve
      perCall == DisclosureLimit(e, "max_bytes", MaxOutput)
  IN  AtLeast(1, Lowest({call.size, MaxOutput,
                         AtLeast(0, Limit(e, "command_output_bytes")
                                      - usage["command_output_bytes"]),
                         MaximumSource(AtLeast(0, left), call.invocation),
                         MaximumSource(perCall, call.invocation)}, 1))

-----------------------------------------------------------------------------
(* buildOperation. *)

Source(e, call, usage) ==
  CASE call.tool \in {"read_file", "search_text"} -> call.size
    [] call.tool = "list_files" -> AtMost(call.size * EntryBytes, ListBytes)
    [] call.tool = "git_diff" -> call.size
    [] call.tool = "git_status" -> StatusBytes
    [] call.tool = "run_command" -> call.command[1].output
    [] call.tool = "terminal_exec" -> TerminalOutput(e, call, usage) + call.invocation
    [] OTHER -> 0

Mutates(call) == "change" \in RequiredContext(call.tool)
RunsCommand(call) == call.tool \in {"run_command", "terminal_exec"}

Charged(e, call, usage, lines, planned) ==
  LET more == [m \in DOMAIN usage |->
        CASE m = "read_files" /\ call.tool = "read_file" -> 1
          [] m = "commands" /\ RunsCommand(call) -> 1
          [] m = "command_output_bytes" /\ call.tool = "run_command" -> call.command[1].output
          [] m = "command_output_bytes" /\ call.tool = "terminal_exec" ->
               TerminalOutput(e, call, usage)
          [] m = "changed_files" /\ Mutates(call) -> Len(call.paths)
          [] m = "changed_lines" /\ Mutates(call) -> lines
          [] m = "disclosed_bytes" -> planned + ControlReserve
          [] OTHER -> 0]
  IN  [m \in DOMAIN usage |-> usage[m] + more[m]]

BuildOperation(e, call, usage, lines) ==
  LET source == Source(e, call, usage)
      plain == IF SessionDiff(call) THEN SampleBytes ELSE 0
      planned == PlannedBytes(source, Len(call.paths), plain)
      Count(access) == Cardinality({i \in DOMAIN call.paths : call.paths[i].access = access})
  IN  [tool |-> call.tool, paths |-> call.paths, command |-> call.command,
       network |-> IF call.tool = "run_command" THEN <<call.network>> ELSE << >>,
       disclosure |-> IF Mutates(call) THEN << >>
                      ELSE <<[class |-> Classification, bytes |-> source + plain, secret |-> FALSE,
                              files |-> IF call.tool = "list_files" THEN call.size ELSE 1]>>,
       change |-> IF ~Mutates(call) THEN << >>
                  ELSE <<[files |-> Len(call.paths), lines |-> lines, creates |-> Count("create"),
                          deletes |-> Count("delete"), manifest |-> call.manifest,
                          commit |-> FALSE]>>,
       planned |-> planned, projected |-> Charged(e, call, usage, lines, planned)]

-----------------------------------------------------------------------------
(* authorize. *)

NoExpansion == << >>

(* What the operator is asked to approve for a key; a category has none.   *)
ExpansionFor(key, call, op) ==
  CASE key = NoKey -> NoExpansion
    [] key[1] = "tool" -> <<[kind |-> "tool", tool |-> call.tool]>>
    [] key[1] = "path" -> <<[kind |-> "path", access |-> key[2], path |-> key[3]]>>
    [] key[1] = "command" ->
         LET c == CommandOf(op)
         IN  <<[kind |-> "command", id |-> c.id, category |-> c.category, risk |-> c.risk]>>
    [] key[1] = "disclosure" -> <<[kind |-> "disclosure", class |-> key[2]]>>
    [] key[1] = "network" -> <<[kind |-> "network", host |-> key[2]]>>
    [] key[1] = "change" -> <<[kind |-> "change", change |-> key[2]]>>
    [] key[1] = "budget" ->
         <<[kind |-> "budget", metric |-> key[2], limit |-> op.projected[key[2]]]>>
    [] OTHER -> NoExpansion

Verdict(outcome) ==
  [outcome |-> outcome, key |-> NoKey, expansion |-> NoExpansion, planned |-> 0,
   mutation |-> << >>, once |-> << >>]

Judged(judged, call, op) ==
  [Verdict(judged.decision) EXCEPT
     !.key = judged.key,
     !.expansion = IF judged.decision = "ask" THEN ExpansionFor(judged.key, call, op)
                   ELSE NoExpansion,
     !.planned = op.planned,
     !.mutation = IF op.change = << >> THEN << >>
                  ELSE <<[files |-> op.change[1].files, lines |-> op.change[1].lines]>>]

DecisionFor(e, call, op) == Judged(Evaluate(e, op), call, op)

(* The lines of a change are counted once everything else allows it; the   *)
(* target of an edit may be gone by then.                                  *)
AfterCount(e, cut, usage, preliminary) ==
  IF preliminary.outcome # "allow" \/ ~Mutates(cut) THEN preliminary
  ELSE IF cut.gone THEN Verdict("conflict")
  ELSE DecisionFor(e, cut, BuildOperation(e, cut, usage, cut.lines))

JudgedCall(e, cut, usage) ==
  AfterCount(e, cut, usage, DecisionFor(e, cut, BuildOperation(e, cut, usage, 0)))

Authorize(e, call, usage) ==
  IF \/ call.tool = "list_files" /\ ListingDisabled(e)
     \/ DiffDisabled(e, call)
     \/ call.tool = "run_command" /\ ~HasCommand(call)
  THEN Verdict("deny") ELSE JudgedCall(e, EffectiveCall(e, call), usage)

-----------------------------------------------------------------------------
(* Approvals: a sequence of expansions, all of them or none.               *)

OutcomeOf(result, x) ==
  [engine |-> result.engine,
   outcome |-> IF result.decision # "deny" THEN "expanded"
               ELSE IF result.unavailable THEN "unavailable"
               ELSE IF x.kind = "budget" /\ result.sessionOnly THEN "no_op" ELSE "deny"]

Expanded(e, expansions, usage) ==
  LET Grow(grown, x) ==
        IF grown.outcome # "expanded" THEN grown
        ELSE OutcomeOf(ExpandGrant(grown.engine, x, usage, DefaultBudgets), x)
  IN  IF expansions = << >> THEN [outcome |-> "deny", engine |-> e]
      ELSE FoldLeft(Grow, [outcome |-> "expanded", engine |-> e], expansions)

(* assessSessionGrantExpansion: is there anything to ask the operator?     *)
Assessment(e, grown) ==
  IF grown.outcome # "expanded" THEN grown.outcome
  ELSE IF grown.engine.session.caps = e.session.caps THEN "no_op" ELSE "change"

Assess(e, expansions, usage) == Assessment(e, Expanded(e, expansions, usage))

(* authorizeOnce: judged by an engine that is not kept. *)
WithLimits(e, verdict, metrics) ==
  IF verdict.outcome # "allow" THEN verdict
  ELSE [verdict EXCEPT !.once = [m \in metrics |-> Limit(e, m)]]

AuthorizedOnce(grown, metrics, call, usage) ==
  IF ~(metrics \subseteq OperationScoped) \/ grown.outcome # "expanded" THEN Verdict("deny")
  ELSE WithLimits(grown.engine, Authorize(grown.engine, call, usage), metrics)

AuthorizeOnce(e, expansions, call, usage) ==
  AuthorizedOnce(Expanded(e, expansions, usage),
                 {x.metric : x \in {y \in Range(expansions) : y.kind = "budget"}},
                 call, usage)

=============================================================================
