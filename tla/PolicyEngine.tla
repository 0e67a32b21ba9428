---------------------------- MODULE PolicyEngine ----------------------------
(***************************************************************************)
(* The layered policy of src/policy: three layers of rules (organization,  *)
(* repository, session), of which the strictest decides, and the session   *)
(* layer, which grows with what the operator approves.                     *)
(*                                                                         *)
(* Everything here is a function of its arguments.  An engine is its       *)
(* layers, the mode of the session and the keys approved so far.  The      *)
(* capabilities of a layer are a record that lacks what the document does  *)
(* not say; a rule set likewise.  Patterns are names or Everything; names  *)
(* are compared as they are, the folding of case is left out.              *)
(***************************************************************************)
EXTENDS Integers, Sequences, SequencesExt

CONSTANTS
  Paths,      \* the paths that lie in the repository
  Metrics     \* the budget metrics looked at, in their order (BUDGET_METRICS)

ASSUME MetricAssumption == Metrics # << >> /\ IsInjective(Metrics)

Everything == "**"
NoKey == << >>

Strictest(decisions) ==
  IF "deny" \in decisions THEN "deny"
  ELSE IF "ask" \in decisions THEN "ask" ELSE "allow"

(* An optional field of a document. *)
Given(document, field, otherwise) ==
  IF field \in DOMAIN document THEN document[field] ELSE otherwise

With(document, field, value) ==
  [f \in DOMAIN document \cup {field} |->
     IF f = field THEN value ELSE document[f]]

Lowest(numbers, otherwise) ==
  IF numbers = {} THEN otherwise
  ELSE CHOOSE n \in numbers : \A k \in numbers : n <= k

Covered(value, patterns) == value \in patterns \/ Everything \in patterns

DecideRule(rules, value, default) ==
  LET Names(decision) == Covered(value, Given(rules, decision, {}))
  IN  IF Names("deny") THEN "deny"
      ELSE IF Names("ask") THEN "ask"
      ELSE IF Names("allow") THEN "allow"
      ELSE Given(rules, "unmatched", default)

(* What the catalog of tools requires to be known of a call before it can  *)
(* be judged.                                                              *)
RequiredContext(tool) ==
  CASE tool \in {"list_files", "search_text", "read_file"} -> {"path"}
    [] tool \in {"edit_text", "apply_patch"} -> {"path", "change"}
    [] tool = "run_command" -> {"command", "network"}
    [] OTHER -> {}

-----------------------------------------------------------------------------
(* An engine. *)

Layers(e) == <<e.organization, e.repository, e.session>>
Higher(e) == <<e.organization, e.repository>>

Limits(layers, metric) ==
  {Given(layers[i].caps, "budgets", << >>)[metric] :
     i \in {j \in DOMAIN layers :
              metric \in DOMAIN Given(layers[j].caps, "budgets", << >>)}}

(* getEffectiveBudgetLimits, with what stands in when no layer says more. *)
EffectiveLimit(e, metric, otherwise) == Lowest(Limits(Layers(e), metric), otherwise)

(* getEffectiveDisclosureLimits: field is "max_bytes" or "max_files". *)
DisclosureLimit(e, field, otherwise) ==
  Lowest({Layers(e)[i].caps[field] :
            i \in {j \in 1..3 : field \in DOMAIN Layers(e)[j].caps}}, otherwise)

Approved(e, key) ==
  \/ key \in e.approved
  \/ key # NoKey /\ key[1] = "network" /\ <<"network", "*">> \in e.approved

-----------------------------------------------------------------------------
(* The checks of one operation, in the order of evaluate: the first of the *)
(* strictest ones is the one the operator is asked about.                  *)

Check(layer, dimension, decision, key) ==
  <<[layer |-> layer, dimension |-> dimension, decision |-> decision, key |-> key]>>

Refusal(layer, dimension) == Check(layer, dimension, "deny", NoKey)

Where(condition, checks) == IF condition THEN checks ELSE << >>

(* An approval of the session satisfies an ask of any layer, never a deny. *)
ResolveCheck(e, layer, dimension, decision, key) ==
  Check(layer, dimension,
        IF decision = "ask" /\ Approved(e, key) THEN "allow" ELSE decision, key)

PerLayer(e, Checks(_)) == Checks(e.organization) \o Checks(e.repository) \o Checks(e.session)

CommandOf(op) == op.command[1]
HasCommand(op) == op.command # << >>

ModeChecks(e, op) ==
  Where(/\ e.mode = "inspect"
        /\ \/ op.tool = "terminal_exec"
           \/ "change" \in RequiredContext(op.tool)
           \/ \E i \in DOMAIN op.paths : op.paths[i].access # "read",
        Refusal("session", "mode"))
  \o Where(/\ e.mode = "inspect" /\ op.tool = "run_command"
           /\ HasCommand(op) /\ CommandOf(op).sideEffects,
           Refusal("session", "mode"))
  \o Where(/\ e.mode = "edit" /\ HasCommand(op) /\ CommandOf(op).risk = "high",
           ResolveCheck(e, "session", "mode", "ask", <<"command", CommandOf(op).id>>))

ToolChecks(e, op) ==
  PerLayer(e, LAMBDA l :
    ResolveCheck(e, l.name, "tool",
                 DecideRule(Given(l.caps, "tools", << >>), op.tool, l.default),
                 <<"tool", op.tool>>))

ContextChecks(op) ==
  LET Missing(context, absent) ==
        Where(context \in RequiredContext(op.tool) /\ absent,
              Refusal("organization", context))
  IN  Missing("path", op.paths = << >>) \o Missing("command", op.command = << >>)
      \o Missing("network", op.network = << >>) \o Missing("change", op.change = << >>)

(* The inventory of a patch: its paths differ, all are written, and the    *)
(* counts are theirs.                                                      *)
InventoryAgrees(op) ==
  LET Count(access) == Cardinality({i \in DOMAIN op.paths : op.paths[i].access = access})
      change == op.change[1]
  IN  /\ \A i \in DOMAIN op.paths : op.paths[i].access # "read"
      /\ \A i, j \in DOMAIN op.paths : op.paths[i].path = op.paths[j].path => i = j
      /\ change.files = Len(op.paths)
      /\ change.creates = Count("create") /\ change.deletes = Count("delete")

FactChecks(op) ==
  Where(HasCommand(op) /\ CommandOf(op).timeout < 1, Refusal("organization", "command"))
  \o Where(op.network # << >> /\ (op.network[1].required <=> op.network[1].hosts = << >>),
           Refusal("organization", "network"))
  \o Where("change" \in RequiredContext(op.tool) /\ op.change # << >> /\ ~InventoryAgrees(op),
           Refusal("organization", "change"))

PathRules(l, access) ==
  IF access \in DOMAIN l.caps THEN l.caps[access]
  ELSE IF access \in {"create", "delete"} THEN Given(l.caps, "write", << >>)
  ELSE << >>

PathChecks(e, path, access) ==
  IF path \notin Paths THEN Refusal("organization", "path")
  ELSE PerLayer(e, LAMBDA l :
         IF \/ access # "read" /\ Covered(path, Given(l.caps, "protected", {}))
            \/ Covered(path, Given(l.caps, "excluded", {}))
         THEN Refusal(l.name, "path")
         ELSE ResolveCheck(e, l.name, "path",
                           DecideRule(PathRules(l, access), path, l.default),
                           <<"path", access, path>>))

(* A category has a key of its own, which no approval ever carries. *)
CommandChecks(e, op) ==
  LET c == CommandOf(op) key == <<"command", c.id>>
  IN  PerLayer(e, LAMBDA l :
        ResolveCheck(e, l.name, "command",
                     DecideRule(Given(l.caps, "ids", << >>), c.id, l.default), key)
        \o ResolveCheck(e, l.name, "command",
                        DecideRule(Given(l.caps, "categories", << >>), c.category, l.default),
                        <<"command-category", c.category>>)
        \o ResolveCheck(e, l.name, "command", Given(l.caps, c.risk, l.default), key)
        \o Where(c.sideEffects,
                 ResolveCheck(e, l.name, "command",
                              Given(l.caps, "side_effects", l.default), key))
        \o Where(c.timeout > Given(l.caps, "max_timeout", c.timeout),
                 Refusal(l.name, "command")))

OnLimit(l, field) ==
  Given(l.caps, field, IF l.name = "session" THEN "ask" ELSE "deny")

(* The ceilings of one operation are asked about under the key of the      *)
(* cumulative budget.                                                      *)
DisclosureChecks(e, op) ==
  LET d == op.disclosure[1]
      Over(l, field, amount) ==
        Where(amount > Given(l.caps, field, amount),
              ResolveCheck(e, l.name, "disclosure", OnLimit(l, "budget_exceeded"),
                           <<"budget", "disclosed_bytes">>))
  IN  Where(d.secret, Refusal("organization", "disclosure"))
      \o PerLayer(e, LAMBDA l :
           ResolveCheck(e, l.name, "disclosure",
                        DecideRule(Given(l.caps, "classes", << >>), d.class, l.default),
                        <<"disclosure", d.class>>)
           \o Over(l, "max_bytes", d.bytes) \o Over(l, "max_files", d.files))

NetworkChecks(e, op) ==
  PerLayer(e, LAMBDA l :
    LET access == Given(l.caps, "network", l.default)
    IN  ResolveCheck(e, l.name, "network", access, <<"network", "*">>)
        \o FlattenSeq([i \in DOMAIN op.network[1].hosts |->
             ResolveCheck(e, l.name, "network",
                          DecideRule(Given(l.caps, "hosts", << >>),
                                     op.network[1].hosts[i], access),
                          <<"network", op.network[1].hosts[i]>>)]))

ChangeChecks(e, op) ==
  LET change == op.change[1]
      Kind(l, kind, applies) ==
        Where(applies, ResolveCheck(e, l.name, "change", Given(l.caps, kind, l.default),
                                    <<"change", kind>>))
  IN  PerLayer(e, LAMBDA l :
        Kind(l, "create_file", change.creates > 0)
        \o Kind(l, "delete_file", change.deletes > 0)
        \o Kind(l, "dependency_manifest", change.manifest)
        \o Kind(l, "local_commit", change.commit)
        \o Where(\/ change.files > Given(l.caps, "max_changed_files", change.files)
                 \/ change.lines > Given(l.caps, "max_changed_lines", change.lines),
                 ResolveCheck(e, l.name, "change", OnLimit(l, "on_limit_exceeded"),
                              <<"budget", "changed_lines">>)))

BudgetChecks(e, op) ==
  PerLayer(e, LAMBDA l :
    FlattenSeq([i \in DOMAIN Metrics |->
      LET metric == Metrics[i]
          projected == op.projected[metric]
      IN  Where(projected > Given(Given(l.caps, "budgets", << >>), metric, projected),
                ResolveCheck(e, l.name, "budget", OnLimit(l, "budget_exceeded"),
                             <<"budget", metric>>))]))

AllChecks(e, op) ==
  ModeChecks(e, op) \o ToolChecks(e, op) \o ContextChecks(op) \o FactChecks(op)
  \o FlattenSeq([i \in DOMAIN op.paths |->
       PathChecks(e, op.paths[i].path, op.paths[i].access)])
  \o (IF HasCommand(op) THEN CommandChecks(e, op) ELSE << >>)
  \o (IF op.disclosure # << >> THEN DisclosureChecks(e, op) ELSE << >>)
  \o (IF op.network # << >> /\ op.network[1].required THEN NetworkChecks(e, op) ELSE << >>)
  \o (IF op.change # << >> THEN ChangeChecks(e, op) ELSE << >>)
  \o BudgetChecks(e, op)

(* finish, with the check that is told first: the first of the strictest.  *)
Told(decision, checks) ==
  [decision |-> decision, checks |-> checks,
   key |-> IF decision = "allow" THEN NoKey
           ELSE Head(SelectSeq(checks, LAMBDA c : c.decision = decision)).key]

Finish(checks) == Told(Strictest({checks[i].decision : i \in DOMAIN checks}), checks)

Evaluate(e, op) == Finish(AllChecks(e, op))

-----------------------------------------------------------------------------
(* The growth of the session layer.  An expansion is what the operator is  *)
(* asked to approve: [kind, ...] with the fields of its kind.              *)

ExpansionKey(x) ==
  CASE x.kind = "tool" -> <<"tool", x.tool>>
    [] x.kind = "path" -> <<"path", x.access, x.path>>
    [] x.kind = "command" -> <<"command", x.id>>
    [] x.kind = "disclosure" -> <<"disclosure", x.class>>
    [] x.kind = "network" -> <<"network", x.host>>
    [] x.kind = "change" -> <<"change", x.change>>
    [] x.kind = "budget" -> <<"budget", x.metric>>

(* What a higher layer says of an expansion. *)
ExpansionDecision(l, x) ==
  CASE x.kind = "tool" -> DecideRule(Given(l.caps, "tools", << >>), x.tool, l.default)
    [] x.kind = "path" ->
         IF \/ x.path \notin Paths
            \/ Covered(x.path, Given(l.caps, "excluded", {}))
            \/ x.access # "read" /\ Covered(x.path, Given(l.caps, "protected", {}))
         THEN "deny" ELSE DecideRule(PathRules(l, x.access), x.path, l.default)
    [] x.kind = "command" ->
         Strictest({DecideRule(Given(l.caps, "ids", << >>), x.id, l.default),
                    DecideRule(Given(l.caps, "categories", << >>), x.category, l.default),
                    Given(l.caps, x.risk, l.default)})
    [] x.kind = "disclosure" -> DecideRule(Given(l.caps, "classes", << >>), x.class, l.default)
    [] x.kind = "network" ->
         LET access == Given(l.caps, "network", l.default)
         IN  IF x.host = "*" THEN access
             ELSE Strictest({access, DecideRule(Given(l.caps, "hosts", << >>), x.host, access)})
    [] x.kind = "change" -> Given(l.caps, x.change, l.default)
    [] x.kind = "budget" ->
         IF x.limit > Given(Given(l.caps, "budgets", << >>), x.metric, x.limit)
         THEN "deny" ELSE "allow"

AddAllowed(rules, value) ==
  LET Without(field) == Given(rules, field, {}) \ {value}
  IN  With(With(With(rules, "allow", Given(rules, "allow", {}) \cup {value}),
                "ask", Without("ask")), "deny", Without("deny"))

(* A command brings its risk with it, a host its network. *)
ApplyExpansion(caps, x) ==
  LET Adding(c, field, value) == With(c, field, AddAllowed(Given(c, field, << >>), value))
  IN  CASE x.kind = "tool" -> Adding(caps, "tools", x.tool)
        [] x.kind = "path" -> Adding(caps, x.access, x.path)
        [] x.kind = "command" ->
             With(Adding(Adding(caps, "ids", x.id), "categories", x.category), x.risk, "allow")
        [] x.kind = "disclosure" -> Adding(caps, "classes", x.class)
        [] x.kind = "network" ->
             With(IF x.host = "*" THEN caps ELSE Adding(caps, "hosts", x.host), "network", "allow")
        [] x.kind = "change" -> With(caps, x.change, "allow")
        [] x.kind = "budget" ->
             With(caps, "budgets", With(Given(caps, "budgets", << >>), x.metric, x.limit))

(* The smallest limit that would be worth asking for. *)
MinimumAcceptable(e, metric, usage, default) ==
  LET limit == EffectiveLimit(e, metric, default[metric])
  IN  (IF limit > usage[metric] THEN limit ELSE usage[metric]) + 1

(* The ceiling above the session. *)
Ceiling(e, metric, otherwise) == Lowest(Limits(Higher(e), metric), otherwise)

Grown(e, x) ==
  [e EXCEPT !.session.caps = ApplyExpansion(@, x), !.approved = @ \cup {ExpansionKey(x)}]

DeniedBySession(e, x) ==
  \/ e.mode = "inspect" /\ x.kind = "path" /\ x.access # "read"
  \/ /\ x.kind = "tool"
     /\ x.tool \in Given(Given(e.session.caps, "tools", << >>), "deny", {})

(* Nothing above the session may be passed; a budget must also be worth    *)
(* asking for.                                                             *)
Expansion(e, x, higher, unavailable, ofSession) ==
  [decision |-> IF unavailable \/ ofSession THEN "deny" ELSE Strictest(higher),
   unavailable |-> unavailable,
   sessionOnly |-> ofSession /\ ~unavailable /\ "deny" \notin higher,
   engine |-> IF unavailable \/ ofSession \/ "deny" \in higher THEN e ELSE Grown(e, x)]

ExpandGrant(e, x, usage, default) ==
  LET minimum == MinimumAcceptable(e, x.metric, usage, default)
      budget == x.kind = "budget"
  IN  Expansion(e, x, {ExpansionDecision(Higher(e)[i], x) : i \in 1..2},
                budget /\ minimum > Ceiling(e, x.metric, minimum),
                (budget /\ x.limit < minimum) \/ DeniedBySession(e, x))

-----------------------------------------------------------------------------
(* The documents a new installation starts with (defaults.ts); the numbers *)
(* are the caller's.                                                       *)

DefaultTools == {"list_files", "search_text", "read_file", "git_status", "git_diff",
                 "edit_text", "apply_patch", "run_command", "request_user_input",
                 "request_capability", "complete_task"}

DefaultOrganization(excluded, protected, budgets, maxBytes) ==
  [name |-> "organization", default |-> "allow",
   caps |->
     [tools |-> [allow |-> DefaultTools, deny |-> {"terminal_exec"}],
      excluded |-> excluded, protected |-> protected,
      low |-> "allow", medium |-> "allow", high |-> "ask", side_effects |-> "allow",
      classes |-> [allow |-> {"public", "internal"}, ask |-> {"confidential"},
                   deny |-> {"restricted", "secret", "credential"}, unmatched |-> "deny"],
      max_bytes |-> maxBytes, network |-> "deny",
      create_file |-> "allow", delete_file |-> "allow", dependency_manifest |-> "ask",
      local_commit |-> "deny", on_limit_exceeded |-> "deny",
      budgets |-> budgets, budget_exceeded |-> "deny"]]

DefaultRepository(excluded, protected, budgets) ==
  [name |-> "repository", default |-> "allow",
   caps |->
     [tools |-> [allow |-> DefaultTools, deny |-> {"terminal_exec"}],
      excluded |-> excluded, protected |-> protected,
      low |-> "allow", medium |-> "allow", high |-> "ask", side_effects |-> "allow",
      network |-> "deny",
      create_file |-> "allow", delete_file |-> "ask", dependency_manifest |-> "ask",
      local_commit |-> "deny", on_limit_exceeded |-> "ask",
      budgets |-> budgets, budget_exceeded |-> "deny"]]

(* createDefaultSessionGrant. *)
DefaultSessionGrant(mode, readable, writable, ids, terminal, budgets) ==
  LET writes == [allow |-> writable, unmatched |-> "ask"]
      tools == IF terminal
               THEN [allow |-> DefaultTools \cup {"terminal_exec"}, unmatched |-> "ask"]
               ELSE [allow |-> DefaultTools, deny |-> {"terminal_exec"}, unmatched |-> "ask"]
  IN  [name |-> "session", default |-> "ask",
       caps |->
         [tools |-> tools,
          read |-> [allow |-> readable, unmatched |-> "ask"],
          write |-> writes, create |-> writes, delete |-> writes,
          ids |-> [allow |-> ids, unmatched |-> "ask"],
          categories |-> [unmatched |-> "allow"],
          low |-> "allow", medium |-> IF mode = "auto" THEN "allow" ELSE "ask", high |-> "ask",
          side_effects |-> IF mode = "inspect" THEN "deny" ELSE "allow",
          classes |-> [allow |-> {"public", "internal"}, unmatched |-> "ask"],
          network |-> "deny",
          create_file |-> IF mode = "inspect" THEN "deny" ELSE "allow",
          delete_file |-> IF mode = "auto" THEN "allow" ELSE "ask",
          dependency_manifest |-> "ask", local_commit |-> "deny",
          on_limit_exceeded |-> "ask", budgets |-> budgets, budget_exceeded |-> "ask"]]

=============================================================================
