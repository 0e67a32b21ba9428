-------------------------- MODULE MCUserDecisions ---------------------------
(***************************************************************************)
(* The policies a new installation starts with, with small numbers, and a  *)
(* session in the edit mode that may read and write one path of two.  The  *)
(* numbers are such that each budget runs out within three turns: turns,   *)
(* disclosed bytes and command output may be raised, operations may not.   *)
(***************************************************************************)
EXTENDS UserDecisions

MCMetrics == <<"turns", "operations", "read_files", "disclosed_bytes",
               "changed_files", "changed_lines", "commands", "command_output_bytes">>

Budgets(turns, operations, disclosed, lines, output) ==
  [turns |-> turns, operations |-> operations, read_files |-> 2,
   disclosed_bytes |-> disclosed, changed_files |-> 2, changed_lines |-> lines,
   commands |-> 2, command_output_bytes |-> output]

MCDefaultBudgets == Budgets(2, 2, 8, 1, 1)
MCCeilings == Budgets(3, 2, 10, 6, 4)

MCOrganization == DefaultOrganization({}, {}, MCCeilings, 8)
MCRepository == DefaultRepository({}, {}, MCCeilings)
MCGrant ==
  DefaultSessionGrant("edit", {"in"}, {"in"}, {"test"}, FALSE, MCDefaultBudgets).caps

Call(tool, paths, size, lines) ==
  [tool |-> tool, paths |-> paths, size |-> size, session |-> FALSE, invocation |-> 0,
   lines |-> lines, manifest |-> FALSE, gone |-> FALSE, command |-> << >>,
   network |-> [required |-> FALSE, hosts |-> << >>]]

On(path, access) == <<[path |-> path, access |-> access]>>

\* Two questions are due for the first: the path and the deletion.
Delete == Call("apply_patch", On("out", "delete"), 0, 1)
Read == Call("read_file", On("in", "read"), 1, 0)
Edit == Call("edit_text", On("in", "write"), 0, 3)
Stale == [Call("edit_text", On("in", "write"), 0, 1) EXCEPT !.gone = TRUE]
Test ==
  [Call("run_command", << >>, 0, 0) EXCEPT
     !.command = <<[id |-> "test", category |-> "test", risk |-> "high",
                    sideEffects |-> FALSE, timeout |-> 1, output |-> 3]>>]

List == Call("list_files", On("in", "read"), 2, 0)
Diff == [Call("git_diff", On("in", "read"), 2, 0) EXCEPT !.session = TRUE]

MCCalls == {Delete, Read, Edit, Stale, Test, List, Diff}

\* Less than what the command then takes; and what a call would ask for.
MCRequests == {<<[kind |-> "budget", metric |-> "command_output_bytes", limit |-> 2]>>,
               <<[kind |-> "path", access |-> "delete", path |-> "out"]>>}
=============================================================================
