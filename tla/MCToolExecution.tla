---- MODULE MCToolExecution ----
(***************************************************************************)
(* Small instances of ToolExecution.  Operations are strings named for the *)
(* tool they stand for; what matters of a tool is whether it mutates,      *)
(* which counter it has and whether it leaves terminal evidence.           *)
(***************************************************************************)
EXTENDS ToolExecution

ToolOf ==
  [check |-> "run_command",
   shell |-> "terminal_exec",
   look  |-> "read_file",
   list  |-> "list_files"]

\* Two mutations of the two kinds that recover differently.
Mutations == {"check", "shell"}
ToolOfMutation == [o \in Mutations |-> ToolOf[o]]

\* Reads that may share a reply, and a terminal command that may not.
Batches == {"look", "list", "shell"}
ToolOfBatch == [o \in Batches |-> ToolOf[o]]
====
