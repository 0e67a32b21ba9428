---- MODULE MCTerminalCommand ----
(***************************************************************************)
(* For what is observed, two paths: f, dirty before the session and not in *)
(* a checkpoint, and g, which HEAD may or may not have and which is too    *)
(* large to be retained.  For the processes one path, too large as well,   *)
(* that is a blob of the object store or is not.                           *)
(***************************************************************************)
EXTENDS TerminalCommand

MCOrder == <<"f", "g">>
Files(f, g) == [p \in Path |-> IF p = "f" THEN f ELSE g]
MCWorktree ==
  {[files |-> Files("b", "a"), tree |-> Files("a", "a")],
   [files |-> Files("b", Absent), tree |-> Files("a", Absent)]}

OneOrder == <<"f">>
OneWorktree == {[files |-> Files("b", "b"), tree |-> Files("a", "a")],
                [files |-> Files("b", "b"), tree |-> Files("b", "b")]}
====
