---- MODULE MCCompletion ----
(***************************************************************************)
(* A small instance of Completion: a small file f inside the grant and a   *)
(* large one, g, outside of it.                                            *)
(***************************************************************************)
EXTENDS Completion, TLC

MCOrder == <<"f", "g">>

\* The user's work lies in f, or in g, where only a digest is kept of it.
MCWorktree ==
  LET clean == [f |-> "x", g |-> "x"] IN
  {[tree |-> clean, text |-> [clean EXCEPT !.f = "y"]],
   [tree |-> clean, text |-> [clean EXCEPT !.g = "y"]]}

Does(text, commit, hide) == [text |-> text, commit |-> commit, hide |-> hide]

MCEffects ==
  {Does(<<>>, FALSE, FALSE),
   Does(<<>>, FALSE, TRUE),
   Does("g" :> Absent, FALSE, FALSE),
   Does("f" :> Absent @@ "g" :> "y", TRUE, FALSE)}

Says(kind, passed, failed, basis, criteria) ==
  [kind |-> kind, passed |-> passed, failed |-> failed, basis |-> basis,
   criteria |-> criteria]

MCClaims ==
  {Says("work", {"test"}, {}, FALSE, TRUE),
   Says("work", {"test", "lint"}, {}, FALSE, TRUE),
   Says("work", {"test"}, {"lint"}, FALSE, TRUE),
   Says("answer", {"test"}, {}, TRUE, TRUE),
   Says("work", {"test"}, {}, FALSE, FALSE)}
====
