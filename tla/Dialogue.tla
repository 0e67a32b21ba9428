---- MODULE Dialogue ----
(***************************************************************************)
(* What the runtime promises of its conversation with the model, seen from *)
(* outside: it speaks, is answered and acts on the answer, in turn, each   *)
(* once.  TurnExchange is shown to implement this across crashes, lost     *)
(* clicks and interruptions.                                               *)
(***************************************************************************)
EXTENDS Naturals

VARIABLES
  prompts,   \* prompts that reached the conversation
  replies,   \* replies the model gave
  acted      \* replies the runtime acted on for good

vars == <<prompts, replies, acted>>

Init == prompts = 0 /\ replies = 0 /\ acted = 0

\* The next prompt is sent only when every earlier one has been dealt with.
Prompt == prompts = acted /\ prompts' = prompts + 1 /\ UNCHANGED <<replies, acted>>

Reply == replies < prompts /\ replies' = replies + 1 /\ UNCHANGED <<prompts, acted>>

Act == acted < replies /\ acted' = acted + 1 /\ UNCHANGED <<prompts, replies>>

Next == Prompt \/ Reply \/ Act

Spec == Init /\ [][Next]_vars

====
