---- MODULE MCTurnExchange ----
(***************************************************************************)
(* Small instances of TurnExchange; the bounds are in the configurations.  *)
(***************************************************************************)
EXTENDS TurnExchange
====
