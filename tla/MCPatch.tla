------------------------------- MODULE MCPatch -------------------------------
(* The patch and its rollbacks, checked on small transactions.              *)
EXTENDS CheckpointStore
=============================================================================
