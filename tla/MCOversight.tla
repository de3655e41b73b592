---------------------------- MODULE MCOversight ----------------------------
(* Two tasks, so that one loop iteration escalates a batch; two reviewers,  *)
(* so that two requests can hold the same task.                             *)
EXTENDS Oversight
=============================================================================
