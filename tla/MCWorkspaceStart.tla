-------------------------- MODULE MCWorkspaceStart --------------------------
(***************************************************************************)
(* WorkspaceStart on small instances; the cfgs give all bounds.            *)
(***************************************************************************)
EXTENDS WorkspaceStart

(* Bound: an answer is lost, or a cluster deregistered, but not both.  No  *)
(* action that fairness demands leads out of it.                           *)
LossOrCall == ~answerLost \/ calls = 0
=============================================================================
