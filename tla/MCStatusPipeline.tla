-------------------------- MODULE MCStatusPipeline -------------------------
(***************************************************************************)
(* StatusPipeline on small instances; the cfgs give all bounds.            *)
(***************************************************************************)
EXTENDS StatusPipeline
=============================================================================
