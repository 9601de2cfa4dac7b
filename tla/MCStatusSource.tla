-------------------------- MODULE MCStatusSource ---------------------------
(***************************************************************************)
(* StatusSource on small instances; the cfgs give all bounds.              *)
(***************************************************************************)
EXTENDS StatusSource
=============================================================================
