------------------------- MODULE MCClusterRegistry -------------------------
(***************************************************************************)
(* ClusterRegistry on small instances; the cfgs give all bounds.           *)
(***************************************************************************)
EXTENDS ClusterRegistry
=============================================================================
