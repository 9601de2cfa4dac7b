------------------------ MODULE MCWorkspaceDeletion ------------------------
(***************************************************************************)
(* WorkspaceDeletion on small instances; the cfgs give all bounds.         *)
(***************************************************************************)
EXTENDS WorkspaceDeletion

CONSTANT MaxDisturbances    \* bound: calls and failures together

(* Only calls and failures, which nobody has to make, lead out of it. *)
FewDisturbances == calls + failures <= MaxDisturbances
=============================================================================
