------------------------ MODULE MCWorkspaceSession -------------------------
(***************************************************************************)
(* WorkspaceSession with a few concurrent finalizers.  They are alike, but *)
(* the runs check liveness, for which a reduction by symmetry is unsound.  *)
(***************************************************************************)
EXTENDS WorkspaceSession
=============================================================================
