------------------------- MODULE MCEventWorkerPool -------------------------
(***************************************************************************)
(* EventWorkerPool with one worker more than the queue that may hang and   *)
(* the queue that must not wait for it.  No symmetry: liveness is checked. *)
(***************************************************************************)
EXTENDS EventWorkerPool
=============================================================================
