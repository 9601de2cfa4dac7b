-------------------------- MODULE MCBackupLimiter --------------------------
(* Model checking of BackupLimiter.  UploadsReturn is a liveness property,  *)
(* so no symmetry is used.                                                  *)
EXTENDS BackupLimiter
=============================================================================
