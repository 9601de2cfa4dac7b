------------------------- MODULE MCWorkspaceMonitor ------------------------
(***************************************************************************)
(* WorkspaceMonitor with a few goroutines, which are alike.                *)
(***************************************************************************)
EXTENDS WorkspaceMonitor, TLC

SymmetricGoroutines == Permutations(Goroutines)

(* One failure or one restart; monitor_liveness has both.                  *)
OneDisturbance == failures + restarts <= 1
=============================================================================
