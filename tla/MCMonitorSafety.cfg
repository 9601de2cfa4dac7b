SPECIFICATION Spec
CONSTANTS
    Goroutines = {g1, g2}
    MaxEvents = 1
    MaxFailures = 1
    MaxRestarts = 1
    Outcomes = {"failed", "pullFailed"}
    MayTimeOut = FALSE
    MayAbort = FALSE
SYMMETRY SymmetricGoroutines
CONSTRAINT OneDisturbance
INVARIANT MonitorInv
CHECK_DEADLOCK FALSE
