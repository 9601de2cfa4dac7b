SPECIFICATION FairSpec
CONSTANTS
    Goroutines = {g1}
    MaxEvents = 1
    MaxFailures = 1
    MaxRestarts = 1
    Outcomes = {"succeeded"}
    MayTimeOut = TRUE
    MayAbort = TRUE
INVARIANT NoSilentLoss
PROPERTY DeletedIsRemoved
CHECK_DEADLOCK FALSE
