SPECIFICATION FairSpec
CONSTANTS
    Init_ = init
    Disposers = {d1, d2}
    Backup = TRUE
    MaxFailures = 2
    MaxCrashes = 2
INVARIANT SessionInv
INVARIANT BackedUpBeforeRemoval
PROPERTY MarkedIsDisposed
PROPERTY WaiterIsReleased
CHECK_DEADLOCK FALSE
