SPECIFICATION FairSpec
CONSTANTS
    Starts = {s1}
    Collectors = {g1, g2}
    Servers = {v1}
    MaxCalls = 2
    MaxFailures = 2
    MaxDisturbances = 2
CONSTRAINT FewDisturbances
INVARIANT DeletionInv
INVARIANT VisibleKeepsContent
INVARIANT PurgedCompletely
PROPERTY DeletionSticks
PROPERTY DeletedIsPurged
CHECK_DEADLOCK FALSE
