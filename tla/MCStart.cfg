SPECIFICATION FairSpec
CONSTANTS
    Clusters = {c1, c2}
    Registered = {c1, c2}
    Servers = {}
    MaxCalls = 1
    MaxSyncs = 0
    App = app
    MaxFailures = 1
CONSTRAINT LossOrCall
INVARIANT StartInv
INVARIANT StoppedMeansNoPod
PROPERTY InstanceSettles
PROPERTY PrebuildUnqueued
CHECK_DEADLOCK FALSE
