SPECIFICATION RegistryFairSpec
CONSTANTS
    Clusters = {c1, c2}
    Registered = {c1}
    Servers = {s1, s2}
    MaxCalls = 4
    MaxSyncs = 2
INVARIANT RegistryTypeOK
PROPERTY ListedRightly
PROPERTY BridgesFollowRegistry
PROPERTY MarkedRowIsDeleted
CHECK_DEADLOCK FALSE
