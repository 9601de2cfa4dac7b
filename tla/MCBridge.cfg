SPECIFICATION Spec
CONSTANTS
    IsPrebuild = TRUE
    Sent <- AnyStatus
    MaxFailures = 1
    MaxVersion = 2
INVARIANT BridgeInv
PROPERTY PrebuildNotReverted
CHECK_DEADLOCK FALSE
