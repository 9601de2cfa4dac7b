SPECIFICATION FairSpec
CONSTANTS
    PhysicalMask = 3
    LogicalMask = 1
    WallTimes = {1, 2, 4}
    MaxTicks = 5
    MaxChanges = 3
    MaxLists = 1
    MaxFailures = 1
INVARIANT SourceInv
INVARIANT VersionsIncrease
INVARIANT ClockInv
PROPERTY LastPodIsPublished
CHECK_DEADLOCK FALSE
