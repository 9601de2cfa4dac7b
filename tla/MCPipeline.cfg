SPECIFICATION FairSpec
CONSTANTS
    MaxFailures = 1
    MaxInFlight = 2
    MaxLosses = 1
    MaxMishaps = 1
PROPERTY GoneIsNoticed
CHECK_DEADLOCK FALSE
