SPECIFICATION FairSpec
CONSTANTS
    u1 = u1
    Stages <- OneStage
    AutoPromote = {}
    Release = {1, 2}
    Clean = {1, 2}
    Waivable <- NoneWaived
    BelowClass = {}
    Unreadable = {}
    Declared = {}
    Gated = {}
    FirstRelease = 0
    Retention = 1
    MaxReleaseHistory = 2
    User = {u1}
    MaxRequests = 1
    MaxBarChanges = 0
    MaxFaults = 1
PROPERTIES
    ComesToRest
    RetentionKept
CHECK_DEADLOCK FALSE
