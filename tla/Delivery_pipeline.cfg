SPECIFICATION Spec
CONSTANTS
    Stages <- TwoStages
    AutoPromote = {"production"}
    Release = {1, 2}
    Clean = {1}
    Waivable <- WaiveStaging
    BelowClass = {}
    Unreadable = {}
    Declared = {"staging"}
    Gated = {"staging"}
    FirstRelease = 1
    Retention = 0
    MaxReleaseHistory = 4
    User = {}
    MaxRequests = 1
    MaxBarChanges = 1
    MaxFaults = 1
INVARIANTS
    BarHolds
    MovedWasJudged
    AppliedWasServed
    StagesInOrder
CHECK_DEADLOCK FALSE
