SPECIFICATION FairSpec
CONSTANTS
    Build = {"unit", "single"}
    Images <- TwoImages
    Declared <- OneHasWorker
    Concurrency = 1
    MaxUpsets = 1
INVARIANTS
    ReleasedWhole
    RunningWithinLimit
    StallCleared
PROPERTIES
    OverStaysOver
    BuildsEnd
CHECK_DEADLOCK FALSE
