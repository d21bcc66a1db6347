SPECIFICATION FairSpec
CONSTANTS
    Request = {1, 2}
    Commit = {1, 2}
    CommitsOf <- MCCommitsOf
    Origins <- MCOrigins
    Max = 1
    MaxUpsets = 1
INVARIANTS
    CeilingKept
    ClosedStaysDown
PROPERTIES
    RequestsAnswered
CHECK_DEADLOCK FALSE
