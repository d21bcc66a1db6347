SPECIFICATION Spec
CONSTANTS
    Request = {1, 2}
    Commit = {1, 2}
    CommitsOf <- MCCommitsOf
    Origins <- MCOrigins
    Max = 1
    MaxUpsets = 0
INVARIANT
    ClosedHasNone
CHECK_DEADLOCK FALSE
