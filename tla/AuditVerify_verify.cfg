CONSTANTS
    a = a
    b = b
    Replica = {a, b}
    MaxLegacy = 0
    HeadClaimAttempts = 2
    MaxCalls = 2
    MaxFaults = 2
    MaxDeletes = 1
    Limits = {0, 3}
    DefaultAuditLimit = 2
    MaxAuditLimit = 3
SPECIFICATION VerifySpec
CHECK_DEADLOCK FALSE
SYMMETRY Symmetry
INVARIANTS
    FindingsExplained
    IntactIffChain
    LinksNeverSkip
