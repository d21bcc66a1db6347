CONSTANTS
    a = a
    b = b
    Replica = {a, b}
    MaxLegacy = 1
    HeadClaimAttempts = 2
    MaxCalls = 3
    MaxFaults = 2
    MaxDeletes = 0
SPECIFICATION Spec
CHECK_DEADLOCK FALSE
SYMMETRY Symmetry
INVARIANTS
    UniqueSequence
    QuietLogIsTheChain
    AdoptionSaidFirst
PROPERTIES NumbersHandedOut
