SPECIFICATION Spec
CONSTANTS
    Version = {1, 2}
    Pair = {TRUE, FALSE}
    Calm = {TRUE, FALSE}
    MaxUpsets = 5
INVARIANTS
    OwnAndOnlyOwn
    OursKnown
PROPERTIES
    MovesAreRecorded
    Settles
CHECK_DEADLOCK FALSE
