SPECIFICATION Spec
CONSTANTS
    Name = {1, 2}
    Moment = {1, 2}
    Policy = {"Delete", "Retain"}
    MaxRequests = 4
    MaxUpsets = 1
INVARIANTS
    TypeOK
    BoundLives
    HoldsItsMoment
    DisplacedIsRecorded
PROPERTIES
    ForgetsOnlyTheGone
    MadeSo
CHECK_DEADLOCK FALSE
