SPECIFICATION Spec
CONSTANTS
    Update = {1, 2, 3}
    Version = {1, 2, 3, 4}
    FirstVersion = 1
    Minor <- NextMinorLast
    AllowMinor = FALSE
    Calm = {TRUE, FALSE}
    MaxRequests <- ThreeWhenCalm
    MaxUpsets = 1
INVARIANTS
    VerdictsAreHelms
    OneHelmAtATime
    SuccessStays
PROPERTIES
    Concludes
CHECK_DEADLOCK FALSE
