SPECIFICATION Spec
CONSTANTS
    Places <- mcPlaces
    ManagerRequired = TRUE
    Attempts = 2
    MaxCmds = 4
    MaxStops = 1
INVARIANTS
    InitFailsForCause
CHECK_DEADLOCK FALSE
