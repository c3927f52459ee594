SPECIFICATION FairSpec
CONSTANTS
    Places <- mcPlaces
    ManagerRequired = FALSE
    Attempts = 2
    MaxCmds = 3
    MaxStops = 2
INVARIANTS
    ListedAreSet
    ShownHolds
PROPERTIES
    CommandsReturn
CHECK_DEADLOCK FALSE
