SPECIFICATION FairSpec
CONSTANTS
    WaitPolls <- mcWaits
    Timeouts <- mcTimeouts
    MaxPending = 3
    MaxSeq = 3
    MaxStream = 2
    MaxRaw = 1
    MaxStops = 2
INVARIANTS
    ShownStopHolds
    CopiesAgree
PROPERTIES
    OperationsReturn
CHECK_DEADLOCK FALSE
