SPECIFICATION FairSpec
CONSTANTS
    Commands <- mcCommands
    EventNames <- mcEventNames
    Timeouts <- mcTimeouts
    MaxPending = 2
    MaxSeq = 4
    MaxStream = 2
INVARIANTS
    TypeOK
    AnswerCredited
    ResultSound
    InitializedGranted
PROPERTIES
    CompletedIsFinal
    CallReturns
    ImplementsRemoteCall
