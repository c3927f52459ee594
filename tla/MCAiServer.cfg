SPECIFICATION AiSpec
CONSTANTS
    Clients <- mcClients
    Script <- mcScript
    SendRoom = 1
    EventRoom = 1
    MaxStops = 1
    Leavers <- mcLeavers
    CloseIsOnce = TRUE
    ReadInsideWrite = TRUE
INVARIANTS
    AnswersInOrder
PROPERTIES
    CallsEnd
    GoneIsForgotten
CHECK_DEADLOCK FALSE
