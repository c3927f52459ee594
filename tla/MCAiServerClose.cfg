SPECIFICATION AiSpec
CONSTANTS
    Clients <- mcClients
    Script <- mcScript
    SendRoom = 1
    EventRoom = 1
    MaxStops = 1
    Leavers <- mcLeavers
    CloseIsOnce = FALSE
    ReadInsideWrite = FALSE
INVARIANTS
    NoPanic
CHECK_DEADLOCK FALSE
