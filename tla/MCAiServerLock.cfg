SPECIFICATION AiSpec
CONSTANTS
    Clients <- mcClients
    Script <- mcScript
    SendRoom = 1
    EventRoom = 1
    MaxStops = 1
    Leavers <- mcLeavers
    CloseIsOnce = TRUE
    ReadInsideWrite = FALSE
PROPERTIES
    LaunchReturns
CHECK_DEADLOCK FALSE
