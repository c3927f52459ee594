SPECIFICATION MCSpec
CONSTANTS
    PipeCapacity = 1
    MaxSignals = 2
    Fds = {a, b, c}
    Nobody = nobody
    MaxFds = 3
    Bytes <- mcBytes
    Newline = "nl"
    Junk = "junk"
    InitialSize = 3
    MaxRequest = 2
    MaxCapacity = 6
    GrowWrapped = FALSE
    BodySize = 3
    HeaderRoom = 4
    MaxMessages = 4
    MaxNoise = 0
SYMMETRY mcSymmetry
INVARIANTS
    NothingLost
CHECK_DEADLOCK FALSE
