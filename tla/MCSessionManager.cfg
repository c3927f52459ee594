SPECIFICATION FairSpec
CONSTANTS
    Threads = {t1, t2}
    NoThread = none
    MaxSessions = 2
    Pids <- mcPids
    WaitModes <- mcBlocking
    Recycle = FALSE
    DestroyPolls = 1
    MaxId = 4
INVARIANTS
    CountMatchesList
    DestroyedIsKilled
    TerminatedIsDead
    ExitCodeTrue
PROPERTIES
    MutexReleased
CHECK_DEADLOCK FALSE
