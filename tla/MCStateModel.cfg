SPECIFICATION MCSpec
CONSTANTS
    ThreadIds = {t1, t2}
    DapIds <- mcDapIds
    Locations <- mcLocations
    MaxBreakpoints = 2
    MaxThreads = 2
    MaxNextId = 4
    MaxHits = 1
    DataThreads <- mcDataThreads
    FrameLists <- mcFrameLists
    Scopes <- mcScopes
    Counts <- mcCounts
    MaxInt = 3147
    Exceptions = {x1}
    Modules = {m1, m2, m3}
    MaxModules = 2
    Wants <- mcWants
    MaxListeners = 2
SYMMETRY mcSymmetry
INVARIANTS
    HitsAccounted
    ListenersSeeData
    VariablesFound
    ModulesFollow
PROPERTIES
    NumbersAreFinal
    ChangesAreTold
