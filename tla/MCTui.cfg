SPECIFICATION Spec
CONSTANTS
    Panels <- mcPanels
    TypeOf <- mcTypeOf
    None = none
    MaxPanels = 3
    Files <- mcFiles
    Length <- mcLength
    Matches <- mcMatches
    Screens = {4, 6, 9}
    MaxDrift = 5
    Stacks <- mcStacks
    MaxItems = 2
    MaxLines = 3
    MaxWritten = 7
    Heights = {1, 2}
    MaxHistory = 2
    CommandLines = {1, 2}
    MaxEntered = 6
INVARIANTS
    OwnWindow
    KeepsLatest
PROPERTIES
    KeysKeepFocus
    CursorStaysInView
    SearchIsNearest
    EnterShowsActive
