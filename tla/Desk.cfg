SPECIFICATION DeskSpec
CONSTANTS
    c1 = c1
    c2 = c2
    c3 = c3
    Child = {c1, c2}
    NoChild = NoChild
    Denied = {c2}
    Win32 = TRUE
    AllowLeave = TRUE
    Adapter = {c1, c2}
INVARIANTS
    DeskTypeOK
    RunIsInHand
    NoWindowlessApp
    NobodyWaitsInVain
PROPERTIES
    StopSettles
    ProgramIsNotStoppedUnasked
    LossIsMarked
    ImplementsDriveProgram
CHECK_DEADLOCK FALSE
