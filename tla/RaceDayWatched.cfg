SPECIFICATION RaceDaySpec
CONSTANTS
    c1 = c1
    c2 = c2
    NoChild = NoChild
    Child = {c1, c2}
    Denied = {c2}
    Win32 = TRUE
INVARIANTS CardIsHonest
PROPERTY EndIsSeen
