SPECIFICATION RaceDayFairSpec
CONSTANTS
    c1 = c1
    c2 = c2
    NoChild = NoChild
    Child = {c1}
    Denied = {}
    Win32 = FALSE
INVARIANT NothingHangs
PROPERTIES BringUpEnds StopFailedIsWithdrawn
