SPECIFICATION RaceDaySpec
CONSTANTS
    c1 = c1
    c2 = c2
    NoChild = NoChild
    Child = {c1, c2}
    Denied = {}
    Win32 = TRUE
INVARIANT ClaimHasItsProgram
