SPECIFICATION VideoSpec
CONSTANTS
    Switch = {s1, s2}
    NoStyle = none
INVARIANT PlayerFollowsTheStore
CHECK_DEADLOCK FALSE
