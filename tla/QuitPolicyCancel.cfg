SPECIFICATION QuitSpec
CONSTANT AllowLeave = FALSE
INVARIANT CancelHasNoEffect
CHECK_DEADLOCK FALSE
