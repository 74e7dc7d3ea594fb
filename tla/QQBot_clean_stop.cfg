CONSTANT MaxGenerations = 5
SPECIFICATION QSpec
INVARIANT StopIsClean
CHECK_DEADLOCK FALSE
