SPECIFICATION Spec
CONSTANT MaxRuns = 1
INVARIANT CleanRollbackRemounts
CHECK_DEADLOCK FALSE
