SPECIFICATION Spec
CONSTANT MaxRuns = 2
INVARIANTS RollbackRestores SuccessServes DataOrBackup
PROPERTY StartsOnItsData
CHECK_DEADLOCK FALSE
