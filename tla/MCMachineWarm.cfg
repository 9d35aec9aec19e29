SPECIFICATION Spec
CONSTANTS
  Procs = {q1}
  Funcs <- MCFuncs
  MaxPods = 2
  Timeout = 1
  Margin = 1
  WarmMargin = 1
INVARIANTS
  RunHasItsWindow
  UnscheduledIsKnown
PROPERTIES
  OnlyOwnRemoved
  ExitLeavesNothing
  UnattendedGoes
CHECK_DEADLOCK FALSE
