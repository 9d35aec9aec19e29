SPECIFICATION Spec
CONSTANTS
  Procs = {q1}
  Funcs <- MCTwoFuncs
  MaxPods = 1
  Timeout = 3
  Margin = 1
  WarmMargin = 1
PROPERTIES
  LeftAsWarm
CHECK_DEADLOCK FALSE
