SPECIFICATION Spec
CONSTANTS
  Options <- MCOptions
  NoPod = NoPod
  Timeout = 2
  Grace = 1
  JupyterPolls = 2
INVARIANTS
  EndHeldOrTold
  StartFailureIsReal
  FailureNamesPod
PROPERTY CommandEnds
CHECK_DEADLOCK FALSE
