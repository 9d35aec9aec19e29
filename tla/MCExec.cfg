SPECIFICATION Spec
CONSTANTS
  MaxTargets = 2
  Workers = 2
  Window = 1
  MaxOutput = 2
INVARIANT AnyFailureFails
CHECK_DEADLOCK FALSE
