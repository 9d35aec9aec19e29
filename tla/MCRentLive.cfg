SPECIFICATION Spec
CONSTANTS
  Calls = {c1}
  c1 = c1
  c2 = c2
  Nodes = {e1, e2}
  Names = {n1, n2}
  n1 = n1
  n2 = n2
  e1 = e1
  e2 = e2
  OldPods = {old}
  Wants <- MCWants
  NoPod = NoPod
  NoNode = NoNode
  LookupAttempts = 3
  FallbackAttempts = 2
  ReadBackAttempts = 3
PROPERTIES
  KeepsPromise
CHECK_DEADLOCK FALSE
