SPECIFICATION Spec
CONSTANTS
  Procs = {p1}
  Versions <- MCVersions
  Free = Free
  StaleAfter = 1
  Interval = 2
INVARIANTS
  LinkResolves
  RunningVersionKept
PROPERTIES
  NeverDowngrade
  CatchesUp
