SPECIFICATION Spec
CONSTANTS
  Procs = {p1, p2}
  Versions <- MCVersions
  Free = Free
  StaleAfter = 20
  Interval = 2
INVARIANTS
  UpdatesExclusive
