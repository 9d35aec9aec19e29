SPECIFICATION Spec
CONSTANTS
  p1 = p1
  p2 = p2
  h1 = h1
  h2 = h2
  Procs = {p1, p2}
  Hotkeys = {h1, h2}
  Retries = 2
  MaxTokens = 2
  MaxCommands = 2
  MaxLosses = 1
  NoProc = NoProc
  Nothing = Nothing
INVARIANTS
  NoUnconfirmedSpend
PROPERTIES
  KeepsRegister
  CommandsEnd
CHECK_DEADLOCK FALSE
