SPECIFICATION MCSpec
CONSTANTS
  Accounts = {a1, a2}
  a1 = a1
  a2 = a2
  Ports = {1, 2}
  DefaultPort = 1
  FindAttempts = 2
  MaxStarts = 2
  Interval = 1
  Confirm = 4
  Timeout = 3
  Netuids = {51, 52}
  Companies = {d1, d2}
  d1 = d1
  d2 = d2
  Own = Own
  Tao = Tao
  LegacyAddress = LegacyAddress
  Quotes = {3, 4}
  Grain = 2
  MaxFree = 2
  MaxRuns = 2
  Copies = {c1, c2}
  c1 = c1
  c2 = c2
  User = User
  MaxReboots = 1
  Pods = {p1, p2}
  p1 = p1
  p2 = p2
  Numeric = p2
  TTL = 0
  Ids = {wA, wB}
  wA = wA
  wB = wB
  Names = {n1, n2}
  n1 = n1
  n2 = n2
  Home = wA
  Procs = {x, y}
  x = x
  y = y
  MaxCommands = 2
  MaxEdits = 1
  Deleted = Deleted
  Keys = {k1, k2}
  k1 = k1
  k2 = k2
  MaxRents = 2
  MaxTargets = 2
  Workers = 1
  Window = 1
  MaxOutput = 2
  Addresses = {h1, h2}
  h1 = h1
  h2 = h2
  Clients = {x, y}
  MaxReplaced = 1
  Functions <- MCFunctions
  Encodable <- MCEncodable
  Arrays <- MCArrays
  Encode <- MCEncode
  Decode <- MCDecode
  Failed <- MCFailed
  Message <- MCMessage
  Nothing = Nothing
INVARIANTS TypeOK RegisteredIsThisNode OfflineWasSeen ResendNeedsLostAnswer KeysAsAnswered LeftKeyIsTold ActsWhereMeant AnswerIsTheFunctions CachedWasRegistered HangIsThePods StalePinIsExcused
PROPERTIES WaitEnds SentAsConfirmed RowIsPodShown SavedKeyKept
CHECK_DEADLOCK FALSE
