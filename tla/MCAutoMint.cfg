SPECIFICATION AutoSpec
CONSTANTS
  h1 = h1
  h2 = h2
  a1 = a1
  p1 = p1
  Timer = timer
  Admins = {a1}
  RotateEvery = 2
  MaxTxnTTL = 2
  MaxTime = 4
  MaxKeys = 3
  MaxTokens = 1
  MaxForced = 1
  MaxFailures = 1
  Handlers = {h1, h2}
  Principals = {p1}
  DefaultTxnTTL = 2
  AutoRenew = 1
  NoEntry = NoEntry
  NoToken = NoToken
SYMMETRY Symmetry
INVARIANTS OutstandingVerify RestartKeepsTokens MemoryFollowsDisk AutoTokenVerifies FreshEntryOutlivesRotation
PROPERTY RetiredNeverReturns
CHECK_DEADLOCK FALSE
