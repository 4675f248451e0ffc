SPECIFICATION Spec
CONSTANTS
  i1 = i1
  i2 = i2
  v1 = v1
  v2 = v2
  x = x
  y = y
  Star = Star
  Blank = Blank
  None = None
  Instances = {i1, i2}
  Verifiers = {v1, v2}
  Agents = {x}
  Scopes <- MCScopes
  Lifetimes <- MCLifetimes
  DefaultTxnTTL = 2
  MaxTxnTTL = 3
  CallTTL = 2
  SweepEvery = 2
  MaxTime = 4
  MaxTokens = 3
  MaxRestarts = 1
SYMMETRY Symmetry
CHECK_DEADLOCK FALSE
INVARIANTS DelegationTypeOK NeverWidens LineageHolds SingleUseWhileLive
