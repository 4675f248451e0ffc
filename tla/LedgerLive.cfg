SPECIFICATION LiveSpec
CONSTANTS
  Handlers = {h1, op}
  Operators = {op}
  Parts = {p1}
  NoEntry = NoEntry
  QueueCap = 1
  MaxCalls = 1
  MaxFaults = 1
  MaxErrors = 1
\* Handlers stop at MaxCalls, and nothing is left to do after Close.
CHECK_DEADLOCK FALSE
PROPERTIES CallerAnswered CloseReturns GapSurfaces
