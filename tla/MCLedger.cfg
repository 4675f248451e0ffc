SPECIFICATION Spec
CONSTANTS
  Handlers = {h1, op}
  Operators = {op}
  Parts = {p1}
  NoEntry = NoEntry
  QueueCap = 1
  MaxCalls = 1
  MaxFaults = 2
  MaxErrors = 2
\* Handlers stop at MaxCalls, and nothing is left to do after Close.
CHECK_DEADLOCK FALSE
INVARIANTS NoSendOnClosed BlockedIsOnFile GapsConserved LossIsCounted CloseIsComplete
