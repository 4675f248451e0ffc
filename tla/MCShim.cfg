SPECIFICATION Spec
CONSTANTS
  Ids = {i1, i2}
  NoId = NoId
  MaxPending = 1
  Sent = {"call", "stop", "other", "long"}
  MaxRequests = 4
  MaxBatch = 2
SYMMETRY Symmetry
\* The client stops at MaxRequests.
CHECK_DEADLOCK FALSE
INVARIANTS SlotsCount NoCrossedJoin PlainIsUnambiguous StoppedNeverReaches
