SPECIFICATION Spec
CONSTANTS
  Keys = {k1}
  NoKey = NoKey
  BatchMax = 2
  SegmentMax = 4
  Faults = {}
  MaxSegments = 3
  MaxLines = 7
  MaxRuns = 2

\* The last process may stop and no file be left.
CHECK_DEADLOCK FALSE
INVARIANT PruneKeepsChain
