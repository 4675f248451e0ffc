SPECIFICATION Spec
CONSTANTS
  Keys = {k1, k2}
  NoKey = NoKey
  BatchMax = 2
  SegmentMax = 4
  Faults = {"append", "flush", "sync", "open", "unlink"}
  MaxSegments = 3
  MaxLines = 6
  MaxRuns = 2
SYMMETRY Symmetry
CONSTRAINT Undeparted
\* The last process may stop and no file be left.
CHECK_DEADLOCK FALSE
INVARIANTS TypeOK ChainVerifies SealedIsSigned InheritedTailMarked ClosedIsComplete PruneDeclared
PROPERTY ClosedExportVerifies
