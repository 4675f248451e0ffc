SPECIFICATION FairSpec
CONSTANTS
  d1 = d1
  f1 = f1
  f2 = f2
  f3 = f3
  p1 = p1
  p2 = p2
  p3 = p3
  r1 = r1
  r2 = r2
  k1 = k1
  k2 = k2
  q1 = q1
  q2 = q2
  None = None
  Devices = {d1}
  Ledger <- MCLedgersThree
  Files = {f1, f2, f3}
  Names = {p1, p2, p3}
  Name <- MCName
  Runs = {r1}
  Device <- MCDevice
  Lock <- MCLock
  Requests = {q1, q2}
  PerPost = 2
  WholeFrom <- MCWhole
  MaxBatches = 2
  MaxHistories = 1
  MaxFaults = 1
PROPERTY CaughtUp
