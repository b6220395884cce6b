SPECIFICATION Spec
CONSTANTS
  r1 = r1
  r2 = r2
  r3 = r3
  w1 = w1
  w2 = w2
  Rows = {r1, r2}
  Workers = {w1, w2}
  Nobody = Nobody
  MsTicks = 2
  Lag = 2
  Limit = 1
  MaxPasses = 2
  MaxTime = 6
  MaxRuns = 1
  MaxFaults = 1
SYMMETRY MCSymmetry
INVARIANTS CountedOnce NothingElseSkipped DeliveredIsCounted
CHECK_DEADLOCK FALSE
