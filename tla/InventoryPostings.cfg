SPECIFICATION Spec
CONSTANTS
  w1 = w1
  w2 = w2
  Locations = {1, 2}
  Items = {1, 2}
  Requests <- MCRequests
  Sources <- MCSources
  Source <- MCSource
  Kind <- MCKind
  Target <- MCTarget
  Delta <- MCDelta
  Workers = {w1, w2}
  Limit = 3
  Thresholds <- MCThresholds
  Watched <- MCWatched
  NoThreshold = NoThreshold
  MaxOutside = 1
SYMMETRY MCSymmetry
INVARIANTS BalanceFollowsLedger AllLinesOrNone LowCountersAgree PostingsNeverDeadlock
PROPERTY SettingsBindPostings
CHECK_DEADLOCK FALSE
