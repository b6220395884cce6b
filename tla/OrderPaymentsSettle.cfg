SPECIFICATION FairSpec
CONSTANTS
  w1 = w1
  Refs <- MCRefs
  StaffKeys = {1}
  ReversalKeys = {1}
  Total = 2
  Thresholds <- MCThresholds
  Workers = {w1}
  MaxFaults = 1
  MaxRequests = 3
  MaxCallbacks = 1
INVARIANTS RecordedOnce OrderFollowsLedger OverpaidOnlyByProvider
PROPERTIES AskedIsOwed CapturedIsRecorded
CHECK_DEADLOCK FALSE
