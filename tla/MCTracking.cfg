CONSTANTS
  t1 = t1
  Sigs <- MCOne
  Legacy <- MCOne
  Lvbh <- MCLvbh
  Validity = 1
  HotBlocks = 0
  Grace = 1
  Buffer = 1
  MaxRetries = 1
  Lag = 1
  Skew = 1
  MaxHeight = 5
  MaxFailures = 1
  MaxRestarts = 1
  Null = Null
SPECIFICATION TFairSpec
INVARIANTS
  FinalizedIsReal
PROPERTIES
  TrackingCloses
CHECK_DEADLOCK FALSE
