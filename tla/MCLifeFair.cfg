CONSTANTS
  r1 = r1
  r2 = r2
  t1 = t1
  t2 = t2
  j1 = j1
  j2 = j2
  j3 = j3
  Rules = {r1, r2}
  Ticks = {t1, t2}
  ForcedTicks = {t2}
  Jobs = {j1}
  ProcessOf <- MCProcessOf
  BatchSize = 2
  RuleLife = 1
  MaxSlot = 1
  Allowed = {r1}
  LifeFaults = {"revoke"}
SPECIFICATION LifeFairSpec
CHECK_DEADLOCK FALSE
PROPERTIES
  LeasedRulesSettle
  ExpiredRulesAreCollected
