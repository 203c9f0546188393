CONSTANTS
  r1 = r1
  r2 = r2
  t1 = t1
  t2 = t2
  j1 = j1
  j2 = j2
  j3 = j3
  Rules = {r1}
  Ticks = {t1, t2}
  ForcedTicks = {t2}
  Jobs = {j1, j2, j3}
  ProcessOf <- MCProcessOf
  BatchSize = 1
  RuleLife = 1
  MaxSlot = 2
  Allowed = {r1}
  LifeFaults = {"revoke", "restart", "db_error"}
SPECIFICATION LifeSpec
CHECK_DEADLOCK FALSE
INVARIANTS
  DispatchedOnce
PROPERTIES
  OnlyHolderOverwrites
  RevokedBeforeLeaseIsFinal
