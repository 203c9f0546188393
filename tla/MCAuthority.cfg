CONSTANTS
  u1 = u1
  u2 = u2
  r1 = r1
  r2 = r2
  w1 = w1
  w2 = w2
  d1 = d1
  d2 = d2
  t1 = t1
  t2 = t2
  Absent = Absent
  Ticks = {t1, t2}
  Watched <- MCWatched
  Keys = {"sol", "reserve"}
  Values <- MCValues
  Errors <- MCErrors
  Users = {u1}
  Signers = {u1, u2}
  Rules = {r1, r2}
  Wallets = {w1, w2}
  Destinations = {d1}
  Grants <- MCGrants
  Calls <- MCCalls
  Bracketed = {r1}
  MinOutputs = {1}
  DemoTuple <- MCDemoTuple
  Redeems <- MCRedeems
  Reserves <- MCReserves
  Descriptors <- MCDescriptors
  MaxSiblings = 3
  MaxWritable = 1
  Wad = 10000
  HalfBits = 14
  MaxExponentDiff = 1
  MaxConditions = 2
  ClockSteps = {1}
  Collateral = 2
  MaxSlot = 2
  MaxBalance = 1
  MaxGrants = 2
SPECIFICATION MCSpec
CHECK_DEADLOCK FALSE
INVARIANTS
  GrantRunsOnce
  AdmittedPricesHold
  RateFollowsCurve
  MulDivIsExact
  SiblingsAreExact
PROPERTIES
  RunNeedsStandingGrant
  WithdrawIsGranted
  TrueIsOfOneTick

