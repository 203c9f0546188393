CONSTANTS
  r1 = r1
  r2 = r2
  w1 = w1
  w2 = w2
  h1 = h1
  h2 = h2
  c1 = c1
  c2 = c2
  Null = Null
  Requests = {r1, r2}
  Wallets = {w1, w2}
  Handoffs = {h1}
  Submits = {c1, c2}
  Returned = {"good", "altered", "undecodable"}
  Validity = 1
  Grace = 9
  MaxSends = 2
  MaxResends = 1
  GuardBuffer = 0
  MaxHeight = 3
  MaxRebinds = 1
SPECIFICATION MCSpec
INVARIANTS
  OneSubmitSends
  RefusedIsNeverSent
  HandoffIsRechecked
  TimeoutIsDecided
PROPERTIES
  SubmissionsSettle
CHECK_DEADLOCK FALSE
