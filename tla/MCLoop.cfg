CONSTANTS
  i1 = i1
  u1 = u1
  d1 = d1
  c1 = c1
  h1 = h1
  f1 = f1
  f2 = f2
  x1 = x1
  x2 = x2
  m1 = m1
  w = w
  Null = Null
  Intents = {i1}
  Rules = {i1}
  Users = {u1}
  Drafts = {d1}
  Calls = {c1}
  Handlers = {h1}
  Sigs = {f1, x1}
  FundingSigs = {f1}
  ExecSigs = {x1}
  Manuals = {}
  Watcher = w
  Deltas = {1, 2}
  Amount <- MCAmount
  Threshold <- MCThreshold
  Apys = {1}
  MinAmount = 1
  MaxAmount = 1
  BatchLimit = 1
  DraftTtl = 1
  TombExtra = 1
  RuleWindow = 2
  Window = 1
  MaxTime = 2
  RuleStates = {}
  BridgeFaults = {"restart"}
  Faults = {"crash", "rejected", "tx_error", "poll_timeout"}
SPECIFICATION LoopSpec
INVARIANTS
  DepositIsFunded
PROPERTIES
  ImplementsRepository
