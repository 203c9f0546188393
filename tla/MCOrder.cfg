CONSTANTS
  i1 = i1
  u1 = u1
  u2 = u2
  d1 = d1
  d2 = d2
  c1 = c1
  c2 = c2
  s1 = s1
  Null = Null
  Intents = {i1}
  Rules = {i1}
  Users = {u1}
  Sigs = {s1}
  Drafts = {d1, d2}
  Calls = {c1, c2}
  DraftTtl = 1
  TombExtra = 1
  RuleWindow = 2
  Amount <- MCAmount
  Window = 1
  MaxTime = 2
  BridgeFaults = {"fetch", "db_error", "restart"}
SYMMETRY MCSymmetry
SPECIFICATION OSpec
INVARIANTS
  DraftRunsOnce
  HashesAgree
