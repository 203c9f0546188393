CONSTANTS
  i1 = i1
  i2 = i2
  u1 = u1
  u2 = u2
  f1 = f1
  f2 = f2
  x = x
  h1 = h1
  h2 = h2
  Null = Null
  Intents = {i1}
  Users = {u1, u2}
  Sigs = {f1, f2, x}
  FundingSigs = {f1, f2}
  Handlers = {h1, h2}
  Deltas = {1, 2}
  Amount <- MCAmount
  Window = 1
  MaxTime = 1
SYMMETRY MCSymmetry
SPECIFICATION CSpec
INVARIANTS
  SpentOrReturned
  FundedIsVerified
  InvalidIsDeserved
PROPERTIES
  RefundExcludesExecution
  ImplementsBudget
