CONSTANTS
  i1 = i1
  i2 = i2
  i3 = i3
  u1 = u1
  f1 = f1
  x1 = x1
  x2 = x2
  m1 = m1
  w = w
  Null = Null
  Intents = {i1, i2}
  Rules = {i1, i2}
  Users = {u1}
  Sigs = {f1, x1, x2}
  ExecSigs = {x1, x2}
  Manuals = {m1}
  Watcher = w
  Amount <- MCAmount
  Threshold <- MCThreshold
  Apys = {0, 2}
  MinAmount = 1
  MaxAmount = 10
  BatchLimit = 2
  Faults <- MCAllFaults
  RuleStates = {"same"}
  Window = 1
  MaxTime = 1
SPECIFICATION XSpec
SYMMETRY MCSymmetry
INVARIANTS
  LeaseIsExclusive
  SingleDeposit
  CompletedIsDeposited
  RefundedIsNotDeposited
  BudgetsAreBacked
