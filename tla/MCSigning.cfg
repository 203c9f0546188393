CONSTANTS
  r1 = r1
  s1 = s1
  s2 = s2
  c1 = c1
  c2 = c2
  o1 = o1
  o2 = o2
  Reqs <- MCReqs
  SigIds <- MCSigIds
  Callers <- MCCallers
  Operators <- MCOperators
  Roles <- MCRoles
  RolesOf <- MCRolesOf
  Chain <- MCChain
  Anonymous = Anonymous
  Leased = TRUE
  Null = Null
  MaxFailures = 1
  MaxRestarts = 1
SPECIFICATION SFairSpec
INVARIANTS
  HandedOverOnce
  SentOnceUnlessExcused
PROPERTIES
  HandOverIsAuthorised
  NothingIsStuck
CHECK_DEADLOCK FALSE
