SPECIFICATION MCSpec
CONSTANTS
  c1 = c1
  c2 = c2
  s1 = s1
  s2 = s2
  Clients <- MCClients
  Signatures <- MCSignatures
  MaxAttempts = 2
  MaxTime = 1
  MaxIssued = 2
  ChainLength = 3
  NoToken = NoToken
  Leaves <- MCLeaves
  Pool <- MCPool
  PoolSize = 3
  VisitLimit = 4
  DepthLimit = 3
SYMMETRY Symmetry
CHECK_DEADLOCK FALSE
INVARIANTS PathsAgree StampsLast
