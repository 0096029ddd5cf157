SPECIFICATION Spec
CONSTANTS
  None = None
  a = a
  b = b
  ab = ab
  ba = ba
  cites = cites
  Documents <- TwoDocuments
  Links <- ThreeLinks
  From <- Sources
  To <- Targets
  Supersedes <- BothWays
  MaxCalls = 3
  MaxMishaps = 1
INVARIANTS
  LedgerTypeOK
  AcyclicUnlessRevived
  StoredFollowsServer
  ClaimsFollowDocuments
CHECK_DEADLOCK FALSE
