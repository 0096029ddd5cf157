SPECIFICATION FairSpec
CONSTANTS
  w1 = w1
  c1 = c1
  c2 = c2
  k1 = k1
  k2 = k2
  Workers <- MCWorkers
  Callers <- MCCallers
  Cycles <- MCCycles
  MaxVersion = 3
  MaxRetries = 1
INVARIANTS
  TypeOK
  SingleFlight
  FlushMeansDurable
  IdleMeansDurable
PROPERTIES
  WritesInOrder
  BarrierSettles
  RegisterSpec
CHECK_DEADLOCK FALSE
