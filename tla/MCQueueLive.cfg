SPECIFICATION QFairSpec
CONSTANTS
  None = None
  i1 = i1
  i2 = i2
  w1 = w1
  w2 = w2
  c1 = c1
  k1 = k1
  k2 = k2
  Cycles <- TwoCycles
  Instances <- TwoInstances
  Workers <- TwoWorkers
  Callers <- OneCaller
  MaxVersion = 1
  MaxRetries = 1
PROPERTIES
  GlobalFlushSettles
CHECK_DEADLOCK FALSE
