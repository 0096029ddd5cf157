SPECIFICATION QSpec
CONSTANTS
  None = None
  i1 = i1
  i2 = i2
  w1 = w1
  w2 = w2
  c1 = c1
  k1 = k1
  k2 = k2
  Cycles <- TwoCycles
  Instances <- TwoInstances
  Workers <- TwoWorkers
  Callers <- OneCaller
  MaxVersion = 2
  MaxRetries = 1
INVARIANTS
  QTypeOK
  QueueFlushMeansDurable
  DisposeLeavesNobodyWaiting
  NoForgottenWorker
PROPERTIES
  BackwardsOnlyAfterEvict
  OnlyRegisteredWrite
CHECK_DEADLOCK FALSE
