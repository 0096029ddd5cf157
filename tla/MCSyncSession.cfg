SPECIFICATION FairSpec
CONSTANTS
  None = None
  w1 = w1
  a1 = a1
  Windows <- OneWindow
  Agents <- OneAgent
  MaxCommands = 3
  MaxBatch = 2
  MaxTries = 1
  MaxMishaps = 1
  MaxSyncs = 1
INVARIANTS
  SyncTypeOK
  BatchesContiguous
  RefusedNotApplied
  WindowsConverge
PROPERTIES
  KeepsPromise
  SendsSettle
CHECK_DEADLOCK FALSE
