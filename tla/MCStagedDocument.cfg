SPECIFICATION Spec
CONSTANTS
  t1 = t1
  t2 = t2
  r1 = r1
  None = None
  Threads <- TwoThreads
  Readers <- OneReader
  MaxEdits = 3
  MaxRestores = 1
INVARIANTS
  StagedTypeOK
  OpenProposalsOffDisk
  SettledMeansSaved
CHECK_DEADLOCK FALSE
