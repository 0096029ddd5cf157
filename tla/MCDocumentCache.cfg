SPECIFICATION FairSpec
CONSTANTS
  MaxEdits = 2
  MaxFills = 3
  MaxRestores = 1
  MaxReloads = 1
  LogTail = 1
INVARIANTS
  CacheTypeOK
  AckedEditsKept
  NothingOfDeleted
  AppliedInOrder
PROPERTIES
  HandlersResume
CHECK_DEADLOCK FALSE
