SPECIFICATION Spec
CONSTANTS
  p1 = p1
  p2 = p2
  p3 = p3
  NoLock = NoLock
  Garbled = Garbled
  None = None
  Procs <- ThreeProcs
  MaxEdits = 2
INVARIANTS
  LockTypeOK
  LockCoversHolder
  AckedSavesKept
SYMMETRY Symmetry
