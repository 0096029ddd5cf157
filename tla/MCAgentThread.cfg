CONSTANTS
  i1 = i1
  i2 = i2
  Instances <- TwoInstances
  Edits <- SomeEdits
  MaxTurns = 3
  MaxAtOnce = 1
  MaxRestores = 1
  MaxMishaps = 1
SPECIFICATION Spec
INVARIANTS
  ThreadTypeOK
  AlignedUndisturbed
  BundlesCoherent
  LineageFollowsBranch
PROPERTIES
  NextTurnContinuesRestored
CHECK_DEADLOCK FALSE
