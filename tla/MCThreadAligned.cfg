CONSTANTS
  i1 = i1
  i2 = i2
  Instances <- TwoInstances
  Edits <- SomeEdits
  MaxTurns = 2
  MaxAtOnce = 1
  MaxRestores = 1
  MaxMishaps = 0
SPECIFICATION Spec
INVARIANT MemoryAligned
CHECK_DEADLOCK FALSE
