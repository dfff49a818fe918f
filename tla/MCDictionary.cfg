SPECIFICATION Spec
CONSTANTS
  HalfRange = 4
  FixnumRange = 32
  StrategiesCount = 2
  MaxSamples = 2
  MaxSampleLength = 2
  MaxCapacity = 2
  DefaultCapacity = 3
  MinLevel <- LeastLevel
  MaxLevel = 2
  FinalizeValues <- SmallValues
  Gvl = FALSE
  Faults = TRUE
INVARIANTS
  MemorySafe
  GroupFaithful
  NoLeak
  ResultWhole
  NumbersSurvive
