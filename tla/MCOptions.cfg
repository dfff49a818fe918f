SPECIFICATION Spec
CONSTANTS
  HalfRange = 4
  FixnumRange = 32
  StrategiesCount = 2
  CompressorOptions <- SmallCompressorOptions
  DecompressorOptions <- SmallDecompressorOptions
  Type <- SmallType
  Lower <- SmallLower
  Upper <- SmallUpper
  ZeroIsDefault <- SmallZeroIsDefault
  Lenient <- SmallLenient
  Values <- SmallValues
  Faults = TRUE
INVARIANTS
  AppliedAsGiven
  RefusedMeansWrong
  NothingLate
  NoLeak
