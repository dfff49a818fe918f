SPECIFICATION FairSpec
CONSTANTS
  DestinationBufferLength = 2
  MaxSourceLength = 2
  MaxFrames = 2
  Overhead = 1
  Blocking = TRUE
  Gvl = FALSE
  Faults = TRUE
  NoPledge = NoPledge
INVARIANTS
  TypeOK
  MemorySafe
  SourceFaithful
  ResultFaithful
  MoreMeansFull
  LessMeansDone
PROPERTIES
  FinishEnds
CHECK_DEADLOCK FALSE
