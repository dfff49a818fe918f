SPECIFICATION FairSpec
CONSTANTS
  DestinationBufferLength = 2
  MaxSourceLength = 3
  FrameEnds <- TwoFrameEnds
  Content <- TwoFrameContent
  Gvl = FALSE
  Faults = TRUE
INVARIANTS
  ResultFaithful
  LessMeansDone
PROPERTIES
  ReadEnds
CHECK_DEADLOCK FALSE
