SPECIFICATION Spec
CONSTANTS
  SourceBufferLength = 3
  DestinationBufferLength = 2
  MaxFileLength = 5
  FrameEnds <- ManyFrameEnds
  Content <- ManyFrameContent
  Gvl = TRUE
  Faults = FALSE
INVARIANTS
  NoRemainder
