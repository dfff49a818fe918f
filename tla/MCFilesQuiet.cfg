SPECIFICATION QuietSpec
CONSTANTS
  SourceBufferLength = 2
  DestinationBufferLength = 3
  MaxFileLength = 5
  Overhead = 3
  Blocking = TRUE
  NoPledge = NoPledge
  FrameEnds <- OneFrameEnds
  Content <- OneFrameContent
  Gvl = TRUE
  Faults = FALSE
INVARIANTS
  NoRemainder
PROPERTIES
  Succeeds
