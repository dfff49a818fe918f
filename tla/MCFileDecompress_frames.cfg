SPECIFICATION FairSpec
CONSTANTS
  SourceBufferLength = 2
  DestinationBufferLength = 2
  MaxFileLength = 5
  FrameEnds <- ManyFrameEnds
  Content <- ManyFrameContent
  Gvl = FALSE
  Faults = TRUE
INVARIANTS
  OkMeansWhole
  BuffersSuffice
PROPERTIES
  KeepsPromise
  Terminates
