SPECIFICATION FairSpec
CONSTANTS
  DestinationBufferLength = 2
  MaxSourceLength = 5
  FrameEnds <- ManyFrameEnds
  Content <- ManyFrameContent
  Gvl = FALSE
  Faults = TRUE
INVARIANTS
  OkMeansWhole
PROPERTIES
  NoLeak
  KeepsPromise
  Terminates
