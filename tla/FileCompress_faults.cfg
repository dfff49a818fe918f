SPECIFICATION FairSpec
CONSTANTS
  SourceBufferLength = 3
  DestinationBufferLength = 2
  MaxFileLength = 4
  Overhead = 2
  Blocking = FALSE
  Gvl = FALSE
  Faults = TRUE
  NoPledge = NoPledge
INVARIANTS
  TypeOK
  LoopInvariant
  OkMeansArchived
  NoLeak
PROPERTIES
  KeepsPromise
  Terminates
