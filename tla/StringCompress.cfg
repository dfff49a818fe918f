SPECIFICATION FairSpec
CONSTANTS
  DestinationBufferLength = 2
  MaxSourceLength = 4
  Overhead = 2
  Blocking = TRUE
  Gvl = FALSE
  Faults = TRUE
  NoPledge = NoPledge
INVARIANTS
  OkMeansArchived
  NoLeak
PROPERTIES
  KeepsPromise
  Terminates
