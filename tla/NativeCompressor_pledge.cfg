SPECIFICATION Spec
CONSTANTS
  DestinationBufferLength = 2
  MaxSourceLength = 2
  MaxFrames = 2
  Overhead = 1
  Blocking = TRUE
  Gvl = TRUE
  Faults = FALSE
  NoPledge = NoPledge
INVARIANTS
  ZeroPledgeIsAuto
CHECK_DEADLOCK FALSE
