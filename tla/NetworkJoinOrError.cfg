SPECIFICATION FairSpec
CONSTANTS
  a = a
  b = b
  c = c
  Device = {a, b}
  Uid <- EqualUids
  Version <- MixedVersions
  MaxId = 1
  Backoffs = 1
  MaxBackoffResets = 1
  ClaimAttempts = 2
  Timely = FALSE
  MaxLosses = 1
  MaxPowerCycles = 0
INVARIANTS StoppedStaysStopped
PROPERTIES JoinTerminates
CHECK_DEADLOCK FALSE
