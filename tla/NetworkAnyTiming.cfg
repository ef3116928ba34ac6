SPECIFICATION Spec
CONSTANTS
  a = a
  b = b
  c = c
  Device = {a, b}
  Uid <- DistinctUids
  Version <- SameVersion
  MaxId = 2
  Backoffs = 2
  MaxBackoffResets = 1
  ClaimAttempts = 2
  Timely = FALSE
  MaxLosses = 0
  MaxPowerCycles = 0
INVARIANTS InductiveInv TableTruthful ClaimsLowestFree
