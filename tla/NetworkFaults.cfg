SPECIFICATION OneByOneSpec
CONSTANTS
  a = a
  b = b
  c = c
  Device = {a, b, c}
  Uid <- DistinctUids
  Version <- SameVersion
  MaxId = 3
  Backoffs = 2
  MaxBackoffResets = 1
  ClaimAttempts = 1
  Timely = TRUE
  MaxLosses = 1
  MaxPowerCycles = 1
INVARIANTS UniqueIds LowestFlagExact KnowledgeInv
CHECK_DEADLOCK FALSE
