SPECIFICATION FairSpec
CONSTANTS
  a = a
  v = v
  c = c
  Sensors = {a, v, c}
  Order <- InputFirst
  Type <- Types
  Sampled = {a, v}
  Inputs <- VFromA
  Formula = {a, v}
  WithX = {a}
  Creates = {}
  Known = {c}
  PreWrites <- CWritesA
  PostWrites <- NoWrites
  Slow = {a}
  MaxStarts = 2
INVARIANTS PausedIsQuiet ReadersInv ValuesInv CalibrationAlone
PROPERTIES NothingWaitsForEver
CHECK_DEADLOCK FALSE
