SPECIFICATION Spec
CONSTANTS
  Default = c0
  c0 = c0
  c1 = c1
  Config = {c0, c1}
  Kinds = {"sensors", "canbus"}
  NoConfig = none
  Rejected = rejected
  NoFile = missing
  Torn = torn
  NoSum = noSum
  MaxBoots = 3
  MaxUpdates = 2
  MaxSwaps = 1
  MaxCardFaults = 1
  MaxFlashFaults = 1
INVARIANTS InEffect NeverDefaulted NoHiddenEdit
PROPERTIES Unreverted
CHECK_DEADLOCK FALSE
