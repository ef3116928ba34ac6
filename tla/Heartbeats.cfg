SPECIFICATION FairSpec
CONSTANTS
  Interval = 6
  Timeout = 18
  Validation = 10
  Staggers = {0, 2}
  MaxLosses = 3
  MaxToggles = 2
INVARIANTS TaskInv
PROPERTIES ForgottenRightly NothingStalls
CHECK_DEADLOCK FALSE
