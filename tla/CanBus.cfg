SPECIFICATION FairSpec
CONSTANTS
  Ids = {1, 7}
  Threads = {t1, t2}
  Rates <- MCRates
  BusRates = {250, 800}
  FilterCount = 2
  QueueSize = 2
  MaxTokens = 3
  MaxFrames = 2
INVARIANTS HandlersInv HeardOnce
PROPERTIES DetectionEnds
CHECK_DEADLOCK FALSE
