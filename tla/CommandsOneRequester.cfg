SPECIFICATION FairSpec
CONSTANTS
  n1 = n1
  n2 = n2
  n3 = n3
  c1 = c1
  c2 = c2
  c3 = c3
  Broadcast = Broadcast
  NoCall = NoCall
  Device = {n1, n2}
  Call = {c1, c2, c3}
  From <- AllFromOne
  Target <- ToTwoOrAll
  Code <- MixedCodes
  Handles <- HandlesUser
  Retry <- RetryOnce
  PowerOnStatus <- OneClaiming
  MaxTx = 4
  MaxLosses = 1
  MaxChanges = 2
INVARIANTS CallInv NoCallLost AnswerIsOwn TimeoutJobAlive
PROPERTIES CallsImplemented CallsEndOnline
CHECK_DEADLOCK FALSE
