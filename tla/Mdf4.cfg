SPECIFICATION Spec
CONSTANTS
  Finalized = FALSE
  IdSizes = {0, 1, 3}
  RecordIds <- MCRecordIds
  Names = {"s"}
  Formulas = {"x"}
  Times = {3}
  Values <- MCValues
  Frames <- MCFrames
  ChannelTypes <- MCChannelTypes
  Rooms = {4, 1000}
  MaxGroups = 4
  MaxChannels = 1
  MaxRecords = 2
  MaxShort = 1
INVARIANTS FileInv RecordsInv
CHECK_DEADLOCK FALSE
