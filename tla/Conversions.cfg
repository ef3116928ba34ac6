SPECIFICATION Spec
CONSTANTS
  Boards <- MCBoards
  InternalReference = 1100
  Resolution = 12
  CalibrationSamples = 2048
  GpioChannels = 1
  AdcChannels = 2
  ClassicalRates = {0, 250000, 500000}
  FdRates = {0, 500000, 2000000}
  BrokenDbc = {"b.dbc"}
  SensorMax = 6
  AdcMax = 3
  SensorsDocuments <- MCSensorsDocuments
  CanbusDocuments <- MCCanbusDocuments
  AdcDocuments <- MCAdcDocuments
  Messages <- MCMessages
  Files = {"s.lua", "a.dbc", "b.dbc"}
  Orders <- MCOrders
  Junk = {0, 7}
  Sums = {0, 70000}
  Devices = {0, 70000}
  Versions = {1, 300}
  Builds = {0, 23, 24}
INVARIANTS SavedInv AcceptedInv VoltagesInv MessagesAreHeard
PROPERTIES DocumentsAreTaken
CHECK_DEADLOCK FALSE
