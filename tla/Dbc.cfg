SPECIFICATION Spec
CONSTANTS
  Setups <- MCSetups
  Sensors <- MCSensors
  Frames <- MCFrames
INVARIANTS IndexInv ReadingInv
CHECK_DEADLOCK FALSE
