CONSTANTS
  Total = 6
  Chunk = 1
  AckInterval = 4
  Setups <- AllSetups
SPECIFICATION LiveSpec
CHECK_DEADLOCK FALSE
INVARIANTS TypeOK EndsCleanly
PROPERTIES IsFileTransfer AcksSuffice
