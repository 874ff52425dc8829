CONSTANTS
  Transmissions <- MCTransmissions
  Frames = 1
  BufferSize = 6
  MaxAhead = 3
SPECIFICATION LiveConnectorSpec
PROPERTY
  CanBeStopped
CHECK_DEADLOCK FALSE
