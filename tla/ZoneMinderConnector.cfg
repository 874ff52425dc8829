CONSTANTS
  Transmissions <- MCTransmissions
  Frames = 3
  BufferSize = 8
  MaxAhead = 3
SPECIFICATION ConnectorSpec
INVARIANTS
  WholeFramesInOrder
  OnlyTornAreLost
\* The camera sends no more, or the connector is not initialised.
CHECK_DEADLOCK FALSE
