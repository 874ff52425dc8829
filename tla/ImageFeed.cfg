CONSTANTS
  Streams = {s1, s2}
  MaxSize = 2
  Modulus = 8
  Images = {s1, s2}
  QueueSize = 1
SPECIFICATION LiveSpec
INVARIANTS
  NoLostWakeup
PROPERTIES
  ImplementsFlowControl
  ImplementsChannel
  FeedStaysOpen
  OneResultPerImageInOrder
  ResultsKeepComing
\* After the process died, or MaxSize images were withheld, the consumers are refused
\* for good.
CHECK_DEADLOCK FALSE
