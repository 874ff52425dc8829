CONSTANTS
  a1 = a1
  a2 = a2
  s1 = s1
  s2 = s2
  s3 = s3
  Analytics = {a1, a2}
  Streams = {s1, s2, s3}
  Inputs <- MCInputs
  Direct = {s1, s3}
  NULL = NULL
  MaxStrays = 0
SPECIFICATION LiveSpec
INVARIANTS
  NothingReplacedInUse
  ThreadsHaveWhatTheyUse
  PointedQueueLives
  ProducersAreConsumed
  DestinationIsFed
PROPERTIES
  StartedIsServed
  DestinationsChangeWhilePaused
  RequestsEnd
