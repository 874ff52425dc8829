CONSTANTS
  i1 = i1
  i2 = i2
  Ids = {i1, i2}
  NO_ANALYTICS = 2
  STARTING_PORT = 5555
  MaxStarts = 3
  MaxCrashes = 1
  None = None
SPECIFICATION LinkSpec
SYMMETRY Symmetry
INVARIANTS
  PortsHandedOutOnce
  CapacityAccounted
  RunningIsReachable
  AddressesAreServed
  OrphansHaveACause
  MessagesAreRead
\* The Analytic Server may abort, and the client then waits for ever.
CHECK_DEADLOCK FALSE
