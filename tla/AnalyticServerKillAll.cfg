CONSTANTS
  Ids = {1, 2}
  NO_ANALYTICS = 2
  STARTING_PORT = 5555
  MaxStarts = 3
SPECIFICATION Spec
INVARIANT
  KilledAreRemoved
CHECK_DEADLOCK FALSE
