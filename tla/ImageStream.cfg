CONSTANTS
  Analytics = {a1, a2}
  Size = 2
  MaxImages = 4
SPECIFICATION LiveSpec
INVARIANTS
  InOrderOnce
  OneMissedPerEviction
PROPERTIES
  ImplementsMulticast
  QueueDrains
  PauseEnds
\* The server process may crash on a deleted image.
CHECK_DEADLOCK FALSE
