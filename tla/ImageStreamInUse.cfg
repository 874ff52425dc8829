CONSTANTS
  Analytics = {a1, a2}
  Size = 2
  MaxImages = 4
SPECIFICATION Spec
INVARIANT
  FrontStaysWhileInUse
CHECK_DEADLOCK FALSE
