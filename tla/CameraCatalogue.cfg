CONSTANTS
  k2 = k2
  Connectors = {k1, k2}
  Vmses = {v1, v2}
  Cameras = {1, 2}
  Streams = {1, 2}
  Monitors = {m1, m2}
  ByHand = ByHand
  None = None
SPECIFICATION Spec
CONSTRAINT FewRows
INVARIANTS
  OfferedIsFound
  VerifiedUnderVerified
  OneCameraPerMonitor
PROPERTIES
  InUseIsKept
SYMMETRY Symmetry
\* The rows may all be in use.
CHECK_DEADLOCK FALSE
