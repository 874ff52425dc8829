CONSTANTS
  None = None
  a1 = a1
  a2 = a2
  i1 = i1
  i2 = i2
  n1 = n1
  s1 = s1
  s2 = s2
  Analytics = {a1, a2}
  Instances = {i1, i2}
  Inputs = {n1}
  Streams = {s1, s2}
  InputOf <- MCInputOf
  MaxLate = 1
  MaxDbFailures = 1
SPECIFICATION Spec
CONSTRAINTS
  OneMishap
  FewRows
SYMMETRY MCSymmetry
INVARIANTS
  StoppedIsTrue
  RunsAsConfigured
  RepliesUnderstood
