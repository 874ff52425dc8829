\* Two streams overlap in the check, the write and the count.
CONSTANTS
  s1 = s1
  s2 = s2
  Streams = {s1, s2}
  MaxSize = 2
  Modulus = 8
  Clock <- MCClock
  Width = 4
  Height = 3
  InputName <- MCInputName
  OtherName <- MCOtherName
SPECIFICATION PathSpec
INVARIANTS
  OutstandingBounded
  CounterExact
  ShownAndSavedAreTrue
