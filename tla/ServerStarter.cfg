CONSTANTS
  Tries = 3
  MaxForks = 3
SPECIFICATION LiveStarterSpec
INVARIANTS
  NoServerLost
  StoppedIsTrue
PROPERTIES
  RequestsAreAnswered
