SPECIFICATION PairSpec
CONSTANTS
  MaxRemote = 2
  MaxLives = 1
CHECK_DEADLOCK FALSE
INVARIANTS
  OnlyMissingBytes
