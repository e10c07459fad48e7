SPECIFICATION DistSpec
CONSTANTS
  a = a
  NL = NL
  Bytes = {a}
  Text <- MCText
  HeaderSize = 1
  MaxRemote = 5
  MaxLives = 3
CHECK_DEADLOCK FALSE
INVARIANTS
  Inv
  LocalIsPrefix
PROPERTIES
  DistributesFeed
  CatchesUp
  StopEnds
  RulesArrive
