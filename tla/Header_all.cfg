SPECIFICATION Spec
CONSTANTS
  NL = NL
  Bytes <- MCBytes
  Separator <- MCSeparator
  MaxHeaderSize = 5
  BufSize = 2
  MaxFile = 7
  dash = dash
  a = a
CHECK_DEADLOCK FALSE
INVARIANTS
  Inv
  RulesBegin
  HeaderSeen
