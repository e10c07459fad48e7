SPECIFICATION Spec
CONSTANTS
  NL = NL
  Bytes = {a}
  MaxLineSize = 5
  BufSize = 2
  QueueLimit = 1
  MaxFile = 3
  MaxSaves = 0
CHECK_DEADLOCK FALSE
PROPERTIES
  FollowsUntilClosed
