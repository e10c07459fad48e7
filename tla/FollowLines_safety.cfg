SPECIFICATION SafeSpec
CONSTANTS
  NL = NL
  Bytes = {a, b}
  MaxLineSize = 3
  BufSize = 2
  QueueLimit = 2
  MaxFile = 5
  MaxSaves = 1
CHECK_DEADLOCK FALSE
SYMMETRY Symmetry
INVARIANTS
  Inv
  TypeOK
  NoLostWakeup
  LegalLineNeverRejected
  LineBound
PROPERTIES
  ImplementsFeed
  ReaderFinishes
