SPECIFICATION EditSpec
CONSTANTS
  NL = NL
  Bytes = {a}
  MaxLineSize = 3
  BufSize = 2
  QueueLimit = 2
  MaxFile = 3
  MaxSaves = 1
CHECK_DEADLOCK FALSE
INVARIANTS
  TornOncePerSave
  EditInv
PROPERTIES
  AppendedDelivered
  CloseStops
