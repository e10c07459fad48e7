SPECIFICATION Spec
CONSTANTS
  x = x
  y = y
  m1 = m1
  m2 = m2
  m3 = m3
  dagpb = dagpb
  raw = raw
  blake3 = blake3
  host = host
  unknown = unknown
  Slash = Slash
  Star = Star
  Plus = Plus
  Space = Space
  SHA2_256 = SHA2_256
  Letters = {x, y}
  Cids <- MCCids
  SafeCids <- MCSafeCids
  Rules <- FewRules
  Queries <- FewQueries
  Readers = {r1}
  MaxLines = 2
CHECK_DEADLOCK FALSE
INVARIANTS
  AnswersWhileFollowing
