SPECIFICATION Spec
CONSTANTS
  m1 = m1
  m2 = m2
  m3 = m3
  t1 = t1
  Ids = {m1, m2, m3}
  Kinds = {"prompt"}
  Tokens = {}
  Ticks = {t1}
  NoToken = NoToken
  NoId = NoId
  QueueLimit = 3
  CompletedLimit = 3
  MaxActs = 6
  MaxFaults = 0
  MaxRestarts = 1
SYMMETRY Symmetry
INVARIANTS
  RestoredWaits
CHECK_DEADLOCK FALSE
