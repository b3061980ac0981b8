SPECIFICATION Spec
CONSTANTS
  m1 = m1
  t1 = t1
  Ids = {m1}
  Kinds = {"prompt"}
  Tokens = {}
  Ticks = {t1}
  NoToken = NoToken
  NoId = NoId
  QueueLimit = 2
  CompletedLimit = 2
  MaxActs = 2
  MaxFaults = 0
  MaxRestarts = 0
INVARIANTS
  UserPauseStands
CHECK_DEADLOCK FALSE
