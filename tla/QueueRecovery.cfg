SPECIFICATION Spec
CONSTANTS
  m1 = m1
  m2 = m2
  t1 = t1
  t2 = t2
  Ids = {m1, m2}
  Kinds = {"prompt"}
  Tokens = {}
  Ticks = {t1, t2}
  NoToken = NoToken
  NoId = NoId
  QueueLimit = 2
  CompletedLimit = 6
  MaxActs = 3
  MaxFaults = 1
  MaxRestarts = 1
SYMMETRY Symmetry
INVARIANTS
  UncertainPauses
  RestartPauseStands
  RemovedStaysEmpty
  DeletionExcludesSend
PROPERTIES
  NoSilentLoss
  DeliversOnce
CHECK_DEADLOCK FALSE
