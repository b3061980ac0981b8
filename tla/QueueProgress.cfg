SPECIFICATION FairSpec
CONSTANTS
  m1 = m1
  m2 = m2
  w1 = w1
  t1 = t1
  Ids = {m1, m2}
  Kinds = {"prompt", "command"}
  Tokens = {w1}
  Ticks = {t1}
  NoToken = NoToken
  NoId = NoId
  QueueLimit = 2
  CompletedLimit = 2
  MaxActs = 2
  MaxFaults = 0
  MaxRestarts = 1
PROPERTIES
  HeadMoves
  UndecidedReconciled
  LeasesEnd
  SendingEnds
CHECK_DEADLOCK FALSE
