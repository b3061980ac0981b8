SPECIFICATION Spec
CONSTANTS
  m1 = m1
  m2 = m2
  w1 = w1
  t1 = t1
  Ids = {m1, m2}
  Kinds = {"prompt"}
  Tokens = {w1}
  Ticks = {t1}
  NoToken = NoToken
  NoId = NoId
  QueueLimit = 2
  CompletedLimit = 1
  MaxActs = 4
  MaxFaults = 0
  MaxRestarts = 1
SYMMETRY Symmetry
INVARIANTS
  TypeOK
  AtMostOnce
  SendingIsFirst
  InHandStays
PROPERTIES
  NeverRequeued
  LaterResumeWins
CHECK_DEADLOCK FALSE
