SPECIFICATION FairSpec
CONSTANTS
  a1 = a1
  a2 = a2
  b1 = b1
  c1 = c1
  A = A
  B = B
  C = C
  p = p
  q = q
  x = x
  y = y
  z = z
  Jobs = {a1, a2, b1, c1}
  Groups = {A, B, C}
  Providers = {p, q}
  Signals = {x, y, z}
  GroupOf <- GroupOfDef
  ProviderOf <- ProviderOfDef
  SignalOf <- SignalOfDef
  Concurrency = 1
  Attempts = 2
  MaxWait = 1
  MaxAborts = 1
  NoGroup = NoGroup
  NoTimer = NoTimer
INVARIANTS
  QueueOK
  NoLostWakeUp
  BoundedOvertaking
PROPERTIES
  EveryJobIsSettled
CHECK_DEADLOCK FALSE
