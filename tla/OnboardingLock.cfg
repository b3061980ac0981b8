SPECIFICATION FairSpec
CONSTANTS
  Procs = {p, q, r}
  NoFile = NoFile
  MaxDeaths = 2
  MaxFaults = 1
INVARIANTS
  TypeOK
  HolderHasFile
PROPERTIES
  DeadLocksReclaimed
CHECK_DEADLOCK FALSE
