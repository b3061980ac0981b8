SPECIFICATION Spec
CONSTANTS
  Procs = {p, q, r}
  NoFile = NoFile
  MaxDeaths = 1
  MaxFaults = 0
INVARIANTS
  MutualExclusion
CHECK_DEADLOCK FALSE
