SPECIFICATION FairSpec
CONSTANTS
  Computers = {c1, c2}
  Accounts = {x, y}
  Member = x
  Values = {v, w}
  Initial = v
  NoAccount = NoAccount
  MaxEdits = 2
  MaxSignIns = 1
  MaxFaults = 1
INVARIANTS
  UploadsAreFounded
PROPERTIES
  EditGivesWayToOthersOnly
  EditsArrive
CHECK_DEADLOCK FALSE
