SPECIFICATION FairSpec
CONSTANTS
  dir = dir
  file = file
  other = other
  note = note
  letter = letter
  Paths = {dir, file, other, note, letter}
  Dirs = {dir}
  Parent <- MCParent
  Plan <- MCPlan
  Before <- MCBefore
  TopLevel = TopLevel
  NoPath = NoPath
  NoJournal = NoJournal
  MaxCrashes = 3
  MaxEdits = 2
INVARIANTS
  TypeOK
  RolledBackClean
PROPERTIES
  OwnersContentStands
  NoCreateAfterRemoval
  JournalIsAllOrNothing
  RollbackEnds
  TransactionEnds
CHECK_DEADLOCK FALSE
