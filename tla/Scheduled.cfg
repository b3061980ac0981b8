SPECIFICATION FairSpec
CONSTANTS
  Servers = {s1, s2}
  Tasks = {t}
  Schedules <- SchedulesDef
  Endless <- EndlessDef
  NoTask = NoTask
  KeepRuns = 1
  MaxTime = 2
  MaxEdits = 1
  MaxCrashes = 1
INVARIANTS
  TypeOK
  OccurrenceSentOnce
  RunsAreDecided
  OneChatPerTask
PROPERTIES
  DeliversWhatIsSaved
  FailurePauses
  DueIsTakenUp
CHECK_DEADLOCK FALSE
