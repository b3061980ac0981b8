SPECIFICATION FairSpec
CONSTANTS
  Servers = {s}
  Tasks = {t, u}
  Schedules <- SchedulesDef
  Endless <- EndlessDef
  NoTask = NoTask
  KeepRuns = 1
  MaxTime = 2
  MaxEdits = 0
  MaxCrashes = 0
PROPERTIES
  OthersAreTakenUp
CHECK_DEADLOCK FALSE
