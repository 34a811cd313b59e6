SPECIFICATION SchedulerFairSpec
CONSTANTS
  Workers = {w1, w2}
  Schedules = {j1, j2}
  Null = Null
  Period = 1
  Lease = 1
  ClaimLimit = 1
  BackoffAfter = 1
  DisableAfter = 2
  BackoffCap = 3
  MaxTime = 3
  MaxEdits = 1
INVARIANT ExclusiveUnlessRacedOrOutlived
PROPERTIES DueSchedulesRun
CHECK_DEADLOCK FALSE
