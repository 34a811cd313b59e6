SPECIFICATION FairSpec
CONSTANTS
  Sites = {s1, s2}
  Tabs = {t1}
  Milestones = {m1}
  News = {n1}
  Null = Null
  Off = Off
  Periods <- MCPeriods
  DueLimit = 1
  NewsLimit = 1
  MaxTime = 1
  MaxSaves = 2
  MaxFaults = 1
INVARIANTS
  ReadOnceUnlessReopened
  MailedOnceUnlessUnmarked
PROPERTY OverdueJobsMove
CHECK_DEADLOCK FALSE
