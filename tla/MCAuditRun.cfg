SPECIFICATION AuditSpec
CONSTANTS
  Pages = {"home", "a", "b"}
  Base = "home"
  Variants <- MCVariants
  Sites <- MCSites
  Files <- MCFiles
  Options <- MCOptions
  Autonomy = "autopilot"
  MaxPages = 3
  MaxRuns = 2
  MaxEdits = 1
  MaxDecisions = 1
INVARIANTS
  
  QueueFollowsRun
  NothingCriticalInBulk
  
PROPERTIES
  FixedIsExplained
CHECK_DEADLOCK FALSE
