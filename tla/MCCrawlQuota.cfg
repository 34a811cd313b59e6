SPECIFICATION Spec
CONSTANTS
  h = h
  a = a
  b = b
  c = c
  d = d
  e = e
  f = f
  Url = {h, a, b, c, d, e, f}
  None = None
  Idle = Idle
  Sites <- MCSites
  BATCH = 1
  PARALLEL = 2
  maxPages = 4
  maxDepth = 2
  MAX_REDIRECTS = 2
  MaxSitemaps = 1
  MaxChildren = 2
  Deliveries = {d1, d2}
  Ceiling <- MCCeiling
  Kinds <- MCKinds
  MaxEvents = 2
  MaxCrashes = 1
INVARIANTS
  DepthIsShortest
  UncappedIsComplete
  FetchedWithinPlan
  PlanFollowsEvents
PROPERTIES
  PromiseKept
  CrawlEnds
CHECK_DEADLOCK FALSE
