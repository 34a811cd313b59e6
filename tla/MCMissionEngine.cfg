SPECIFICATION FairSpec
CONSTANTS
  crawl = crawl
  audit = audit
  facts = facts
  report = report
  Steps <- MCSteps
  Needs <- MCNeeds
  OnError <- MCOnError
  Optional <- MCOptional
  Conditional <- MCConditional
  Retries = 1
  Concurrency = 2
  Limit = 2
  MaxCost = 1
  MaxFaults = 2
  MaxResumes = 1
INVARIANTS
  DependenciesFirst
  OverrunBounded
PROPERTIES
  CheckpointedNotRedone
  RunEnds
CHECK_DEADLOCK FALSE
