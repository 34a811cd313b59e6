SPECIFICATION MCSpec
CONSTANTS
  None = None
  Tasks = {k1, k2}
  Tools <- MixTools
  CallArgs <- MixArgs
  SitePolicies <- MixPolicies
  DryRun = FALSE
  Retries = 1
  MaxEdits = 1
  Steps = {e1, e2}
  Helpers = {h1}
  Lead = e1
  Nobody = Nobody
  AgentKeys = {"lead", "writer"}
  AgentOf <- MCAgentOf
  Ceiling <- MCCeiling
  Turns <- MCTurns
  Delegates <- MCDelegates
  Providers <- MCProviders
  Costs <- MCCosts
  Attempts = 2
  MaxDepth = 2
  RunLimit = 2
  OrgRemaining = 3
  StepRetries <- MCStepRetries
  ToolCosts = {1}
  MaxUses = 1
  MaxFaults = 2
  Waves <- MCWaves
INVARIANTS
  UnattendedIsPermitted
  QueuedAsAnswered
  
  SpendIsAccounted
CHECK_DEADLOCK FALSE
SYMMETRY Symmetry
