SPECIFICATION WorkspaceSpec
CONSTANTS
  Browsers = {b1, b2}
  Tabs = {t1, t2}
  Findings = {f1}
  Requests = {q1, q2}
  None = None
  MaxUpdates = 3
  MaxPushes = 2
  MaxFaults = 1
SYMMETRY Symmetric

  
  
PROPERTIES
  
  AccountLossExplained
CHECK_DEADLOCK FALSE
