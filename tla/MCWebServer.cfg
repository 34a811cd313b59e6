SPECIFICATION ServerSpec
CONSTANTS
  Requests = {q1, q2}
  Runs = {r1, r2}
  Trips = {t1, t2}
  None = None
  MaxWorkspaces = 2
  MaxDeaths = 1
  MaxRequests = 4
SYMMETRY Symmetric
INVARIANTS
  
  WorkspaceIsOne
  
CHECK_DEADLOCK FALSE
