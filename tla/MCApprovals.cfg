SPECIFICATION Spec
CONSTANTS
  Sessions = {s1, w1}
  Workers = {w1}
  ApprovalIds = {a1, a2}
  Kinds <- MCKinds
  Expiry = 1
  SweepLimit = 1
  NoDelay = NoDelay
  MaxTime = 1
  MaxAborts = 1
INVARIANTS ReplayedOnceUnlessRaced
PROPERTY DecisionsStick
CHECK_DEADLOCK FALSE
SYMMETRY Symmetry
