SPECIFICATION FairSpec
CONSTANTS
  Sessions = {s1, w1}
  Workers = {w1}
  ApprovalIds = {a1, a2}
  Kinds <- LiveKinds
  Expiry = 1
  SweepLimit = 1
  NoDelay = NoDelay
  MaxTime = 1
  MaxAborts = 0
PROPERTY EveryApprovalSettles
CHECK_DEADLOCK FALSE
