SPECIFICATION Spec
CONSTANTS
  Agents = {a1, a2}
  Clients = {c1}
  Drafts = {good, bad}
  Sound = {good}
  Complete = {good, bad}
  Null = Null
  MaxCalls = 6
  MaxOps = 8
  MaxFaults = 1
INVARIANTS ReviewedPassed  LiveWasShown
CHECK_DEADLOCK FALSE
SYMMETRY Symmetry
