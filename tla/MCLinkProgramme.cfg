SPECIFICATION Spec
CONSTANTS
  Panels = {p1, p2}
  Sources = {"s1", "s2"}
  DomainOf <- MCDomainOf
  PageText <- MCPageText
  Prospects <- MCProspects
  VerifyLimit = 2
  BatchSize = 1
  MaxOps = 3
  MaxApproaches = 1
SYMMETRY Symmetric
INVARIANTS
  ConfirmedWasRead
  
PROPERTIES
  LossExplained
CHECK_DEADLOCK FALSE
