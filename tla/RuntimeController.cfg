SPECIFICATION FairSpec
CONSTANTS
  Ids = {m1, m2}
  Paths = {p1}
  None = None
  MaxLoads = 3
  MaxPolls = 1
  Unkillable = {2}
INVARIANTS
  ChildIsAccounted
PROPERTIES
  KeepsTheSlot
  TimeoutKillsItsModel
  LoadingResolves
