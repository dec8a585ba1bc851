SPECIFICATION FairSpec
CONSTANTS
  Models = {m1, m2}
  m2 = m2
  None = None
  Unknown = Unknown
  Handlers = {h1, h2}
  Scenarios <- MCScenarios
INVARIANTS
  SlotFollowsOperator
PROPERTIES
  LoadsFollowOperator
  SlotHeals
