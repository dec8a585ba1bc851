SPECIFICATION Spec
CONSTANTS
  Handlers = {h1, h2}
  KnowledgeBases = {k1, k2}
  k1 = k1
  k2 = k2
  Docs = {d1, d2, d3}
  d1 = d1
  d2 = d2
  d3 = d3
  Models = {m1, m2, m3}
  m3 = m3
  m1 = m1
  m2 = m2
  Stores = {w, q}
  w = w
  q = q
  Weaviate = {w}
  DefaultSize = 1
  Dimension <- MCDimension
  Capital <- MCCapital
  Weight = 2
  OverfetchFactor = 2
  BranchFloor = 1
  BranchCap = 2
  None = None
  Scenarios <- MCScenarios
INVARIANTS
  AnswersAreComparable
  ChatReadsBackingIndex
  HybridRespectsBranches
  BoundIsPresent
CHECK_DEADLOCK FALSE
