SPECIFICATION FairSpec
CONSTANTS
  Handlers = {h1}
  Workers = {w1, w2}
  ManualDocs = {d1}
  Files = {f1}
  short = short
  w1 = w1
  Texts = {short, long}
  ChunksOf <- MCChunksOf
  MaxChunks = 2
  None = None
  Nobody = Nobody
  MaxRuns = 2
  Scenarios <- MCScenarios
INVARIANTS
  NoStaleChunk
  SuccessIsTrue
PROPERTIES
  RunsAreQueued
  QueuedRunsAreServed
