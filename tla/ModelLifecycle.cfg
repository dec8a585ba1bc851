SPECIFICATION Spec
CONSTANTS
  Models = {m1}
  CloudSettings = {api}
  Credentials = {k1, k2}
  NoCredential = NoCredential
  Handlers = {h1, h2}
  Workers = {w1, w2}
  NoModel = NoModel
  Nobody = Nobody
  MaxJobs = 2
  MaxRequests = 5
  MaxCrashes = 1
INVARIANTS
  ServedWasTested
PROPERTIES
  DownloadsAreQueued
SYMMETRY MCSymmetry
