SPECIFICATION Spec
CONSTANTS
  e1 = e1
  e2 = e2
  v1 = v1
  v2 = v2
  c1 = c1
  d1 = d1
  d2 = d2
  r1 = r1
  r2 = r2
  Artifacts = {e1}
  Viewers = {v1}
  Claims = {c1}
  Responses = {d1, d2}
  Reclaimers = {r1, r2}
  None = None
  Retention = 2
  ViewerTime = 1
  ClaimTime = 1
  DownloadTime = 2
  Backoff = 1
  Limit = 1
  MaxRun = 1
  MaxFailures = 1
SYMMETRY Interchangeable
INVARIANTS Inductive LeasesHold TransferKeepsFile StatusIsTrue
PROPERTIES RemovedInTurn
