SPECIFICATION Spec
CONSTANTS
  merge = merge
  delete = delete
  scan = scan
  upload = upload
  w1 = w1
  w2 = w2
  r1 = r1
  r2 = r2
  Jobs = {delete}
  Imports = {upload}
  Noise = {}
  BatchDeletes = {delete}
  Cancellable = {delete}
  Turns <- MCTurns
  Workers = {w1}
  Requests = {r1, r2}
  Nobody = Nobody
  MaxAttempts = 2
  MaxFaults = 2
  MaxRetries = 2
  LateErrors = {delete, upload}
INVARIANTS Inductive AttemptsBounded RunningIsOwned CommitOnce ImportsCommitOnce
PROPERTIES CancelledIsFinal
