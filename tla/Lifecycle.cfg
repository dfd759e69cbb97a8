SPECIFICATION FairSpec
CONSTANTS
  merge = merge
  delete = delete
  scan = scan
  upload = upload
  w1 = w1
  w2 = w2
  r1 = r1
  r2 = r2
  Jobs = {merge, delete, scan}
  Imports = {upload}
  Noise = {scan}
  BatchDeletes = {delete}
  Cancellable = {delete}
  Turns <- MCTurns
  Workers = {w1}
  Requests = {r1}
  Nobody = Nobody
  MaxAttempts = 2
  MaxFaults = 1
  MaxRetries = 0
  LateErrors = {}
PROPERTIES ImplementsLifecycle NobodyOvertakes EveryTaskSettles
