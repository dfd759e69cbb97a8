SPECIFICATION Spec
CONSTANTS
  merge = merge
  delete = delete
  scan = scan
  upload = upload
  w1 = w1
  w2 = w2
  r1 = r1
  r2 = r2
  Jobs = {merge}
  Imports = {}
  Noise = {}
  BatchDeletes = {}
  Cancellable = {merge}
  Turns <- MCTurns
  Workers = {w1}
  Requests = {}
  Nobody = Nobody
  MaxAttempts = 2
  MaxFaults = 1
  MaxRetries = 0
  LateErrors = {}
PROPERTIES CancelHonoured
