SPECIFICATION LiveSpec
CONSTANTS
  c1 = c1
  c2 = c2
  u1 = u1
  u2 = u2
  r1 = r1
  r2 = r2
  bytes = bytes
  alice = alice
  bob = bob
  Conversations = {c1, c2}
  Uploads = {u1, u2}
  Requests = {r1}
  Worker = worker
  Owner <- OwnerOf
  Home <- HomeOf
  Content <- SameContent
  Target <- TargetOf
  None = None
  Null = Null
  MaxAttempts = 2
  MaxFaults = 2
CHECK_DEADLOCK FALSE
INVARIANTS Inductive ObjectsHaveBytes AttachmentsKeepObjects TombstoneHasJob
PROPERTIES DeletionFinishes
