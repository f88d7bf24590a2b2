\* One file that two requests confirm while it is swept and purged.
SPECIFICATION Spec
CONSTANTS
  MaxFiles = 1
  Users = {u1}
  Owner <- MCOwner
  Requests = {r1, r2}
  Sweepers = {s1}
  Types = {"png", "pdf", "script"}
  Allowed = {"png", "pdf"}
  MaxFileBytes = 1
  Drivers = {"s3", "local"}
  SweepBatch = 1
  PurgeBatch = 1
  PurgeAttempts = 2
  MaxPuts = 2
  NULL = NULL
INVARIANTS
  ConfirmedHasObject
  OneEventPerUpload
  CheckedBytes
PROPERTIES
  ConfirmedStays
SYMMETRY Symmetry
CHECK_DEADLOCK FALSE
