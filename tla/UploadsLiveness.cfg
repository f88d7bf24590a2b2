\* Two files in batches of one, under fairness.
SPECIFICATION FairSpec
CONSTANTS
  MaxFiles = 2
  Users = {u1}
  Owner <- MCOwner
  Requests = {r1}
  Sweepers = {s1}
  Types = {"png"}
  Allowed = {"png"}
  MaxFileBytes = 1
  Drivers = {"local"}
  SweepBatch = 1
  PurgeBatch = 1
  PurgeAttempts = 2
  MaxPuts = 1
  NULL = NULL
PROPERTIES
  EveryUploadSettles
  DeletedUsersFilesGo
CHECK_DEADLOCK FALSE
