\* Two overlapping runs with batches of one, and two events, one of them invalid.
SPECIFICATION FairSpec
CONSTANTS
  Events = {1, 3}
  Invalid = {3}
  Subscribers <- MCOneSubscriber
  MaxFanout = 1
  Drainers = {d1, d2}
  Tokens = {11, 12, 13, 14}
  BatchSize = 1
  MaxAttempts = 2
  MaxPasses = 2
  Lease = 0
  DedupWindow = 1
  Retention = 0
  NULL = NULL
PROPERTIES
  LiveClaimRespected
  EventuallySettled
CHECK_DEADLOCK FALSE
