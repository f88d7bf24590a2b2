\* Two overlapping runs, two events, one of them with two subscribers.
SPECIFICATION Spec
CONSTANTS
  Events = {1, 2}
  Invalid = {}
  Subscribers <- MCSubscribers
  MaxFanout = 2
  Drainers = {d1, d2}
  Tokens = {11, 12, 13, 14}
  BatchSize = 2
  MaxAttempts = 2
  MaxPasses = 1
  Lease = 0
  DedupWindow = 1
  Retention = 0
  NULL = NULL
INVARIANTS
  DeadMeansExhausted
  JobsWithinAttempts
PROPERTIES
  ImplementsDelivery
SYMMETRY Symmetry
CHECK_DEADLOCK FALSE
