\* What the request histogram is told of a request, and what its caller is told.
SPECIFICATION HttpSpec
CONSTANTS
  InFlightRequests = {1, 2}
  Shapes <- RequestKinds
  Failures <- HandlerFailures
  METRICS_ALLOW_LIST <- OneNetwork
  EDGE_MAX = 1
  API_MAX = 1
  ACCOUNT_MAX = 1
  TrustInbound = TRUE
  MaxOutages = 1
INVARIANTS
  ObservedStatusIsSent
CHECK_DEADLOCK FALSE
