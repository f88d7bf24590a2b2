\* What each component owes, under fairness of its own steps.
SPECIFICATION FairServicesSpec
CONSTANTS
  Components = {"notifications", "audit", "profiles", "metrics",
                "processes", "readiness", "retention", "http"}
  Attempts = 2
  Notices <- OneNotice
  Deliveries = {1, 2}
  PruneBatch = 1
  PrunePasses = 2
  MaxFaults = 1
  Events <- TwoEvents
  Redeliveries = {1}
  PageLimit = 1
  Retention = 1
  MaxNow = 2
  AuditBatch = 1
  AuditPasses = 2
  CreateJobs = {1, 2}
  Edits = {1}
  Characters <- Letters
  LocalParts <- OneLocalPart
  Changes <- OneChange
  Avatars = {1}
  MIN_LENGTH = 2
  MAX_LENGTH = 6
  Members <- ThreeMembers
  PageSize = 1
  Tenants = {1, 2}
  Calls = {1, 2}
  CACHE_TTL = 1
  MAX_CACHED_TENANTS = 1
  MaxTime = 2
  MaxPlans = 1
  Sources = {1, 2}
  Scrapes = {1, 2}
  SCRAPE_TTL = 1
  TIMEOUT = 1
  MaxClock = 3
  ScheduleQueues <- TwoQueues
  CronOf <- Crons
  Starters = {1, 3}
  Legacy = {3}
  MaxStarts = 3
  Hosted <- AllInOneAndWorker
  ProviderLists <- NoHandlers
  MaxSignals = 1
  Probes = {1}
  MaxTurns = 2
  SessionIds = {1, 2}
  VerificationIds = {4}
  Lifetime = 1
  GRACE = 1
  BATCH = 1
  MAX_PRUNE_PASSES = 4
  LastHour = 5
  AttemptSeconds = 60
  AcceptLanguages <- Languages
  InFlightRequests = {1, 2}
  Shapes <- FewKinds
  Failures <- OneFailure
  METRICS_ALLOW_LIST <- OneNetwork
  EDGE_MAX = 1
  API_MAX = 1
  ACCOUNT_MAX = 1
  TrustInbound = TRUE
  MaxOutages = 1
PROPERTIES
  QueuedWorkIsDone CallersAreAnswered
   OverdueIsDeleted
CHECK_DEADLOCK FALSE
