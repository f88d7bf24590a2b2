\* Every component that shares no state with another, one at a time.
SPECIFICATION ServicesSpec
CONSTANTS
  Components = {"notifications", "audit", "profiles", "profile-list", "entitlements", "metrics",
                "schedules", "processes", "readiness", "retention", "queues", "errors", "http"}
  Attempts = 2
  Notices <- TwoNotices
  Deliveries = {1, 2}
  PruneBatch = 1
  PrunePasses = 2
  MaxFaults = 2
  Events <- ThreeEvents
  Redeliveries = {1}
  PageLimit = 1
  Retention = 1
  MaxNow = 2
  AuditBatch = 1
  AuditPasses = 2
  CreateJobs = {1, 2}
  Edits = {1, 2}
  Characters <- Letters
  LocalParts <- TwoLocalParts
  Changes <- ThreeChanges
  Avatars = {1}
  MIN_LENGTH = 2
  MAX_LENGTH = 6
  Members <- ThreeMembers
  PageSize = 1
  Tenants = {1, 2}
  Calls = {1, 2}
  CACHE_TTL = 1
  MAX_CACHED_TENANTS = 1
  MaxTime = 2
  MaxPlans = 1
  Sources = {1, 2}
  Scrapes = {1, 2}
  SCRAPE_TTL = 1
  TIMEOUT = 1
  MaxClock = 4
  ScheduleQueues <- TwoQueues
  CronOf <- Crons
  Starters = {1, 2, 3}
  Legacy = {3}
  MaxStarts = 4
  Hosted <- AllInOneAndWorker
  ProviderLists <- Containers
  MaxSignals = 2
  Probes = {1}
  MaxTurns = 4
  SessionIds = {1, 2, 3}
  VerificationIds = {4}
  Lifetime = 1
  GRACE = 1
  BATCH = 1
  MAX_PRUNE_PASSES = 4
  LastHour = 5
  AttemptSeconds = 60
  AcceptLanguages <- Languages
  InFlightRequests = {1, 2}
  Shapes <- RequestKinds
  Failures <- HandlerFailures
  METRICS_ALLOW_LIST <- OneNetwork
  EDGE_MAX = 1
  API_MAX = 1
  ACCOUNT_MAX = 1
  TrustInbound = TRUE
  MaxOutages = 1
INVARIANTS
  ServicesTypeOK
  MailedOnce
  RecordedOnce
  WalksAreComplete
  ProfileIsSound EditsAddUp
  CacheBounded StaleForTTL
  QueuesAreServedOnce
  CleanExitClosesAll
  ReportsAreTrue
  OverdueAndNoMore
  NoLongerThanItsLink
  
  ErrorsAreProblems 
PROPERTIES
  ClientsOutliveWorkers
CHECK_DEADLOCK FALSE
