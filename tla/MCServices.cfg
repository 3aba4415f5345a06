SPECIFICATION Spec
CONSTANTS
  Scenarios = {"schedules", "webhooks", "replay", "uploads", "artifacts", "feed", "deploy", "connections", "connections_serial", "versions"}
  Processes = {"p1", "p2"}
  NumTriggers = 1
  Batch = 1
  PollSkew = 1
  Periods = {2}
  Poison = {}
  PollTime = 4
  PollEdits = 2
  PollFaults = 1
  Window = 1
  Stall = 1
  HookEdits = 1
  RatedDeliveries = {1, 2}
  RatedRequests = {"q1", "q2", "q3"}
  RatedSkew = 0
  RatedRetention = 2
  RatedDrift = 0
  RatedLimits = {1, 2}
  RatedTime = 4
  CopiedDeliveries = {1}
  CopiedRequests = {"q1", "q2"}
  CopiedSkew = 1
  CopiedRetention = 7
  CopiedDrift = 1
  CopiedLimits = {2}
  CopiedTime = 10
  Uploaders = {"r1", "r2"}
  UploadFiles = {"f1", "f2", "f3"}
  RequestOf <- UploadedBy
  Size <- Chunks
  MaxFile = 2
  MaxOwner = 3
  MaxRequest = 2
  MaxAge = 1
  UploadTime = 4
  Queries = {"q1", "q2"}
  Pruners = {"p1"}
  Items = {1}
  TTL = 2
  Slow = 1
  MaxExecutions = 2
  ArtifactTime = 5
  Sockets = {"c1", "c2", "c3"}
  Senders = {"s1", "s2"}
  Rows = {"r1", "r2"}
  VolumeFiles = {"f1", "f2"}
  LegacyFiles = {"f1", "f2"}
  MaxStops = 1
  Owner = "owner"
  Admin = "admin"
  Stranger = "stranger"
  EditRequests = {"q1", "q2", "q3"}
  EditType = "postgres"
  EditConfigs = 3
  TestRequests = {"q1", "q2"}
  TestType = "discord"
  TestConfigs = 4
  Savers = {"p", "q"}
  Starters = {"s"}
  Deleters = {"d"}
  ManagedFiles = {"f"}
  MaxVersions = 3
  MaxRuns = 1
  NoOne = NoOne
  NoFile = NoFile
  Nobody = Nobody
  NotUsed = NotUsed
INVARIANTS
  WebhooksAreGuarded
  UploadsAreAtomic
  PromisesAreKept
  FeedIsExact
  ConnectionsAreSound
  VersionsAreSound
PROPERTIES
  SchedulesAreKept
  StartsAreSafe
CHECK_DEADLOCK FALSE
