SPECIFICATION Spec
CONSTANTS
  Scenarios = {"view", "log", "append", "incremental", "cycles", "insert", "rest", "two_files", "parsers", "draws", "discord"}
  RecordIds = {k1, k2}
  LineBatch = 2
  ViewValues = {"v1", "v2"}
  ViewChars = 5
  ViewFaults = 1
  LogValues = {"v1"}
  LogChars = 4
  LogFaults = 2
  RowValues = {"a", "b"}
  IncrRows = 4
  IncrPage = 2
  IncrRecords = 3
  IncrCommits = 2
  IncrCycles = 1
  IncrFaults = 1
  CycleRows = 2
  CyclePage = 1
  CycleRecords = 0
  CycleCommits = 3
  CycleCycles = 3
  CycleFaults = 1
  InsertRows = 2
  InsertPage = 1
  InsertRecords = 1
  InsertCommits = 2
  InsertCycles = 2
  InsertFaults = 2
  Requests = 4
  PerPage = 2
  ApiValues = {"a", "b"}
  Types = {"t", "s"}
  Foreign = {4}
  AllowCrossOrigin = FALSE
  MaxPages = 2
  ApiRecords = 3
  ApiRetries = 1
  ApiChanges = 1
  ApiCycles = 2
  ApiFaults = 1
  Paths = {1, 2}
  FilesVersions = {2, 3}
  FilesParsers = {1}
  FilesDraws = {1}
  FilesLength <- OfVersions
  FilesInterval = 2
  FilesChanges = 3
  FilesFaults = 2
  ParsersVersions = {2, 3}
  ParsersParsers = {1, 2}
  ParsersDraws = {1}
  ParsersLength <- OfParsers
  ParsersInterval = 2
  ParsersChanges = 3
  ParsersFaults = 2
  DrawsVersions = {1, 2}
  DrawsParsers = {1}
  DrawsDraws = {1, 2}
  DrawsLength <- OfDraws
  DrawsInterval = 1
  DrawsChanges = 2
  DrawsFaults = 2
  ChannelPage = 2
  ChannelRetries = 1
  ChannelIds = 5
  ChannelDeletes = 2
  ChannelFaults = 3
  Absent = Absent
  None = None
  NoKey = NoKey
  NL = NL
  Torn = Torn
  NoType = NoType
  NoPage = NoPage
  NotUsed = NotUsed
INVARIANTS
  CheckpointedIsDelivered
  NothingIsDeliveredTwice
  CheckpointIsValid
  NoStaleElements
PROPERTIES
  ImplementsPrefixView
  CyclesAreComplete
  CheckpointsOnlyExtend
CHECK_DEADLOCK FALSE
