SPECIFICATION Spec
CONSTANTS
  Scenarios = {"chain", "diamond", "fork", "letters", "sort", "flow", "insert", "upsert", "replace", "edgar", "pages"}
  ChainNode = {"a", "b", "c"}
  ChainEdge <- Path
  DiamondNode = {"a", "b", "c", "d"}
  DiamondEdge <- Rhombus
  ForkNode = {"a", "b", "d"}
  ForkEdge <- Prong
  BranchNode = {"a", "b", "c"}
  BranchEdge <- Twigs
  Items = {"i1", "i2"}
  MaxRetries = 1
  SortedNode = {"a", "b", "c"}
  MaxEdges = 2
  FlowTypes = {"webhook_source", "file_source", "file_parser", "merge", "sdk_query_store"}
  FlowNodes = 3
  FlowEdges = 2
  Absent = Absent
  WriterRuns = {"a", "b"}
  Workers = {"v", "w"}
  Keys = {1, 2}
  Vals = {1}
  MaxRows = 2
  WriterRetries = 2
  WriterFaults = 2
  NumTickers = 2
  MaxFilings = 2
  MaxHits = 3
  PageCount = 3
  Concurrency = 2
  OcrMode = "auto"
  Tables = TRUE
  Pdfs = 2
  PageFaults = 2
  NoNode = NoNode
  NoOne = NoOne
  None = None
  NotUsed = NotUsed
INVARIANTS
  TypeOK
  CompletedRunsAreWhole
  NoFailureIsBuried
  SortIsExact
  DataIsOfItsType
  FailuresAreContained
  PagesAreIsolated
PROPERTIES
  FullRunsIgnoreLetters
  DeliveryIsExact
CHECK_DEADLOCK FALSE
