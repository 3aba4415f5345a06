CONSTANTS
    Scenarios = {"file", "table", "api", "directory", "channel", "schedules", "uploads", "feed", "deploy", "pages"}
    k1 = k1
    k2 = k2
    Absent = Absent
    None = None
    NoKey = NoKey
    NL = NL
    Torn = Torn
    NoType = NoType
    NoPage = NoPage
    NoOne = NoOne
    NoFile = NoFile
    Nobody = Nobody
    NotUsed = NotUsed
SPECIFICATION Spec
PROPERTIES
  SourcesCatchUp
  EveryScheduleFires
  WorkEnds
CHECK_DEADLOCK FALSE
