SPECIFICATION FairSpec
CONSTANTS
  None = None
  NoEtag = ""
  Etags = {"", "v1", "v2"}
  MaxLen = 3
  Resources = {1, 2}
  Urls = {"a"}
  UrlOf <- UrlOfOne
  SizeOf <- SizeOfOne
  EtagOf <- EtagOfOne
  SegChoices = {2}
  MaxSegments = 2
  Retries = 2
  MaxChunk = 2
  AcceptRanges = {TRUE, FALSE}
  SizeReports = {TRUE, FALSE}
  Faults = {"rebind"}
INVARIANTS
  GateNeverTrips
  NoWriterLeft
PROPERTIES
  RunEnds
