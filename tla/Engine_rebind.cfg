SPECIFICATION Spec
CONSTANTS
  None = None
  NoEtag = ""
  Etags = {"", "v1", "v2"}
  MaxLen = 3
  Resources = {1, 2}
  Urls = {"a", "b"}
  UrlOf <- UrlOfPair
  SizeOf <- SizeOfPair
  EtagOf <- EtagOfPair
  SegChoices = {2}
  MaxSegments = 2
  Retries = 1
  MaxChunk = 2
  AcceptRanges = {TRUE}
  SizeReports = {TRUE}
  Faults = {"rebind"}
PROPERTIES
  PromotesOneContent
