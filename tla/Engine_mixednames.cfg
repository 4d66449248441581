SPECIFICATION Spec
CONSTANTS
  None = None
  NoEtag = ""
  Etags = {"", "v1", "v2"}
  MaxLen = 3
  Resources = {1, 2, 3}
  Urls = {"a", "b"}
  UrlOf <- UrlOfTwo
  SizeOf <- SizeOfTwo
  EtagOf <- EtagOfTwo
  SegChoices = {1, 2}
  MaxSegments = 2
  Retries = 1
  MaxChunk = 2
  AcceptRanges = {TRUE, FALSE}
  SizeReports = {TRUE}
  Faults = {"kill"}
PROPERTIES
  PromotesOneResource
