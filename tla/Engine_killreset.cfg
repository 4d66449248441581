SPECIFICATION Spec
CONSTANTS
  None = None
  NoEtag = ""
  Etags = {"", "v1", "v2"}
  MaxLen = 3
  Resources = {1, 2}
  Urls = {"a"}
  UrlOf <- UrlOfOne
  SizeOf <- SizeOfOne
  EtagOf <- EtagOfOne
  SegChoices = {1, 2}
  MaxSegments = 2
  Retries = 1
  MaxChunk = 2
  AcceptRanges = {TRUE}
  SizeReports = {TRUE}
  Faults = {"kill", "killreset"}
PROPERTIES
  PromotesOneResource
