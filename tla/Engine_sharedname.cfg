SPECIFICATION Spec
CONSTANTS
  None = None
  NoEtag = ""
  Etags = {"", "v1", "v2"}
  MaxLen = 3
  Resources = {1, 2, 3}
  Urls = {"a", "b"}
  UrlOf <- UrlOfTwo
  SizeOf <- SizeOfTwo
  EtagOf <- EtagOfTwo
  SegChoices = {1, 2}
  MaxSegments = 2
  Retries = 2
  MaxChunk = 2
  AcceptRanges = {TRUE}
  SizeReports = {TRUE}
  Faults = {"kill"}
INVARIANTS
  TypeOK
  SidecarSound
PROPERTIES
  PromotesOneResource
