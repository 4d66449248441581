SPECIFICATION Spec
CONSTANTS
  None = None
  NoEtag = ""
  Etags = {"", "v1", "v2"}
  MaxLen = 3
  Resources = {1, 2, 3}
  Urls = {"a"}
  UrlOf <- UrlOfThree
  SizeOf <- SizeOfThree
  EtagOf <- EtagOfThree
  SegChoices = {1, 3}
  MaxSegments = 3
  Retries = 1
  MaxChunk = 2
  AcceptRanges = {TRUE, FALSE}
  SizeReports = {TRUE, FALSE}
  Faults = {"kill"}
INVARIANTS
  SidecarSound
PROPERTIES
  ImplementsDelivery
