SPECIFICATION Spec
CONSTANTS
  d1 = d1
  d2 = d2
  Null = Null
  Docs <- OneDoc
  Contents <- Shows
  HasOcr = TRUE
  MinChars = 50
  MaxRenderPixels = 50
  MaxImagePixels = 50
  MaxImages = 4
  MaxMember = 5
  MaxTotal = 9
  MaxRatio = 3
  MaxFailed = 3
  MaxItems = 2
  MaxVersions = 1
  MaxStops = 1
CHECK_DEADLOCK FALSE
INVARIANTS
  DocumentWithinTotal
