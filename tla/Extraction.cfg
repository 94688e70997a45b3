SPECIFICATION FairSpec
CONSTANTS
  d1 = d1
  d2 = d2
  Null = Null
  Docs <- TwoDocs
  Contents <- AllContents
  HasOcr = TRUE
  MinChars = 50
  MaxRenderPixels = 50
  MaxImagePixels = 50
  MaxImages = 4
  MaxMember = 5
  MaxTotal = 9
  MaxRatio = 3
  MaxFailed = 2
  MaxItems = 1
  MaxVersions = 2
  MaxStops = 1
CHECK_DEADLOCK FALSE
INVARIANTS
  TypeOK
  DoneIsWhole
  ScansRecognised
  VisibleTextOnly
  PassesBounded
  AttemptsEnd
PROPERTIES
  AuditTrail
  RunAdvances
  EventuallySettled
