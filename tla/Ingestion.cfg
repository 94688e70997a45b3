SPECIFICATION FairSpec
CONSTANTS
  file1 = file1
  url1 = url1
  a = a
  b = b
  Null = Null
  Sources <- FileAndUrl
  Urls <- UrlOnly
  Contents <- TwoContents
  MaxItems = 1
  MaxEditions = 2
  MaxStops = 1
CHECK_DEADLOCK FALSE
INVARIANTS
  TypeOK
  VersionsFollowEditions
  VersionsHaveOriginals
  SettledIsCurrent
PROPERTIES
  NoStarvation
