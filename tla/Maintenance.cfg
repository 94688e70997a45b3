SPECIFICATION MSpec
CONSTANTS
  f = f
  x = x
  y = y
  Null = Null
  Sources <- OneFile
  Urls <- None
  Contents <- XY
  MaxItems = 1
  MaxEditions = 2
  MaxStops = 1
  MaxPurges = 2
  MaxRestores = 2
CHECK_DEADLOCK FALSE
INVARIANTS
  PurgeKeepsOriginals
  RestoredRecordsAgree
PROPERTIES
  PurgeRecoverable
