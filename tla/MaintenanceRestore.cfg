SPECIFICATION MFairSpec
CONSTANTS
  f = f
  x = x
  y = y
  Null = Null
  Sources <- OneFile
  Urls <- None
  Contents <- X
  MaxItems = 1
  MaxEditions = 1
  MaxStops = 0
  MaxPurges = 1
  MaxRestores = 1
CHECK_DEADLOCK FALSE
PROPERTIES
  RestoredRefetched
