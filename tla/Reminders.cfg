SPECIFICATION OSpec
CONSTANTS
  a1 = a1
  Null = Null
  Assignments <- One
  Ids <- Names
  Configured <- DayAndHour
  Choices <- OtherRules
  Dues <- ThreeAndFive
  Cycle = 2
  MaxSyncs = 2
  MaxTime = 6
CHECK_DEADLOCK FALSE
INVARIANTS
  TypeOK
  PunctualEveryBand
PROPERTIES
  NeverTwice
  SilentOnceKnown
  NoGhostReminder
