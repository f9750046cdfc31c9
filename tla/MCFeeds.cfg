SPECIFICATION FairSpec
CONSTANTS
  s1 = s1
  s2 = s2
  Kinds <- AllKinds
  Sessions <- TwoSessions
  RowLimit = 1
  ByteLimit = 2
  Interval = 1
  Lateness = 1
  MaxTime = 3
  MaxRecords = 2
  MaxFaults = 2

  
PROPERTIES
  UnreadIsReported
  LogIsReadToItsEnd
CHECK_DEADLOCK FALSE
