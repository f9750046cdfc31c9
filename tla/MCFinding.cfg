\* One subject, two platforms, two workers; one task starts while another is under way.
SPECIFICATION FairSpec
CONSTANTS
  s1 = s1  s2 = s2  y1 = y1  y2 = y2  e1 = e1  e2 = e2
  Subjects = {s1}
  Systems = {y1, y2}
  SystemOf <- OnePlatform
  Scopes <- AllOrOther
  Severities = {"high", "critical"}
  Engines = {e1, e2}
  BatchSize = 2
  MaxFindings = 4
  MaxChanges = 4
  MaxOverlaps = 1
INVARIANTS
  OneFindingPerSubject
  ExportedMeansReceived
PROPERTIES
  ResolvesOnlyTheCleared
  ClearedIsResolved
  HeldIsReported
  CollectorCatchesUp
CHECK_DEADLOCK FALSE
