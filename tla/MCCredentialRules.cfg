SPECIFICATION FairSpec
CONSTANTS
  Vendors <- AllVendors
  Postures <- FourPostures
  Discovered = {"own", "stray"}
  Own = "own"
  ActiveIdentities = {"bob"}
  FallbackInterval = 1
  Grace = 0
  FailureThreshold = 2
  MinimumAge = 2
  Lookback = 1
  DormantDays = 1
  Entitled = 2
  PendingGrace = 2
  CollectionDays = 1
  Delays = {2}
  MaxDay = 3
  MaxChanges = 2
INVARIANTS
  OverdueIsReported
PROPERTIES
  AccusationsRestOnTheRecord
  PendingDeletionOnlySeenWhenBlind
  FailingIsReported
CHECK_DEADLOCK FALSE
