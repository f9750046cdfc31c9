SPECIFICATION FairSpec
CONSTANTS
  a1 = a1
  a2 = a2
  a3 = a3
  a4 = a4
  m1 = m1
  m2 = m2
  Accounts = {a1, a2, a3, a4}
  Connectors <- EveryLoop
  Mounts <- TwoMounts
  MountOf <- MountsOfAccounts
  InitialVaults <- ThreeAccounts
  PageSize = 2
  MaximumPages = 3
  MaxChanges = 2
  MaxTroubles = 1
INVARIANTS StillVaultIsListedOnce MissedNeedDepartures
PROPERTIES TableSettles
CHECK_DEADLOCK FALSE
