SPECIFICATION Spec
CONSTANTS
  a1 = a1
  a2 = a2
  a3 = a3
  w1 = w1
  w2 = w2
  Accounts = {a1, a2}
  Workers = {w1, w2}
  Profiles <- InOrderOrNot
  MaxFailures = 2
  MaxChanges = 3
SYMMETRY Renamings
INVARIANTS TypeOK SnapshotsFollow TableAgreesWithVault
PROPERTIES EventsTellTheChanges MassRetirementRefused RetiredWereGone
CHECK_DEADLOCK FALSE
