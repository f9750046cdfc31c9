SPECIFICATION FairSpec
CONSTANTS
  l1 = l1
  l2 = l2
  l3 = l3
  e1 = e1
  e2 = e2
  c1 = c1
  c2 = c2
  router = router
  alice = alice
  bob = bob
  Nobody = Nobody
  Blank = Blank
  Logins = {l1, l2, l3}
  Retrievals = {e1, e2}
  Accounts = {c1, c2}
  Username <- SvcBatch
  Assets = {router}
  Target <- OwnTarget
  LoginReports <- Logons
  RetrievalReports <- Checkouts
  Window = 1
  Tolerance = 0
  Limit = 2
  Workers = {"w1"}
  MaxLosses = 1
INVARIANTS TypeOK OneRetrievalOneLogin LinksTellTheReach
PROPERTIES JudgedOnTheEvidence EveryLoginIsJudged
