\* Access that appears and disappears at any time.
SPECIFICATION ReconcileSpec
CONSTANTS
  r1 = r1  r2 = r2  w1 = w1  w2 = w2
  dev = dev  lead = lead  owner = owner  sec = sec
  nobody = nobody  blank = blank
  Blank = blank
  Nobody = nobody
  References = {r1, r2}
  Workers = {w1}
  People <- MCPeople
  Requesters <- LeadOnly
  Voters <- OwnerOnly
  Principals <- OneDeveloper
  Resources <- OneRepository
  Levels <- WriteOnly
  Approver <- MCApprover
  Policies <- OneApproval
  MaxGrantDays = 3
  DefaultGrantDays = 1
  DaysAsked <- DaysBlank
  MaxTime = 2
  Serializable = FALSE
  PlatformEnds <- EndOrNone
SYMMETRY TwoReferences
INVARIANTS
  GovernedGrantsAreBacked
  NeverApprovedIsReported
  ExpiredIsReported
CHECK_DEADLOCK FALSE
