\* Two workers on one request, overlapping transactions serialised, every length of access.
SPECIFICATION Spec
CONSTANTS
  r1 = r1  r2 = r2  w1 = w1  w2 = w2
  dev = dev  lead = lead  owner = owner  sec = sec
  nobody = nobody  blank = blank
  Blank = blank
  Nobody = nobody
  References = {r1}
  Workers = {w1, w2}
  People <- MCPeople
  Requesters <- LeadOnly
  Voters <- AllButLead
  Principals <- OneDeveloper
  Resources <- EveryResource
  Levels <- WriteOnly
  Approver <- MCApprover
  Policies <- PoliciesWithGapAndZero
  MaxGrantDays = 3
  DefaultGrantDays = 1
  DaysAsked <- Days1
  MaxTime = 1
  Serializable = TRUE
INVARIANTS
  FourEyes
  BoundedUnlessStandingAllowed
CHECK_DEADLOCK FALSE
