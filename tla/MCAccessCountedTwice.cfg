\* Two workers serving the same approver, PostgreSQL isolation.
SPECIFICATION Spec
CONSTANTS
  r1 = r1  r2 = r2  w1 = w1  w2 = w2
  dev = dev  lead = lead  owner = owner  sec = sec
  nobody = nobody  blank = blank
  Blank = blank
  Nobody = nobody
  References = {r1}
  Workers = {w1, w2}
  People <- MCPeople
  Requesters <- LeadOnly
  Voters <- OwnerOnly
  Principals <- OneDeveloper
  Resources <- OneRepository
  Levels <- WriteOnly
  Approver <- MCApprover
  Policies <- UsualPolicies
  MaxGrantDays = 3
  DefaultGrantDays = 1
  DaysAsked <- DaysBlank
  MaxTime = 0
  Serializable = FALSE
INVARIANTS
  ApproverCountsOnce
CHECK_DEADLOCK FALSE
