\* One worker at a time, two requests.
SPECIFICATION Spec
CONSTANTS
  r1 = r1  r2 = r2  w1 = w1  w2 = w2
  dev = dev  lead = lead  owner = owner  sec = sec
  nobody = nobody  blank = blank
  Blank = blank
  Nobody = nobody
  References = {r1, r2}
  Workers = {w1}
  People <- MCPeople
  Requesters <- LeadOnly
  Voters <- OwnerAndSec
  Principals <- DeveloperAndBots
  Resources <- OneRepository
  Levels <- WriteOnly
  Approver <- MCApprover
  Policies <- UsualPolicies
  MaxGrantDays = 3
  DefaultGrantDays = 1
  DaysAsked <- DaysBlank
  MaxTime = 2
  Serializable = FALSE
INVARIANTS
  DuplicatesOnlyByRacing
PROPERTIES
  ImplementsLifecycle
CHECK_DEADLOCK FALSE
