\* One job, three user commands, two faults; a removed job is not created again, hence no deadlock check.
SPECIFICATION FairSpec
CONSTANTS
  j1 = j1
  o1 = o1
  o2 = o2
  NoOwner = NoOwner
  Jobs = {j1}
  Owners = {o1, o2}
  MaxConcurrent = 2
  MaxTimes = 2
  Budget = 2
  MaxEdits = 3
CHECK_DEADLOCK FALSE
INVARIANTS
  ClaimsMatch
  OkMeansDelivered
PROPERTIES
  RunsAllowed
  JobsProceed
