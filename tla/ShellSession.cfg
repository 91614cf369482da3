\* All calls may have been made, hence no deadlock check.
SPECIFICATION FairSpec
CONSTANTS
  N = 2
  Jobs <- SomeJobs
  Home = 2
  Budget = 1
CHECK_DEADLOCK FALSE
INVARIANTS
  TreeKilled
  SessionKept
PROPERTIES
  CallEnds
