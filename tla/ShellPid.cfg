\* The call may have been made, hence no deadlock check.
SPECIFICATION Spec
CONSTANTS
  N = 1
  Jobs <- SomeJobs
  Home = 2
  Budget = 1
CHECK_DEADLOCK FALSE
INVARIANTS
  PidIsItsOwn
