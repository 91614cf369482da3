\* A job paused during a run whose process dies.
SPECIFICATION Spec
CONSTANTS
  j1 = j1
  o1 = o1
  o2 = o2
  NoOwner = NoOwner
  Jobs = {j1}
  Owners = {o1, o2}
  MaxConcurrent = 2
  MaxTimes = 2
  Budget = 2
  MaxEdits = 3
CHECK_DEADLOCK FALSE
INVARIANT Resumable
