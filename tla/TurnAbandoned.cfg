SPECIFICATION Spec
CONSTANTS
  m1 = m1
  m2 = m2
  Messages = {m1, m2}
  MaxSteps = 1
  MaxSession = 2
  MaxControls = 1
  Budget = 1
CHECK_DEADLOCK FALSE
INVARIANT AbandonedStaysAbandoned
