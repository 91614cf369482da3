SPECIFICATION FairSpec
CONSTANTS
  m1 = m1
  m2 = m2
  Messages = {m1, m2}
  MaxSteps = 2
  MaxSession = 2
  MaxControls = 2
  Budget = 2
CHECK_DEADLOCK FALSE
INVARIANTS
  ToolsOnce
  CleanConversation
  SettledOnce
  OneVerdict
PROPERTIES
  StopIsFinal
  EventuallyCompleted
