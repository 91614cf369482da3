\* One call each; both may have been made, hence no deadlock check.
SPECIFICATION FairFileSpec
CONSTANTS
  c1 = c1
  c2 = c2
  Outside = Outside
  Chats = {c1, c2}
  Paths = {1, 2}
  Calls <- SomeCalls
  MaxClock = 9
  MaxCalls = 1
  MaxFaults = 2
CHECK_DEADLOCK FALSE
PROPERTIES
  AllOrNothing
  PatchGoesThrough
  CallEnds
