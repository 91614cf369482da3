\* Two calls each; all the calls may have been made, hence no deadlock check.
SPECIFICATION FileSpec
CONSTANTS
  c1 = c1
  c2 = c2
  Outside = Outside
  Chats = {c1, c2}
  Paths = {1, 2}
  Calls <- SomeCalls
  MaxClock = 9
  MaxCalls = 2
  MaxFaults = 0
CHECK_DEADLOCK FALSE
PROPERTIES
  SiblingIsWarned
