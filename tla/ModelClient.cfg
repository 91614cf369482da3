\* Every turn and process may have made its call, hence no deadlock check.
SPECIFICATION FairSpec
CONSTANTS
  c1 = c1
  c2 = c2
  o1 = o1
  Turns = {c1, c2}
  Others = {o1}
  Replaying = {c1}
  MaxReconnects = 1
  MaxToken = 3
  Budget = 1
CHECK_DEADLOCK FALSE
INVARIANTS
  LeasedIsOpen
  SignInKept
PROPERTIES
  CallsEnd
