SPECIFICATION Spec
CONSTANTS
  o1 = o1
  o2 = o2
  f1 = f1
  f2 = f2
  Startup = Startup
  Live = Live
  Obligations = {o1}
  Obsolete = {o1}
  NUnits = 1
  Finals = {f1}
  MaxAttempts = 1
  MaxRetries = 0
  MaxRows = 1
  BatchSize = 1
  Budget = 2
  ClaimFaults = FALSE
  Retention = TRUE
INVARIANTS
  DeliveredInFull
PROPERTIES
  SettledForGood
