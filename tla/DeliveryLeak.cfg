SPECIFICATION FairSpec
CONSTANTS
  o1 = o1
  o2 = o2
  f1 = f1
  f2 = f2
  Startup = Startup
  Live = Live
  Obligations = {o1}
  Obsolete = {}
  NUnits = 1
  Finals = {f1}
  MaxAttempts = 1
  MaxRetries = 0
  MaxRows = 1
  BatchSize = 1
  Budget = 2
  ClaimFaults = TRUE
  Retention = FALSE
INVARIANTS
  ClaimsHeld
