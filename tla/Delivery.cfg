SPECIFICATION FairSpec
CONSTANTS
  o1 = o1
  o2 = o2
  f1 = f1
  f2 = f2
  Startup = Startup
  Live = Live
  Obligations = {o1}
  Obsolete = {o1}
  NUnits = 2
  Finals = {f1}
  MaxAttempts = 1
  MaxRetries = 1
  MaxRows = 1
  BatchSize = 1
  Budget = 1
  ClaimFaults = TRUE
  Retention = FALSE
INVARIANTS
  UnitsExact
  Fenced
  NothingMissing
PROPERTIES
  ClaimsKept
  ImplementsPromise
  EventuallySettled
