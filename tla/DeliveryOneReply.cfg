SPECIFICATION Spec
CONSTANTS
  o1 = o1
  o2 = o2
  f1 = f1
  f2 = f2
  Startup = Startup
  Live = Live
  Obligations = {o1}
  Obsolete = {}
  NUnits = 2
  Finals = {f1}
  MaxAttempts = 2
  MaxRetries = 1
  MaxRows = 2
  BatchSize = 2
  Budget = 2
  ClaimFaults = TRUE
  Retention = FALSE
INVARIANTS
  TypeOK
  NoDuplicate
  InOrder
PROPERTIES
  ClaimsKept
  ImplementsPromise
