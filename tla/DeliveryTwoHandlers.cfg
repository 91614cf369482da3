SPECIFICATION Spec
CONSTANTS
  o1 = o1
  o2 = o2
  f1 = f1
  f2 = f2
  Startup = Startup
  Live = Live
  Obligations = {o1}
  Obsolete = {}
  NUnits = 1
  Finals = {f1, f2}
  MaxAttempts = 2
  MaxRetries = 0
  MaxRows = 2
  BatchSize = 2
  Budget = 1
  ClaimFaults = FALSE
  Retention = FALSE
INVARIANTS
  OneCourier
  NoLostReply
  DiscardIsUnsent
  ClaimsHeld
SYMMETRY Symmetry
