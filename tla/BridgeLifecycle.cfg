\* One service, its pairing command and two faults; the bounds may be used up, hence no deadlock check.
SPECIFICATION FairSpec
CONSTANTS
  MaxBridges = 3
  MaxUpdates = 3
  Attempts = 2
  Sessions <- PairedOrNot
  Budget = 2
CHECK_DEADLOCK FALSE
INVARIANTS
  BridgeSingle
PROPERTIES
  SessionSafe
  ServiceReturns
