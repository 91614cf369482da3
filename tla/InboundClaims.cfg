\* All messages may have been settled, hence no deadlock check.
SPECIFICATION FairSpec
CONSTANTS
  Messages = {1, 2, 3}
  Scripts <- SomeScripts
  ClaimBatch = 2
  MaxDone = 1
  MaxLedger = 1
  Attempts = 2
  Budget <- TwoOrOne
CHECK_DEADLOCK FALSE
INVARIANTS
  OnceOnly
  NothingLost
PROPERTIES
  VoidStaysVoid
  EveryClaimEnds
