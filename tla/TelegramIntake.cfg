\* All updates may have been settled, hence no deadlock check.
SPECIFICATION FairSpec
CONSTANTS
  N = 3
  Scripts <- SomeScripts
  Budget <- Faults
CHECK_DEADLOCK FALSE
INVARIANTS
  UpdatesKept
  AnsweredOnce
PROPERTIES
  InOrder
  EveryUpdateSettles
