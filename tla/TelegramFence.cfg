\* All updates may have been settled, hence no deadlock check.
SPECIFICATION FairSpec
CONSTANTS
  N = 3
  Scripts <- OneText
  Budget <- ForOneText
CHECK_DEADLOCK FALSE
PROPERTY ComesUpAgain
