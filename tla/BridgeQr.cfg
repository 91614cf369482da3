\* A service without a pairing, stopped before its QR code was scanned.
SPECIFICATION Spec
CONSTANTS
  MaxBridges = 2
  MaxUpdates = 1
  Attempts = 1
  Sessions <- PairedOrNot
  Budget = 1
CHECK_DEADLOCK FALSE
INVARIANTS
  QrIsShown
