CONSTANTS
  MaxOut = 2
  OutCap = 1
  MaxKeys = 2
  InCap = 1
  MaxKills = 1
SPECIFICATION Spec
INVARIANTS
  OutputDelivered
  CallerRestored
  InterruptedOnce
PROPERTIES
  RunReturns
