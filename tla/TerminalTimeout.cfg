CONSTANTS
  MaxOut = 0
  OutCap = 2
  MaxKeys = 2
  InCap = 1
  MaxKills = 0
SPECIFICATION Spec
PROPERTY TimeoutKills
