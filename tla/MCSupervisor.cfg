SPECIFICATION Spec
CONSTANTS
  None = None
  Main = m
  Tid = {m, t1, t2}
  Threads = TRUE
  kMaxExited = 8
SYMMETRY TidSymmetry
INVARIANTS
  TypeOK
  NoSurvivor
  KnownProcessIsOurs
  DoneMeansGone
PROPERTIES
  ImplementsEngine
