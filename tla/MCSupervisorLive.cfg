SPECIFICATION FairSpec
CONSTANTS
  None = None
  Main = m
  Tid = {m, t1}
  Threads = TRUE
  kMaxExited = 8
PROPERTIES
  TreeEnds
