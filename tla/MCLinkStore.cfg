SPECIFICATION Spec
CONSTANTS
  None = None
  Session = {s1, s2}
  Name = {a, b, c}
  Long = {c}
  File = {f, g}
  Id = {i, j}
  kFaults = 2
CONSTRAINT NotTangled
SYMMETRY LinkSymmetry
CHECK_DEADLOCK FALSE
INVARIANTS
  TypeOK
  NamesKept
  FilesReachable
  CountsCurrent
  NoTrace
