\* A name whose stale entry is still in the record is linked again while the file moves back.
SPECIFICATION Spec
CONSTANTS
  None = None
  Session = {s1, s2}
  Name = {a, b, c}
  Long = {}
  File = {f}
  Id = {i}
  kFaults = 1
CONSTRAINT NotTangled
SYMMETRY LinkSymmetry
CHECK_DEADLOCK FALSE
PROPERTY UndoRemovesNoFile
