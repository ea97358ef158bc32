\* Two installs, of one process or of two, of a set of two artifacts that
\* supersedes two files.
CONSTANTS
  i1 = i1
  i2 = i2
  p1 = p1
  p2 = p2
  o1 = o1
  o2 = o2
  Absent = Absent
  Whole = Whole
  Cut = Cut
  Last = 2
  Superseded = {o1, o2}
  Processes = {p1, p2}
  Installs = {i1, i2}
SPECIFICATION Spec
SYMMETRY Interchangeable
INVARIANTS
  LoadedIsWhole
  LastMeansAll
PROPERTIES
  NoSecondReader
