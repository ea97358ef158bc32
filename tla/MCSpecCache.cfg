CONSTANTS
  Processes = {proc1, proc2}
  Cassettes = {cassette1}
  Tagged = {cassette1}
  Versions = 2
  Window = 1
  Deadline = 1
  Slow = 2
  Drift = 1
  None = None
SPECIFICATION MCSpec
SYMMETRY Symmetry
INVARIANTS TagsMatch FreshIsRecent
PROPERTIES Survives
