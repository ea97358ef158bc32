CONSTANTS
  Releases = 2
  Ours = Ours
  Theirs = Theirs
  None = None
SPECIFICATION Spec
INVARIANT ReplacedIsRecopied
