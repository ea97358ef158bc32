CONSTANTS
  Main = Main
  Subs = {sub}
  Length = 4
  Crashes = 1
  Failures = 1
  None = None
SPECIFICATION FairSpec
INVARIANTS CleanIsStored
PROPERTIES MirrorSpec Lands
