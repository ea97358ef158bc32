\* Two handlers contend for one permit over a session with a transcript path
\* and a session without one.
CONSTANTS
  s1 = s1
  s2 = s2
  p1 = p1
  r1 = r1
  r2 = r2
  NoSid = NoSid
  NoParent = NoParent
  TimedOut = TimedOut
  Sids = {s1, s2}
  Located = {s1}
  Parents = {p1}
  Requests = {r1, r2}
  Permits = 1
  Budget = 1
  Lag = 1
  Retry = 2
  GiveUp = 3
SPECIFICATION FairSpec
INVARIANTS
  PermitsAccounted
  AnnouncedIsCached
PROPERTIES
  HardensOnlyAfterFinalLook
  LineageFound
