\* A statement of the documentation, checked on its own.
CONSTANTS
  s1 = s1
  p1 = p1
  r1 = r1
  r2 = r2
  NoSid = NoSid
  NoParent = NoParent
  TimedOut = TimedOut
  Sids = {s1}
  Located = {s1}
  Parents = {p1}
  Requests = {r1, r2}
  Permits = 1
  Budget = 1
  Lag = 1
  Retry = 2
  GiveUp = 3
SPECIFICATION Spec
INVARIANTS
  ControlReturnsAtBudget
