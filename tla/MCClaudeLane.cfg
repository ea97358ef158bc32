\* One request of one process that runs two sessions, one after the other.
CONSTANTS
  a = a
  s1 = s1
  s2 = s2
  r1 = r1
  NoFile = NoFile
  Torn = Torn
  Pids = {a}
  Sessions = {s1, s2}
  Requests = {r1}
  Period = 1
  ScanTime = 2
  Lag = 1
  Backlog = 3
  Failures = 1
  Timeout = 2
  Poll = 1
SPECIFICATION Spec
SYMMETRY Interchangeable
PROPERTIES
  ReadyIsAttributed
  AnswerIsCurrent
