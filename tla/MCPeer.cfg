\* Two lookups of one address that two processes use in turn (an entry lives as
\* long as the address rests, as the code has it), or a walk in a table of five.
CONSTANTS
  p1 = p1
  p2 = p2
  a = a
  b = b
  r1 = r1
  r2 = r2
  NoPid = NoPid
  Peers = {p1}
  Pids = {a, b}
  Requests = {r1, r2}
  Attempts = 3
  Ttl = 3
  TimeWait = 3
  Lag = 2
  MaxNumber = 5
  MaxHops = 3
  NoProcess = NoProcess
SPECIFICATION PeerSpec
SYMMETRY Interchangeable
INVARIANTS
  PromptIsOwner
  AnswerIsCandidate
  VerdictIsTrue
