CONSTANTS
  p1 = p1
  p2 = p2
  m1 = m1
  m2 = m2
  main = main
  sub = sub
  other = other
  roll1 = roll1
  roll2 = roll2
  roll3 = roll3
  roll4 = roll4
  Nobody = Nobody
  Files = {roll1, roll2, roll3, roll4}
  Threads = {main, sub, other}
  Processes = {p1, p2}
  Providers = {m1, m2}
  Declares = {roll3}
  Polls = 1
  Id <- Rollouts
  Root <- Family
  Parent <- Direct
  Process <- RunBy
  Provider <- Markers
SPECIFICATION SelectFairSpec
INVARIANTS NamedIsOwn AnswerIsOfProcess FamilyIsOne FoundIsKept
PROPERTIES Answered
CHECK_DEADLOCK FALSE
