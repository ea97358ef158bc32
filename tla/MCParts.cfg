CONSTANTS
  Paths = {path1}
  Threads = {thread1}
  Calls = {call1, call2}
  MaxLines = 2
  MaxRestarts = 1
  Headers = {header1, header2}
  Routes = {route1, route2}
  Absent = Absent
  Cursors = {cursor1, cursor2}
  First = First
  Null = Null
  Blank = Blank
  MaxAttempts = 4
  Sizes = {1, 3}
  Budget = 6
  NameCap = 2
  MetadataCap = 2
  None = None
  MaxArgs = 3
  MaxStream = 3
  SessionIds = {id1, id2}
  NoId = NoId
  MaxOperations = 4
  MaxDeclared = 2
  MaxPlaceholders = 1
  list = list
  get = get
  post = post
  body = body
  param = param
  lower = lower
  upper = upper
  Prefix = param
  Verbs = {get, post}
  NameWords <- Spoken
  Ids <- Listings
  Wires <- Parameters
  Reservable <- Occupied
SPECIFICATION PartsSpec
INVARIANTS SkippedIsStored InstalledIsCanonical RoundTrip WalkIsWhole CarriedOutOnce FitsWhole RunsThePrompt LoadsIffOneSession SurfaceIsCallable
PROPERTIES LedgerSpec AnchorsArrive WalkEnds
CHECK_DEADLOCK FALSE
