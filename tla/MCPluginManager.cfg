CONSTANTS
  Releases = 2
  Ours = Ours
  Theirs = Theirs
  None = None
SPECIFICATION FairSpec
INVARIANTS ConfirmedIsDelivered FailedKeepsInstalled
PROPERTIES LossIsReported Delivers
