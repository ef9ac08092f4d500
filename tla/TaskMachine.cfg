CONSTANTS
  a = a
  b = b
  c = c
  d = d
  e = e
  Tasks = {a, b, c, d, e}
  Workers = {w1, w2}
  NoTask = NoTask
  NoWorker = NoWorker
  RetryLimit = 3
  HistoryLimit = 1
  Dependents <- ChainOnA
  Pinned = {b}
  Mode <- Modes
SPECIFICATION FairSpec
CONSTRAINT Bounded
INVARIANTS
  OnePlace
  NothingLost
  EndIsAnnounced
  DependenciesDone
PROPERTIES
  Lifecycle
  EndsEventually
CHECK_DEADLOCK FALSE
