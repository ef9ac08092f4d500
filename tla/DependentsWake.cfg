CONSTANTS
  a = a
  b = b
  c = c
  d = d
  e = e
  Tasks = {a, c}
  Workers = {w1, w2, w3}
  NoTask = NoTask
  NoWorker = NoWorker
  RetryLimit = 2
  HistoryLimit = 2
  Dependents <- ChainOnA
  Pinned = {}
  Mode <- Modes
SPECIFICATION FairSpec
PROPERTIES
  DependentsWake
CHECK_DEADLOCK FALSE
