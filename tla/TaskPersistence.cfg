CONSTANTS
  a = a
  c = c
  Tasks = {a, c}
  Workers = {w1, w2}
  NoTask = NoTask
  NoWorker = NoWorker
  RetryLimit = 2
  HistoryLimit = 1
  Dependents <- DependsOnA
  Pinned = {}
  Mode <- Modes
  Retired = {c}
  MaxSaves = 1
  MaxCrashes = 1
SPECIFICATION PFairSpec
INVARIANTS
  SnapshotComplete
  DoneStaysDone
PROPERTIES
  SavedTaskEnds
CHECK_DEADLOCK FALSE
