CONSTANTS
  N = 3
  Pipelines = {p1, p2}
  MaxCrashes = 1
  MaxResumes = 1
SPECIFICATION FairSpec
INVARIANTS
  ChunkConserved
  SameGeneration
  JournalHonest
PROPERTIES
  IngestEnds
CHECK_DEADLOCK FALSE
