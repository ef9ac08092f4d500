SPECIFICATION Spec
CONSTANTS
  Hashes = {b, f}
  Procs = {p}
  Starter = s
  Builtin = {b}
  NoHash = NoHash
  Expire = 1
  MaxLag = 1
  Batch = 1
  MaxEvents = 2
  MaxEnds = 1
INVARIANTS
  BuiltinIsThere
PROPERTIES
  UsedStays
  SpaceIsFreed
CHECK_DEADLOCK FALSE
