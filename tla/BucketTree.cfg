SPECIFICATION Spec
CONSTANTS
  Procs = {p1, p2}
  Memories = {m1}
  None = None
  Leaked = Leaked
  Ops = {"create", "add", "delete", "move", "compress", "split", "resume"}
  MaxOps = 3
  MaxShared = 2
  MaxDepth = 3
SYMMETRY Symmetry
INVARIANTS
  MemoriesStay
  TreeAgrees
  NoDeadlock
PROPERTIES
  SealedOnce
CHECK_DEADLOCK FALSE
