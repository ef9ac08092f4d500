SPECIFICATION Spec
CONSTANTS
  Users = {u1}
  Selves = {s1, s2}
  MaxAsks = 2
  ReactLimit = 2
  RollbackAt = 1
  MaxCalls = 3
  MaxInterrupts = 1
  MaxFaults = 2
SYMMETRY Symmetry
INVARIANTS
  PayloadPaired
  SaidStays
  ResultsAreResponses
CHECK_DEADLOCK FALSE
