SPECIFICATION Spec
CONSTANT MaxFaults = 3
INVARIANTS
  ReadyIsWhole
  DataSurvive
  FailureIsHarmless
CHECK_DEADLOCK FALSE
