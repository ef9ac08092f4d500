SPECIFICATION MappingSpec
CONSTANTS
  Keys = {a}
  MaxChanges = 3
  MaxErrors = 1
  MaxStarts = 2
  Legacy = {a}
INVARIANTS
  DifferenceIsPending
  PromiseIsKept
PROPERTIES
  ChangesAreSaved
CHECK_DEADLOCK FALSE
