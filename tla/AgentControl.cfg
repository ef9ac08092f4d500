SPECIFICATION FairSpec
CONSTANTS
  Users = {u}
  Reviews = {}
  Leaders = {l1, l2}
  Calls = {w, a, b}
  Background = {b}
  Always = {a, b}
  CallOnly = {w}
  Waited = {w}
  MaxReact = 1
  RollbackAt = 1
  MaxAsks = 1
  MaxFaults = 1
  MaxInterrupts = 1
  MaxNew = 2
CHECK_DEADLOCK FALSE
INVARIANTS
  GateIsHeld
  OneCollector
  ReactIsBounded
  AnswersAreOpen
PROPERTIES
  ControlGoesOn
