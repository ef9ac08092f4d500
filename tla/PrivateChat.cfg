SPECIFICATION Spec
CONSTANTS
  Msgs = {m1}
  Outs = {x}
  Notices = {n}
  NoMsg = NoMsg
  MaxObjs = 2
  MaxRouses = 1
  MaxErrors = 1
  MaxEnds = 1
INVARIANTS
  HistoryIsThere
  AnswerArrives
PROPERTIES
  ComesToRest
CHECK_DEADLOCK FALSE
