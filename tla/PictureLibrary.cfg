SPECIFICATION Spec
CONSTANTS
  a = a
  b = b
  a1 = a1
  b1 = b1
  Pages = {a1, b1}
  Illusts = {a, b}
  Illust <- Galleries
  Requests = {r1, r2}
  Searches = {r2}
  Origins = {r1}
  NoRequest = NoRequest
  Limit = 2
  Count = 1
  Many = 2
  MaxFetches = 2
  MaxFaults = 1
INVARIANTS
  SentOnce
  NothingLost
PROPERTIES
  FrozenReturns
CHECK_DEADLOCK FALSE
