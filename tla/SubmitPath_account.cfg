SPECIFICATION MCSpec
CONSTANTS
  A = A
  B = B
  s1 = s1
  s2 = s2
  Procs = {p1, p2}
  Nobody = Nobody
  Symbols = {A, B}
  Strategies = {s1, s2}
  Intents <- EntryExit
  Ids = {c1, c2}
  NoId = NoId
  NoIntent = NoIntent
  Crashable = {p1, p2}
  Operators = {o1}
  MaxPositions = 1
  MaxTrades = 2
  HeldAtStart = {{}}
SYMMETRY MCSymmetry
INVARIANTS
  PositionCap
  NoWashTrade
  OutboxFirst
  NoDuplicateInWindow
  TradeFollowsAttempt
  AtMostOneStraggler
CHECK_DEADLOCK FALSE
