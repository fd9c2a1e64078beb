SPECIFICATION Spec
CONSTANTS
  Runners = {s1, s2}
  Operator = Operator
  Symbols = {A}
  Lot = 2
  OpenPage = 9
  MaxOrders = 2
  MaxPasses = 2
  MaxDay = 1
SYMMETRY MCSymmetry
INVARIANTS
  SettledAgrees
  LedgersAgree
  CleanUnlessMoved
CHECK_DEADLOCK FALSE
