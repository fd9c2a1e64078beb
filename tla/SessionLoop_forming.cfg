SPECIFICATION Spec
CONSTANTS
  DayLen = 10
  Open = 1
  Close = 5
  Bars = 4
  Bar = 1
  Lead = 2
  Allowance = 3
  Budget = 1
  NoTable = 99
  EarlyCloses = {4}
  Tables <- MCTables
  MaxLag = 1
  MaxHeld <- MCMaxHeld
  MaxNow <- MCMaxNow
INVARIANTS
  EvaluatesFinalBars
CHECK_DEADLOCK FALSE
