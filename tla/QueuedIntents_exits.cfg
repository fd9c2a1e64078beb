SPECIFICATION MCSpec
CONSTANTS
  Sessions = {r1, r2}
  NoSession = NoSession
  MaxDay = 2
  Keys <- TwoExits
  Hashes = {h1}
  NoDay = NoDay
  None = None
  Traders = {t1, t2}
  Y = Y
  Tickers = {X, Y}
  Quantities = {5}
  Prices = {1, 2, 4}
  StartCash = 100
  Elsewhere <- Short
  BaseLimits <- Base
  Overlays <- Overlay
  Ceilings <- Ceiling
  StrategyMax = 2
  MaxOrders = 3
  MaxMoves = 1
  MaxSwitches = 1
SYMMETRY MCSymmetry
INVARIANTS
  OneOrderPerOpen
  AtMostOneOrder
  CleanHandoff
  ExitRetiredForReason
  ExitsPassCaps
PROPERTIES
  FillsWithinExposure
CHECK_DEADLOCK FALSE
