SPECIFICATION Spec
CONSTANTS
  Symbols = {ABC}
  Timeframes = {m1, m5}
  SignalSides <- AllSides
  Enabled <- All
  Arrivals <- ContestedArrivals
  Strong <- BothConfidences
  MaxPositions = 1
  MaxTradesPerDay = 3
  DefaultPrice = 10
  Slippage = 1
  Quantity = 1
  Buffer = 1
  MaxSignals = 5
SYMMETRY Symm
INVARIANTS EnginesAgree AccountAddsUp
PROPERTIES PositionFollowsRules
CHECK_DEADLOCK FALSE
