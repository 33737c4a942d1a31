SPECIFICATION Spec
CONSTANTS
  Symbols = {ABC}
  Timeframes = {m1}
  SignalSides <- BuySell
  Enabled <- TrendOnly
  Arrivals <- TrendArrivals
  Strong <- Confident
  MaxPositions = 1
  MaxTradesPerDay = 20
  DefaultPrice = 0
  Slippage = 1
  Quantity = 1
  Buffer = 4
  MaxSignals = 3
INVARIANTS ApprovedIsHeld
CHECK_DEADLOCK FALSE
