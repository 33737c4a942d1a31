SPECIFICATION Spec
CONSTANTS
  Fast = 2
  Slow = 3
  Smoothing = 2
  Period = 2
  Deviations = 1
  Multiplier = 1
  Window = 5
  Tolerance = 10
  Threshold = 20
  Oversold = 30
  Overbought = 70
  Expansion = 1
  Scale <- Units
  Capital = 400
  Commission = 3
  TaxPercent = 10
  Slippage = 5
  Fields <- MCFields
  Names <- MCNames
  BarsPerDay = 3
  BarMinutes = 5
INVARIANTS StrategiesAgree JournalSound BoardTells
