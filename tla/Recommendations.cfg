SPECIFICATION FlowSpec
CONSTANTS
  ProfitFactorWeight = 40
  WinRateWeight = 30
  ExpectancyWeight = 20
  DrawdownPenalty = 10
  ScannerRules <- AllRules
  ScannerWatches = {}
  ScanMinimum = 50
  OppWeights <- Weights
  OppTopN = 1
  OppBuyAt = 40
  OppWatchAt = 20
  MaxOpportunities = 2
  Precedes <- ByName
  RecStrongBuyAt = 90
  RecBuyAt = 40
  RecWatchAt = 20
  MinConfidence = 15
  MinOptimization = 60
  MinWalkforward = 60
  MinMonteCarlo = 60
  Freshness = 0
  SuppressDuplicates = TRUE
  ReplayMode = FALSE
  Observations <- SomeObservations
  Profits <- GainAndLoss
  MaxObserved <- ObservedBound
  MaxTrades <- TradeBound
  Keys <- TwoKeys
  Confidences = {60, 90}
  Arrivals <- TurnsAndRejection
  MaxActive = 1
  MaxHistory = 2
  DayLength = 2
  DocDayLength = 2
  ConfidenceChange = 10
  Cooldown = 1
  StrongBuyAt = 90
  BuyAt = 75
  WatchAt = 50
  TrackingTimeout = 1
  SuccessReturn = 50
  FailureReturn <- Loss
  ExcellentAt = 9000
  GoodAt = 7500
  AverageAt = 5000
  BucketBounds <- Buckets
  Windows <- RollingWindows
  Prices = {100}
  Configurations <- SomeEngines
  Watched <- WatchedKeys
  Buffer = 6
  MaxInputs <- InputBound
  MaxCandles <- CandleBound
  MaxTime <- TimeBound
INVARIANTS  AlertsSound DocumentsAgree OutcomesLearned
PROPERTIES  OneLife
CHECK_DEADLOCK FALSE
