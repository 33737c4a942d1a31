SPECIFICATION FlowSpec
CONSTANTS
  Dimensions <- Ranges
  RunSymbols = {"NIFTY"}
  RunTimeframes = {"5m"}
  Workers = {1, 2}
  MaxConcurrentRuns = 1
  WalkPlans <- Plans
  Metrics <- TotalsReported
  Simulations = 2
  RuinPercent = 50
  Scored <- Scores
  Configurations <- SomeEngines
  MaxReports <- ReportBound
  MaxFaults <- FaultBound
  Buffer = 3
INVARIANTS RunsKept ScoresCount WindowsValidated 
PROPERTIES ResearchEnds
CHECK_DEADLOCK FALSE
