SPECIFICATION FlowSpec
CONSTANTS
  File <- Candles
  ReplayBuffer = 1
  Clients = {"runtime", "session", "experiments", "walkforward"}
  Counted = {"alert", "walkforward", "montecarlo"}
  ScaleTo = 100
  AutoVersion = TRUE
  Callers = {"one", "two"}
  Configurations <- SomeConfigurations
  BacktestConfig <- Backtest
  CallersRequest <- OtherRequest
  Outcomes <- Results
  Bounds <- BoundsOf
  SessionLimit <- Limits
  StudyLimit = 2
  Buffer = 1
INVARIANTS   StudiesReported
 
CHECK_DEADLOCK FALSE
