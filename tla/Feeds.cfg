SPECIFICATION FeedsSpec
CONSTANTS
  Symbols = {"NIFTY", "NIFTY50", "VIX"}
  FeedBuffer = 1
  Budget = 5
  Recorded <- EventTimes
  ReplayStart = 1
  Rows <- FileRows
  From = 2
  To = 5
  DataSymbols = {"NIFTY", "NIFTY50"}
  LoopFile = FALSE
  Period <- Asked
  MaxDuration = 2
  Raw <- Answers
  RetryAttempts = 1
INVARIANTS StreamsInOrder
PROPERTIES StreamsProgress
CHECK_DEADLOCK FALSE
