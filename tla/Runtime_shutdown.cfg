SPECIFICATION FairSpec
CONSTANTS
  Enabled = {"provider", "gateway", "candle", "indicator", "signal", "strategy", "risk", "scanner", "opportunity", "quality"}
  Buffer = 2
  MaxTicks = 3
INVARIANTS CleanLifecycle
PROPERTIES ShutdownEnds
CHECK_DEADLOCK FALSE
