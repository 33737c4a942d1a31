SPECIFICATION AnalyticsSpec
CONSTANTS
  Symbols = {"NIFTY"}
  Timeframes <- MCTimeframes
  Day = 4
  ZoneOffset = 1
  OrderPolicy = "reject_older"
  VolumeMode = "cumulative"
  IdleEvict = 4
  Horizon = 10
  Prices <- MCPrices
  Volumes <- MCVolumes
  MaxTicks = 6
  Markets <- MCMarkets
  Fast = 2
  Slow = 3
  Smoothing = 2
  Period = 3
  Deviations = 1
  Oversold = 30
  Overbought = 70
  SubscriberBuffer = 2
INVARIANTS EachTickInItsBar BarsConsistent SignalsTell
CHECK_DEADLOCK FALSE
