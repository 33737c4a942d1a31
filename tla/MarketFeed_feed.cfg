SPECIFICATION FairSpec
CONSTANTS
  Providers = {p1, p2}
  First = p1
  Admins = {a1}
  Symbols = {ABC, DEF}
  Prices = {2}
  LastTime = 2
  Buffer = 1
  MaxTicks = 2
  MaxCalls = 4
INVARIANTS SubscriptionsFollow CacheMatchesBus
PROPERTIES FeedProgresses CloseReturns
CHECK_DEADLOCK FALSE
