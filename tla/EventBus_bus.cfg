SPECIFICATION FairSpec
CONSTANTS
  Publishers = {p1, p2}
  Readers = {r1}
  Kinds = {k1, k2}
  Buffers = {0, 2}
  Quota = 2
INVARIANTS NoSendOnClosed Conservation PublisherOrder
PROPERTIES IsLossyFifo NobodyWaits
CHECK_DEADLOCK FALSE
