SPECIFICATION Spec
CONSTANTS
  Series = {s1, s2, s3}
  MaxPositions = 2
  MaxTradesPerDay = 3
  LastDay = 2
INVARIANTS PositionLimit LatestDayLimit
PROPERTIES ApprovedReadsAsTrades
