\* The latest of two snapshots, which may change between two pages; a page may
\* claim any total, and be empty for ever.
CONSTANTS
  s1 = s1
  s2 = s2
  k1 = k1
  k2 = k2
  k3 = k3
  k4 = k4
  Snapshots <- TwoSnapshots
  Requested = None
  Rows <- TwoAnswers
  Totals <- AnyTotal
  PageSize = 2
  MaxRows = 3
  Attempts = 2
  NoKey = NoKey
  None = None
SPECIFICATION FairSpec
INVARIANTS ResultIsWhole OffsetInBounds
CHECK_DEADLOCK FALSE
PROPERTIES KeepsPromise RunAllReturns
