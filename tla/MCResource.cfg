SPECIFICATION FairSpec
CONSTANTS
  j1 = j1 j2 = j2 k1 = k1 k2 = k2 b1 = b1 b2 = b2 b3 = b3
  Jobs = {j1, j2}
  items <- Shared
  Buckets = {b1, b2}
  MaxRetry = 2
INVARIANTS TypeOK ClaimsAreTrue ClaimsAreWhole UploadsEndFirst AnsweredOnce
PROPERTY EveryJobEnds
CHECK_DEADLOCK FALSE
