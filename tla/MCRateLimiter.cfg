SPECIFICATION FairSpec
CONSTANT limit = 10
INVARIANTS TypeOK RateBound CountBound
PROPERTIES StuckForGood ReleasedAtTick OverLimitIsCleared
CHECK_DEADLOCK TRUE
