SPECIFICATION FairSpec
CONSTANTS
  Jobs = {j1, j2}
  Workers = {w1, w2, w3}
  MaxRetry = 3
  buf = 1
  SyncWorkers = {w1, w2}
  Stoppable = {}
INVARIANT SendMeetsReceiver
PROPERTIES ImplementsService AcceptedJobEnds WorkersComeBack
CHECK_DEADLOCK FALSE
