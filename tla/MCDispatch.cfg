SPECIFICATION Spec
CONSTANTS
  Jobs = {j1, j2, j3}
  Workers = {w1, w2, w3}
  MaxRetry = 2
  buf = 2
  SyncWorkers = {w2}
  Stoppable = {w1}
INVARIANTS TypeOK OneHolder JobInOnePlace
SYMMETRY Symmetry
CHECK_DEADLOCK FALSE
