SPECIFICATION FairSpec
CONSTANTS
  Starts = {s1,s2}
  Stops = {e1}
  MaxMessages = 1
  MaxUploads = 1
INVARIANTS TypeOK StoppedIsDelivered LastUploadIsWhole OpenIsKnown
PROPERTY WrittenIsDelivered
CHECK_DEADLOCK FALSE
