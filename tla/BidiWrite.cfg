SPECIFICATION FairSpec
CONSTANTS
  Capacity = 1
  MaxWrites = 3
  MaxFlushes = 1
INVARIANTS
  TypeOK
  BufferBound
  FlushOkMeansDelivered
  BlockedFlushHasWrite
PROPERTY
  NoWakeUpLost
CHECK_DEADLOCK FALSE
