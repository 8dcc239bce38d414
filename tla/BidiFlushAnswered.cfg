SPECIFICATION FairSpec
CONSTANTS
  Capacity = 1
  MaxWrites = 2
  MaxFlushes = 1
PROPERTY FlushAnswered
CHECK_DEADLOCK FALSE
