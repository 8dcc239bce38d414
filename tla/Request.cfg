SPECIFICATION FairSpec
CONSTANTS
  r1 = r1
  t1 = t1
  t2 = t2
  Policies = {"Follow", "Cancel", "Handler"}
  ReadFrames = {r1}
  ChunkTasks = {t1, t2}
  MaxRounds = 3
  Capacity = 1
  MaxBytes = 2
INVARIANTS TypeOK NativeCallsOnLive BufferUsedOnlyIfOwned Backpressure CleanEndMeansComplete
PROPERTY RequestSettles
CHECK_DEADLOCK FALSE
