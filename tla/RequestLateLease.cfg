SPECIFICATION Spec
CONSTANTS
  r1 = r1
  r2 = r2
  t1 = t1
  t2 = t2
  Policies = {"Follow"}
  ReadFrames = {r1, r2}
  ChunkTasks = {t1, t2}
  MaxRounds = 1
  Capacity = 1
  MaxBytes = 2
INVARIANT CallbackObjectsOutlived
CHECK_DEADLOCK FALSE
