SPECIFICATION Spec
CONSTANTS
  Capacity = 1
  MaxWrites = 2
  MaxFlushes = 1
INVARIANT WithinCapacity
CHECK_DEADLOCK FALSE
