SPECIFICATION Spec
CONSTANTS
  N = 1
  SizeT = 4
  a1 = a1
  a2 = a2
  b1 = b1
  d1 = d1
  d2 = d2
  Messages <- MC_OneUnit
  ShardOf <- MC_OneUnitShardOf
  Drainers = {d1, d2}
  NoMessage = NoMessage
  MaxPushes = 2
INVARIANTS
  SleepingDrainerIsMarked
PROPERTIES
  DrainTerminates
  DestructorTerminates
  ImplementsQueue
\* After ~MessageQueueImpl has joined the worker nothing is left to do.
CHECK_DEADLOCK FALSE
