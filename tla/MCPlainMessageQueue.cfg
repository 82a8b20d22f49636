SPECIFICATION Spec
CONSTANTS
  Messages = {m1, m2}
  Drainers = {d1, d2}
  NoMessage = NoMessage
  MaxPushes = 3
INVARIANTS
  IInv
  ConsumerNeverDown
  DeliveredInOrderOnce
PROPERTIES
  DrainTerminates
  DestructorTerminates
  ImplementsQueue
\* After ~MessageQueueImpl has joined the worker nothing is left to do.
CHECK_DEADLOCK FALSE
