SPECIFICATION SafetySpec
CONSTANTS
  N = 2
  SizeT = 4
  a1 = a1
  a2 = a2
  b1 = b1
  d1 = d1
  d2 = d2
  Messages <- MC_Messages
  ShardOf <- MC_ShardOf
  Drainers = {d1}
  NoMessage = NoMessage
  MaxPushes = 2
SYMMETRY MC_SymMsg
INVARIANTS
  ConsumerNeverDown
  DeliveredInOrderOnce
  DrainedOnReturn
  NothingLeftBehind
  IInv
\* After ~MessageQueueImpl has joined the workers nothing is left to do.
CHECK_DEADLOCK FALSE
