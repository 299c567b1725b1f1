\* One player that may change its address, a stream of three frames, a NACK queue of two and three sequence numbers.
SPECIFICATION FairSpec
CONSTANTS
  u1 = u1
  a1 = a1
  a2 = a2
  None = None
  Users = {u1}
  Addrs = {a1, a2}
  Kinds <- MCKinds
  QueueSize = 2
  SeqNums = 3
  MaxIn = 5
  Blp = {1}
  MaxReports = 1
INVARIANTS
  LeavesOnceInOrder
  BufferHeld
  NackAnswered
  DecoderPrimed
PROPERTY WaitingDrains
CHECK_DEADLOCK FALSE
