SPECIFICATION LiveSpec
CONSTANTS
  Procs = {p1, p2, p3}
  Blocks = {b1, b2}
  Data = {d1, d2}
  LOGSIZE = 6
  MAXOPBLOCKS = 3
  NLOG = 6
  OpMax = 2
  NotCached = NotCached
  MaxOps = 1
INVARIANTS
  PinsMatchLog
  DurableAtReturn
  
PROPERTIES
  Atomicity
  BeginReturns
