SPECIFICATION LiveSpec
CONSTANTS
  Writers = {w1, w2}
  Readers = {r1}
  Bytes = {x, y}
  PIPESIZE = 2
  UintMod = 4
  MaxCount = 2
  Killable = {r1}
  Nobody = Nobody
INVARIANTS
  NoLostWakeup
  FreedWhenUnused
PROPERTIES
  CallsReturn
  FifoOrder
