SPECIFICATION Spec
CONSTANTS
  Writers = {w1, w2}
  Readers = {r1}
  Bytes = {x, y}
  PIPESIZE = 2
  UintMod = 4
  MaxCount = 3
  Killable = {w1}
  Nobody = Nobody
INVARIANTS
  NoLostWakeup
