SPECIFICATION Spec
CONSTANTS
  Procs = {p1, p2, p3}
  Data = {x, y}
  NUM = 8
  IdxMod = 16
  None = None
SYMMETRY Symmetry
INVARIANTS
  DescOwned
  NoLostWakeup
PROPERTY
  ReturnsTransferred
