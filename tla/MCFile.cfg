SPECIFICATION LiveSpec
CONSTANTS
  Procs = {init, p1}
  initproc = init
  Pipes = {o1, o2}
  NFILE = 3
  NOFILE = 2
  None = None
INVARIANTS
  RefExact
PROPERTY
  EndIsClosed
