SPECIFICATION StorageSpec
CONSTANTS
  Stores = {"pages", "heap", "inodes", "tree", "blocks"}
  Procs = {init, p1}
  initproc = init
  MemorySizes = {8, 10, 11, 12, 13, 14, 15, 16}
  FAN = 4
  PGSIZE = 2
  USERSTACK = 1
  Word = 65536
  prog = prog
  Programs <- MCPrograms
  ArgSizes = {1, 3}
  AddrPages = {0, 1, 2, 3}
  MaxSize = 11
  SbrkArgs <- MCSbrkArgs
  Values = {zero, prog}
  Zero = zero
  MaxCalls = 3
  HeapEnd = 12
  MinCore = 4
  MaxUnits = 5
  SbrkUnits = {2}
  Callers = {q1, q2}
  Names = {a, b}
  NINODES = 2
  NINODE = 2
  None = None
  elem = elem
  TreeInodes = 3
  NBLOCKS = 5
  BSIZE = 2
  NDIRECT = 1
  MAXOPBLOCKS = 8
  BPB = 1
  MaxFileCalls = 3
SYMMETRY Symmetry
INVARIANTS
  PagesOwned
  NoPanics
  HeapSound
  InodesCounted
  PointersLive
  BlocksOwned
  
  FitsInLog
PROPERTY
  SpacesChange
  TreeKept
