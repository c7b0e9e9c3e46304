SPECIFICATION Spec
CONSTANTS
  Pids = {1, 2, 3, 4, 5, 6, 7}
  Pipes = {1, 2, 3, 4}
  NOFILE = 6
  NFILE = 2
  PIPESIZE = 1
  MaxFails = 1
  MAX = 7
  MAXARGS = 4
  BufSize = 6
  ForkMax = 8
  DIRSIZ = 2
  MaxLine = 5
  MaxPattern = 4
  MaxText = 3
  MaxPath = 6
  MaxMem = 5
  Program <- ProgramCode
  Jobs <- MCJobs
  Typed <- TypedLines
INVARIANTS
  OutputInOrder
  NothingLeft
  ParserRight
  StringsRight

  
CHECK_DEADLOCK FALSE
