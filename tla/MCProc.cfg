SPECIFICATION BothSpec
CONSTANTS
  NPROC = 3
  CPUs = {c1, c2}
  MaxPid = 4
  KillPids = {2, 3}
  UintMod = 4
  StartTicks = 3
SYMMETRY Symmetry
INVARIANTS
  
  ParentAlive
  NoLostExit
  KillsOnlyNamed
  InterruptsMatch
  SleepsExactly
