SPECIFICATION LiveSpec
CONSTANTS
  NPROC = 3
  CPUs = {c1, c2}
  MaxPid = 3
  KillPids = {}
  MaxWaits = 0
PROPERTY
  OrphansReaped
