SPECIFICATION Spec
CONSTANTS
  NPROC = 3
  NCPU = 2
  MemFail = {"forkprio"}
  Targets = {2, 3}
  MaxPid = 4
INVARIANT NoPanic
