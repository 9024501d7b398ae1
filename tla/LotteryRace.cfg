SPECIFICATION Spec
CONSTANTS
  NPROC = 3
  Cpus = {c1, c2}
  NoCpu = NoCpu
  MaxPid = 3
  Used = {0}
PROPERTY RoundRobin
