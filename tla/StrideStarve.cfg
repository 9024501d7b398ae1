SPECIFICATION FairSpec
CONSTANTS
  NPROC = 3
  Cpus = {c1}
  NoCpu = NoCpu
  Prios = {0}
  IntMax = 2147483647
  MaxPid = 3
  MaxPass = 100
PROPERTY NoStarvation
