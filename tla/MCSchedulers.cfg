SPECIFICATION MCSpec
CONSTANTS
  NPROC = 3
  Cpus = {c1, c2}
  NoCpu = NoCpu
  Prios = {0, 2}
  IntMax = 2147483647
  MaxPid = 3
  MaxPass = 60
  Used = {1}
SYMMETRY CpuSymmetry
INVARIANTS NoSharedStack PicksMinimum NoCircularWait
PROPERTY Dispatches
