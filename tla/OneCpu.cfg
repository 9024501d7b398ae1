SPECIFICATION MCSpec
CONSTANTS
  NPROC = 3
  Cpus = {c1}
  NoCpu = NoCpu
  MaxPid = 3
  Used = {0, 1}
  MaxDraws = 6000
  NCPU = 1
  MemFail = {"fork"}
  Targets = {2}
INVARIANT SharesFollowTickets
PROPERTIES FairService InitReaps
