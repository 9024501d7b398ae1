SPECIFICATION FairSpec
CONSTANTS
  NPROC = 3
  Cpus = {c1}
  NoCpu = NoCpu
  Prios = {0, 1}
  IntMax = 399
  MaxPid = 3
  MaxPass = 399
PROPERTY TicketedShare
