SPECIFICATION Spec
CONSTANTS
  Procs = {p1, p2, p3}
  Blocks = {b1, b2, b3, b4, b5, b6}
  Data = {0}
  Zero = 0
  NotCached = NotCached
  LOGSIZE = 6
  MAXOPBLOCKS = 2
  Size = 6
  MaxCrashes = 0
INVARIANT AdmittedFits
