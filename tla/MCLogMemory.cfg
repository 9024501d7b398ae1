SPECIFICATION MCSpec
CONSTANTS
  Procs = {p1, p2, p3}
  Blocks = {b1, b2, b3}
  Data = {0, 1}
  Zero = 0
  NotCached = NotCached
  LOGSIZE = 4
  MAXOPBLOCKS = 2
  Size = 4
  MaxCrashes = 2
  Slots = {s1, s2}
  Init_ = s1
  NPAGES = 16
  PGSIZE = 2
  FANOUT = 2
  USERSTACK = 1
  MaxSz = 10
  Steps <- MCSteps
  Programs <- MCPrograms
  CopyPages = 3
SYMMETRY Symmetry
INVARIANTS RoomReserved NoLostWakeup PagesAccounted CopiesExactly
PROPERTIES Atomic FailureKeepsImages
