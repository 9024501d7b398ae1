SPECIFICATION MCSpec
CONSTANTS
  Procs = {p1, p2}
  NoProc = NoProc
  NInodes = 3
  NINODE = 3
  NFILE = 1
  NOFILE = 2
  Names = {"a", "b"}
  Calls <- MCCalls
  Files = {f1, f2}
  Opens = {o1, o2}
  NBlocks = 3
  NDIRECT = 1
  BSIZE = 2
  UintSize = 2
  MAXOPBLOCKS = 6
  BPB = 1
  UintMod = 16
  MaxWrite = 3
  DIRSIZ = 2
  Chars = {"x", "y"}
  MaxPath = 3
SYMMETRY Symmetry
INVARIANTS RefsCounted InUseIsKept NoCircularWait BlocksAccounted FitsTransaction NamesFound
PROPERTIES OrphansOnlyReused IsByteFile
