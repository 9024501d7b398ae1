SPECIFICATION MCSpec
CONSTANTS
  Threads = {t1, t2, t3}
  NoThread = NoThread
  Bufs = {f1, f2, f3}
  Few = {f1, f2}
  NoBuf = NoBuf
  Blks = {k1, k2, k3}
  NoBlk = NoBlk
  Vals = {v1, v2}
  NUM = 8
  Changed = {k1}
SYMMETRY Symmetry
INVARIANTS BufferStaysMine DiskNoLostWakeup DescriptorsOwned
PROPERTY IsBlockStore
