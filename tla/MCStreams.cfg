SPECIFICATION MCSpec
CONSTANTS
  Procs = {p1, p2}
  Nobody = Nobody
  Byte = {a, b}
  PIPESIZE = 2
  UintMod = 4
  Sizes = {3}
  MaxKills = 1
  Users = {u1, u2}
  NoUser = NoUser
  Plain = {"x"}
  INPUT_BUF_SIZE = 2
  UART_TX_BUF_SIZE = 1
  Readers = {u1}
  Writers = {u2}
  ReadSizes = {2}
  MAXARGS = 3
  MaxTokens = 4
  MaxProcs = 7
  Commands <- MCCommands
  MaxHeap = 9
  MINUNITS = 3
  Requests = {2, 4}
SYMMETRY Symmetry
INVARIANTS NoUseAfterFree EofIsFinal NoLostWakeup ConsoleNoLostWakeup ParsesTheLine PipelinesEnd HeapSound
PROPERTIES Fifo IsLineDiscipline
CHECK_DEADLOCK FALSE
