\* The ARM exceptions alone: the r0 of the interrupted code.
SPECIFICATION MCSpec
CONSTANTS
  Parts = {"arm"}
  Devices <- RpiDevices
  devno <- RpiNumbers
  parent <- RpiBuses
  Null = Null
  Junk = Junk
  root = root
  child = child
  uart = uart
  disk = disk
  Lists = {l1, l2}
  Entries = {e1, e2, e3}
  Depth = 2
  MaxStale = 2
  Values = {0, 1}
  Odd = 1
  MayIgnore = {"ARMMEMORY", "VCMEMORY", "GETDISPLAYSIZE", "GETPITCH"}
  Width = 25
  Height = 38
  CONPAGE_COLS = 2
  Printed = {"a"}
  Boards <- RpiBoards
  KOFFSET = 512
  PortSpace = 64
  AddrSpace = 1024
  FifoSize = 2
  Chars = {"a", "nl"}
  MaxChars = 4
  Half = 32
  Contexts <- RpiContexts
  MaxDepth = 2
PROPERTY R0Restored
