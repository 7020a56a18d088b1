\* Early mappings of both architectures, up to six of drivers and of the machine,
\* over an address space of sixteen big pages; memory maps of two to four regions
\* in any order, in pages of two units, a DMA zone of four pages and a kernel
\* address space of eight; a line of each interrupt controller, one of the
\* master's masked or not, and an exception.  A panic and the end of the boot
\* are ends.
SPECIFICATION MCSpec
CONSTANTS
  Parts = {"mapping", "memory", "pc"}
  QueueLength = 6
  Top = 32
  BigPage = 2
  KernBase = 16
  KmmapBase = 26
  ReservedBase = 31
  MidSize = 4
  MaxMemory = 8
  KernelSize = 7
  MemioBase = 6
  MemioTop = 10
  ArmSizes = {2, 3}
  Frames <- MCFrames
  Entries <- MCEntries
  Blocks <- MCBlocks
  PageSize = 2
  DmaTop = 8
  KernelSpace = 16
  KernStart = 4
  KernEnd = 5
  Area = 1
  Wide = 64
  Narrow = 32
  MaxRegions = 3
  Machines <- MCMachines
  Irqs = {1, 4, 9}
  Traps = {14}
INVARIANTS
  MappingsApplied
  HighHalfRight
  PagesFreedOnce
PROPERTIES
  EnabledLinesServed
CHECK_DEADLOCK FALSE
