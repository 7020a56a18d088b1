\* Twelve pages of 4 bytes from page 4 of memory on.  The kernel is in the zone's
\* page 4, its allocator's records after it: the boot loop frees pages 0-3 and 11.
SPECIFICATION Spec
CONSTANTS
  PageCount = 12
  PageSize = 4
  Base = 16
  MaxOrder = 3
  Pow2 <- Doubling
  KernStart = 33
  KernEnd = 35
  HeaderSize = 3
  RecordSize = 1
  Usable <- FreedAtBoot
  Sizes = {0, 4, 6, 12}
  Aligns = {8, 16, 12}
INVARIANTS
  IInv
  Coalesced
  CountsExact
  FailsOnlyWhenFull
  ServesRequests
  AssertionsHold
  BootDataKept
PROPERTIES
  PoolSpec
