\* Three blocks of 8 bytes with a header of three: a level of two slots, one of
\* one slot, and objects of one and two blocks.  A size_t wraps at 16.
SPECIFICATION KSpec
CONSTANTS
  Pages = {1, 2, 3}
  BlockSize = 8
  HeaderSize = 3
  MinLevel = 1
  MaxLevel = 2
  Pow2 <- Doubling
  Sizes = {2, 3, 5, 9}
  WordSize = 16
  Members = {17}
  CacheSize = 2
INVARIANTS
  SoltsAccounted
  SlubsListed
  PointersDistinguished
  PagesAccounted
  FillsOwnObject
PROPERTIES
  HeapSpec
