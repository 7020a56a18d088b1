SPECIFICATION ASpec
CONSTANTS
  PageCount = 4
  PageSize = 2
  Base = 8
  MaxOrder = 2
  Pow2 <- Doubling
  Usable = {0, 1, 2, 3}
  Sizes = {2, 6}
  Aligns = {4}
INVARIANT
  NoDoubleAlloc
