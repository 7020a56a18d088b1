\* Four pages and requests of one, two and three of them, so that pieces are
\* left before and after what is aligned and some of their records fit.
SPECIFICATION ASpec
CONSTANTS
  PageCount = 4
  PageSize = 2
  Base = 8
  MaxOrder = 2
  Pow2 <- Doubling
  Usable = {0, 1, 2, 3}
  Sizes = {2, 4, 6}
  Aligns = {2, 4}
INVARIANTS
  FillsOwnPages
  FreesAccepted
PROPERTY KernelSpec
