SPECIFICATION FairCSpec
CONSTANTS
  Cores = {c0, c1, c2}
  BootCore = c0
  StrLen = 2
  MaxPrints = 2
  MaxLosses = 1
INVARIANTS
  MutualExclusion
  MessagesContiguous
PROPERTIES
  LockSpec
  EveryCoreSpeaks
