SPECIFICATION FairSpec
CONSTANTS
  N = 2
  Syncs = {s1, s2}
  Masks <- SlaveMask
  ChainCap = 2
PROPERTIES
  BarrierProgress
