SPECIFICATION FairSpec
CONSTANTS
  N = 3
  Locks = {l1}
  ChainCap = 2
  ReqQCap = 2
PROPERTIES
  LockProgress
  ImplementsLockSpec
