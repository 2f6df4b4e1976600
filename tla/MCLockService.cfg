SPECIFICATION Spec
CONSTANTS
  N = 3
  Locks = {l1, l2}
  ChainCap = 2
  ReqQCap = 2
SYMMETRY LockSymmetry
INVARIANTS
  TypeOK
  OneToken
  InUseIffGranted
  NothingDropped
  LockMutex
