SPECIFICATION Spec
CONSTANTS
  N = 3
  Syncs = {s1, s2}
  Masks <- AnyMask
  ChainCap = 1
SYMMETRY SyncSymmetry
INVARIANTS
  SyncInv
  OthersReachedOnceStarted
PROPERTY
  ImplementsBarrierSpec
