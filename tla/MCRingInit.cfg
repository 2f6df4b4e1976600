SPECIFICATION FairInitSpec
CONSTANTS
  N = 4
  MaxBound = 4
  LinkCap = 2
INVARIANTS InitInv NoMixUp
PROPERTY AllInitialized
