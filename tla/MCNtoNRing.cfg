SPECIFICATION FairSpec
CONSTANTS
  N = 4
  Msg = {m1}
  Traffic <- Wrapping
  LinkCap = 1
  QCap = 1
  Mode = 2
INVARIANT RingInv
PROPERTIES ImplementsRingNet Chain0Moves Chain1Moves EveryStopSends
