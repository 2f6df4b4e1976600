SPECIFICATION FairSpec
CONSTANTS
  N = 3
  Msg = {m1}
  Traffic <- ToPrimary
  LinkCap = 2
  QCap = 1
INVARIANT RingInv
PROPERTIES ImplementsRingNet EveryStopSends EveryMessageArrives
