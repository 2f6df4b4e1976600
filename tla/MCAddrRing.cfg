SPECIFICATION TurnSpec
CONSTANTS
  N = 3
  Msg = {m1, m2}
  m1 = m1
  m2 = m2
  Traffic <- ToPrimary
  LinkCap = 2
  QCap = 1
  Mode = 2
INVARIANT RingInv
PROPERTIES ImplementsRingNet EveryStopSends EveryMessageMoves
