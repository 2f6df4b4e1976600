SPECIFICATION Spec
CONSTANTS
  N = 4
  ChanSeq <- Channels
  ChainSeq <- Chains
  ServiceName = "srv"
  Programs <- AllPrograms
  NoArea = NoArea
  Orders <- Tours
  MaxRules = 2
INVARIANTS
  EveryEndConnected
  ChainsThreaded
  ChainsFollowOrder
  BuffersFollowRoots
  PromisedFilesMade
CHECK_DEADLOCK FALSE
