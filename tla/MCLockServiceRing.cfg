SPECIFICATION ScriptedSpec
CONSTANTS
  N = 4
  Locks = {0, 1, 2, 3}
  ChainCap = 2
  ReqQCap = 2
INVARIANTS
  RequestRingNeverDead
