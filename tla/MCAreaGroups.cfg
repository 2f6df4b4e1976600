SPECIFICATION Spec
CONSTANTS
  ChipX = 128
  ChipY = 96
  NoLoc = NoLoc
  NoGroup = NoGroup
  NoSlices = NoSlices
  Platform <- NoPlatform
  Files <- AllFiles
  Reports <- AllReports
  EmitPlatform = FALSE
  Grid <- Corners
  Alphabet <- Names
  DictOrders <- TwoOrders
  FirstTours <- Tours
  MaxEvals = 3
  MaxBuilds = 3
INVARIANTS
  NoOverlap
  PblocksDisjoint
  ShapesFollowAreas
  TourIsBest
CHECK_DEADLOCK FALSE
