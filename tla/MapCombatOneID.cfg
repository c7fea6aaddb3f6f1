SPECIFICATION Spec
CONSTANTS
  ann = ann
  bob = bob
  hill = hill
  pond = pond
  Nowhere = Nowhere
  NoJob = NoJob
  NoTarget = NoTarget
  Players = {ann, bob}
  Points = {hill, pond}
  MaxCount <- OneEach
  MaxDrop = 1
  MaxObject = 4
  Litter = 1
  MaxTimers = 2
  GameID = 101
  MapID = 101
  MaxSeq = 2
  MaxGrant = 2
  MaxBreak = 1
SYMMETRY Alike
INVARIANT RewardsKept
CHECK_DEADLOCK FALSE
