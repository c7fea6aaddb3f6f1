SPECIFICATION FairSpec
CONSTANTS
  anna = anna
  lane1 = lane1
  lane2 = lane2
  sword = sword
  potion = potion
  Nobody = Nobody
  Players = {anna}
  Lanes = {lane1}
  Items = {sword}
  MaxLogin = 2
  MaxChange = 2
  MayFail = TRUE
  Excused <- Disturbances
INVARIANTS
  TypeOK
  CleanMeansSaved
  OfflineMeansSaved
PROPERTIES
  MarkTaken
CHECK_DEADLOCK FALSE
