SPECIFICATION FairSpec
CONSTANTS
  near = near
  far = far
  nearMap = nearMap
  farMap = farMap
  p1 = p1
  p2 = p2
  town = town
  field = field
  arena = arena
  Nobody = Nobody
  GameServers = {near}
  MapServers = {nearMap, farMap}
  Players = {p1}
  Maps = {town, field, arena}
  Realm <- RealmOfOne
  Home <- HomeOfOne
  MapsAt <- MapsWithArena
  Configured = {town}
  Instances <- Activities
  MaxSeq = 3
  MaxAgain = 1
  MaxRetry = 3
  MaxRestart = 1
  Faulty <- Vias
  Lossy = TRUE
  Polite = TRUE
  Racing = FALSE
INVARIANTS
  StaysOnTarget
  HomeAgrees
  InstanceAgrees
PROPERTIES
  EventuallySettled
CHECK_DEADLOCK FALSE
