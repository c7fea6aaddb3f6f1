SPECIFICATION Spec
CONSTANTS
  near = near
  far = far
  nearMap = nearMap
  farMap = farMap
  p1 = p1
  p2 = p2
  town = town
  field = field
  arena = arena
  Nobody = Nobody
  GameServers = {near}
  MapServers = {nearMap, farMap}
  Players = {p1}
  Maps = {town, field}
  Realm <- RealmOfOne
  Home <- HomeOfOne
  MapsAt <- MapsOfBoth
  Configured = {town}
  Instances <- Activity
  MaxSeq = 3
  MaxAgain = 0
  MaxRetry = 2
  MaxRestart = 0
  Faulty <- CrossOnly
  Lossy = FALSE
  Polite = TRUE
  Racing = FALSE
INVARIANTS
  NoGhost
CHECK_DEADLOCK FALSE
