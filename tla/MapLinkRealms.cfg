SPECIFICATION Spec
CONSTANTS
  near = near
  far = far
  nearMap = nearMap
  farMap = farMap
  p1 = p1
  p2 = p2
  town = town
  field = field
  arena = arena
  Nobody = Nobody
  GameServers = {near, far}
  MapServers = {nearMap, farMap}
  Players = {p1, p2}
  Maps = {town, field}
  Realm <- RealmOfBoth
  Home <- HomeOfBoth
  MapsAt <- MapsOfBoth
  Configured = {town}
  Instances <- Activity
  MaxSeq = 2
  MaxAgain = 0
  MaxRetry = 2
  MaxRestart = 0
  Faulty <- NoVia
  Lossy = FALSE
  Polite = FALSE
  Racing = FALSE
INVARIANTS
  EnterNotSwallowed
PROPERTIES
  AppearsByNewRequest
VIEW ButAstray
CHECK_DEADLOCK FALSE
