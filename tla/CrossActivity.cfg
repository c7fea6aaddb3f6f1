SPECIFICATION FairSpec
CONSTANTS
  p1 = p1
  p2 = p2
  near = near
  far = far
  h1 = h1
  h2 = h2
  Nobody = Nobody
  Players = {p1, p2}
  GameServers = {near, far}
  Home <- OneEach
  Hosts = {h1, h2}
  MaxInstance = 2
  MaxMove = 1
  MaxEnter = 2
  MaxRound = 1
  Reaping = {near}
  Moving = {h1}
INVARIANTS
  TypeOK
  Together
  KeptConnected
PROPERTIES
  Converges
CHECK_DEADLOCK FALSE
