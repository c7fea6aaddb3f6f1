SPECIFICATION Spec
CONSTANTS
  phone = phone
  tablet = tablet
  Nobody = Nobody
  Clients = {phone, tablet}
  Messages <- Protocol
  MaxLane = 3
  LaneCap = 1
  Patient = TRUE
  PendingCap = 1
  MaxLink = 1
  MaxSend = 1
  MaxBreak = 1
CONSTRAINT TroubledAlone
SYMMETRY Alike
INVARIANTS
  TypeOK
  NewestMapped
  SingleLogin
  NobodyLeftBehind
  OneAtATime
PROPERTIES
  ImplementsQueue
CHECK_DEADLOCK FALSE
