SPECIFICATION FairSpec
CONSTANTS
  a = a
  b = b
  t = t
  c1 = c1
  c2 = c2
  p = p
  q = q
  Servers = {a, b}
  Initiators = {a}
  Callers = {c1}
  Players = {p}
  Birth <- BirthA
  MaxID = 2
  MaxDup = 1
  Lossy <- AllButComplete
  Ordered = TRUE
  Timely = TRUE
INVARIANTS
  CommitOnlyIfLanded
  LandsOnce
  PlayerOnTargetAtCommit
  OneHomeAtRest
PROPERTIES
  DuplicateHealed
  ImplementsOwnership
CHECK_DEADLOCK FALSE
