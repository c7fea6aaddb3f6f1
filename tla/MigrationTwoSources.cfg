SPECIFICATION Spec
CONSTANTS
  a = a
  b = b
  t = t
  c1 = c1
  c2 = c2
  p = p
  q = q
  Servers = {a, b, t}
  Initiators = {a, b}
  Callers = {c1}
  Players = {p, q}
  Birth <- BirthAB
  MaxID = 1
  MaxDup = 0
  Lossy <- NoLoss
  Ordered = TRUE
  Timely = TRUE
INVARIANTS
  CommitOnlyIfLanded
CHECK_DEADLOCK FALSE
