SPECIFICATION Spec
CONSTANTS
  w1 = w1
  w2 = w2
  NoWorker = NoWorker
  c1 = c1
  c2 = c2
  Workers = {w1, w2}
  Conns = {c1, c2}
  WarmupReqs = 1
  MaxReqs = 1
  MaxSent <- MCOneEach
  EarlyExit = FALSE
INVARIANTS ServerEndsCleanly
CHECK_DEADLOCK FALSE
