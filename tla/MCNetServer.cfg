SPECIFICATION Spec
CONSTANTS
  Workers = {w1, w2}
  w1 = w1
  w2 = w2
  NoWorker = NoWorker
  c1 = c1
  c2 = c2
  Conns = {c1, c2}
  WarmupReqs = 1
  MaxReqs = 1
  MaxSent <- MCMaxSent
  EarlyExit = TRUE
INVARIANTS TypeOK NotEarly RespondsToRequester FrameAligned BoundedSkip
SYMMETRY Symmetry
CHECK_DEADLOCK FALSE
