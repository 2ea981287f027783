SPECIFICATION Spec
CONSTANTS
  w1 = w1
  w2 = w2
  c1 = c1
  c2 = c2
  k1 = k1
  k2 = k2
  k3 = k3
  NoTask = NoTask
  Workers = {w1, w2}
  Callers = {c1, c2}
  Stoppers = {c1}
  Tasks = {k1, k2, k3}
  QueueLimit = 1
INVARIANTS TypeOK StopFlushes NobodyOversleeps
PROPERTIES StopReturns SubmitReturns
CHECK_DEADLOCK FALSE
