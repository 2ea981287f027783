SPECIFICATION IntegratedSpec
CONSTANTS
  Threads = {t1, t2}
  NClients = 1
  ClientOf <- MCClientOf
  WarmupReqsClient = 1
  WarmupReqs = 1
  MaxReqs = 3
  MaxStarted = 8
INVARIANTS NoLostWakeup
CHECK_DEADLOCK FALSE
