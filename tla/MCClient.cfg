SPECIFICATION ClientSpec
CONSTANTS
  t1 = t1
  t2 = t2
  t3 = t3
  NClients = 2
  Threads <- MCThreads
  ClientOf <- MCClientOf
  WarmupReqsClient = 1
  MaxStarted = 2
INVARIANTS ClientTypeOK StartTogether WarmupOvershoot NoAssertFails OwedInFlight NoLostWakeup
PROPERTIES ImplementsMeasurement GateOpens
CHECK_DEADLOCK FALSE
