SPECIFICATION IntegratedSpec
CONSTANTS
  Threads = {t1, t2, t3}
  NClients = 1
  ClientOf <- MCClientOf
  WarmupReqsClient = 1
  WarmupReqs = 1
  MaxReqs = 3
  MaxStarted = 7
INVARIANTS IntegratedTypeOK RespondsToOwnRequest DumpedSamples
PROPERTIES ImplementsMeasurement Terminates
CHECK_DEADLOCK FALSE
