SPECIFICATION NetClientSpec
CONSTANTS
  t1 = t1
  t2 = t2
  NoThread = NoThread
  NClients = 1
  Threads <- MCThreads
  ClientOf <- MCOneClient
  WarmupReqsClient = 1
  MaxStarted = 2
  WarmupReqs = 1
  MaxReqs = 1
  MaxAnnounced <- MCOnce
  ServerMayDie = FALSE
INVARIANTS SharedConnection MonitorAccounts FilesAgree
PROPERTIES RunEnds
CHECK_DEADLOCK FALSE
