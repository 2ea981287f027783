SPECIFICATION NetClientSpec
CONSTANTS
  t1 = t1
  t2 = t2
  NoThread = NoThread
  NClients = 2
  Threads <- MCThreads
  ClientOf <- MCOwnClient
  WarmupReqsClient = 1
  MaxStarted = 1
  WarmupReqs = 1
  MaxReqs = 1
  MaxAnnounced <- MCFinishTwice
  ServerMayDie = TRUE
INVARIANTS NetClientTypeOK DumpMeasuresRoi FilesComplete AbortsOnlyByRoiBegin NeverStuck
CHECK_DEADLOCK FALSE
