SPECIFICATION Spec
CONSTANTS
  MaxThreads = 12
  MaxClients = 14
INVARIANTS WithinClients BarrierCountsSenders
CHECK_DEADLOCK FALSE
