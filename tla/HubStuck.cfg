CONSTANTS
  c1 = c1
  c2 = c2
  Clients = {c1, c2}
  Own = {}
  Loop = Loop
  Job = Job
  RegisterCap = 1
  UnregisterCap = 1
  BroadcastCap = 1
  SendCap = 1
  PoolSize = 2
  MaxMessages = 2
  MaxDirect = 0
SPECIFICATION FairSpec
CHECK_DEADLOCK FALSE
PROPERTIES
  FullIsDisconnected
