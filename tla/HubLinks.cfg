CONSTANTS
  c1 = c1
  c2 = c2
  Clients = {c1, c2}
  Own = {c1, c2}
  Loop = Loop
  Job = Job
  RegisterCap = 1
  UnregisterCap = 1
  BroadcastCap = 1
  SendCap = 1
  PoolSize = 2
  MaxMessages = 2
  MaxDirect = 1
  Setup <- PeopleSetup
  Parts = {"hub", "devices", "links", "wording"}
SPECIFICATION PartsSpec
CHECK_DEADLOCK FALSE
SYMMETRY Interchangeable
INVARIANTS
  TypeOK
  RegisteredIsOpen
  NothingSkipped
  MissedIsLeaving
  StopNeverBlocks
  
  
  GeneratorsAgree
  SameSecurity
