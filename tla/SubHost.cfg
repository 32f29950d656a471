\* Two requests to two host names; no node, no host of the panel, no devices.
CONSTANTS
  Requests = {"r1", "r2"}
  Devices = {}
  NoDevice = "none"
  Names = {"p", "q"}
  Inbounds = {"i1", "i2"}
  Protocol <- MCProtocol
  Nodes = {}
  Hosts = {}
  Mode <- MCMode
  Notices = TRUE
  MaxDevices = {0}
  Topics = {"hosts", "inbounds", "sessions"}
  MaxRows = 0
  MaxEdits = 2
SPECIFICATION Spec
INVARIANT OwnHost
CHECK_DEADLOCK FALSE
