\* LocalCore with two requests for one inbound, a caller that restarts or
\* stops and one failure; the other parts as MCPanel bounds them.
CONSTANTS
  Of <- MCOf
  Tags = {t1}
  Contents = {v1}
  Callers = {c1}
  Requests = {q1, q2}
  Nobody = Nobody
  NoRow = NoRow
  Off = Off
  NoCore = NoCore
  MaxFaults = 1

SPECIFICATION PartsSpec
SYMMETRY Symmetry
INVARIANTS
  TypeOK SettledInSync  GeofilesInOrder CoreGivenBack
  SidecarsAsConfigured PeersFollowClients AddressesDistinct
 
CHECK_DEADLOCK FALSE
