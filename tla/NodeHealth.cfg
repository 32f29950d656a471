CONSTANTS
  n1 = n1
  j1 = j1
  w1 = w1
  a1 = a1
  a2 = a2
  Nodes = {n1}
  Jobs = {j1}
  Admins = {w1}
  Addresses = {a1}
  MaxFaults = 1
SPECIFICATION FairSpec
INVARIANTS
  TypeOK
  CountersMeanChecks
PROPERTIES
  AlertsAsPromised
  DownIsReported
  RecoveryIsReported
  StatusFollowsWorker
