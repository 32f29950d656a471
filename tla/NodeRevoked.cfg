\* Only the reply of a gRPC call with a deadline can get lost.
CONSTANTS
  hot = hot
  cold = cold
  None = None
  Torn = Torn
  Tags <- MCTags
  HotTags <- MCHotTags
  Users = {u1}
  Rules = {r1}
  Obs = {o1}
  Faults = {"lost"}
SPECIFICATION Spec
INVARIANT RevokedStaysRevoked
CHECK_DEADLOCK TRUE
